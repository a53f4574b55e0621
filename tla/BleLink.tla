------------------------------ MODULE BleLink ------------------------------
(***************************************************************************)
(* The chunked RPC transport between the web application                   *)
(* (webapp/src/lib/ble/BleClientChunker.ts) and a session of the device    *)
(* (firmware/src/lib/ble_chunker.hpp, rpc/rpc.cpp).                        *)
(*                                                                         *)
(* A request is cut into chunks.  All but the last are written without     *)
(* response and may be lost; the last is acknowledged.  The device runs    *)
(* the request when the last chunk completes it, and the client reads the  *)
(* response chunk by chunk.  A gap makes the device answer MISSED_CHUNKS   *)
(* and the client start over under a new message id.  GATT operations may  *)
(* be rejected, the connection may drop and come back with a new session.  *)
(***************************************************************************)
EXTENDS Naturals, Sequences

CONSTANTS
  Calls,       \* bound: calls the application makes
  RequestLen,  \* chunks of each call's request
  ResponseLen, \* chunks of each call's response; 0 is an empty response
  MaxLen,      \* chunks that fit into MaxMessageSize
  IdModulus,   \* message ids wrap around here (256 in the code)
  MaxLosses,   \* bound: chunks lost
  MaxFaults,   \* bound: GATT operations rejected
  MaxDrops     \* bound: connections dropped

CallIds == 1..Calls

ASSUME CallsAssumption ==
  /\ Calls \in Nat /\ MaxLen \in Nat
  /\ RequestLen \in [CallIds -> 1..MaxLen]     \* RpcCaller.ts:24
  /\ ResponseLen \in [CallIds -> Nat]
ASSUME FaultsAssumption ==
  MaxLosses \in Nat /\ MaxFaults \in Nat /\ MaxDrops \in Nat

\* With every id used up by messages of which the device saw nothing, a new
\* message would be taken for the tail of an old one.
ASSUME IdAssumption == IdModulus \in Nat /\ MaxFaults + 1 < IdModulus

VARIABLES
  cpc,      \* what sendOne does next
  asked,    \* the call it works on; calls are sequential (queue)
  id,       \* messageIdCounter
  pos,      \* chunks of this attempt handed to the link
  got,      \* response chunks read
  outcome,  \* what became of each call
  wire,     \* chunks on their way to the device
  up,       \* connected
  session,  \* BleChunker state of the connection's session
  runs,     \* requests the device has run (history)
  losses, faults, drops

clientVars == <<cpc, asked, id, pos, got, outcome>>
countVars  == <<losses, faults, drops>>
vars == <<clientVars, wire, up, session, runs, countVars>>

\* A request chunk; its payload is the pair of its call and place.
Chunk(n) == [id |-> id, seq |-> n, call |-> asked, final |-> n + 1 = RequestLen[asked]]

\* resetState for message id i.
Reset(i) ==
  [first |-> FALSE, cur |-> i, expect |-> 0, skip |-> FALSE, buf |-> <<>>,
   ready |-> FALSE, error |-> "none", resp |-> 0, off |-> 0]

\* A BleChunker that has seen no chunk.
NewSession == [Reset(0) EXCEPT !.first = TRUE]

TypeOK ==
  /\ cpc \in {"idle", "write", "ack", "read", "reread", "more"}
  /\ asked \in 0..Calls
  /\ id \in 0..(IdModulus - 1)
  /\ pos \in 0..MaxLen
  /\ got \in Seq(CallIds \X Nat)
  /\ outcome \in [CallIds -> {"none", "ok", "failed"}]
  /\ \A i \in DOMAIN wire : wire[i].call \in CallIds /\ wire[i].seq \in 0..(MaxLen - 1)
  /\ up \in BOOLEAN
  /\ session.cur \in 0..(IdModulus - 1)
  /\ session.expect \in 0..MaxLen /\ Len(session.buf) = session.expect
  /\ session.error \in {"none", "missed", "overflow"}
  /\ session.resp \in 0..Calls
  /\ losses \in 0..MaxLosses /\ faults \in 0..MaxFaults /\ drops \in 0..MaxDrops

Init ==
  /\ cpc = "idle" /\ asked = 0 /\ id = 0 /\ pos = 0 /\ got = <<>>
  /\ outcome = [c \in CallIds |-> "none"]
  /\ wire = <<>> /\ up = TRUE /\ session = NewSession /\ runs = <<>>
  /\ losses = 0 /\ faults = 0 /\ drops = 0

(***************************************************************************)
(* The device: BleChunker.                                                 *)
(***************************************************************************)

\* prepareErrorResponse.
Refuse(s, e) == [s EXCEPT !.skip = TRUE, !.ready = FALSE, !.error = e]

\* Mutant: a gap in the sequence is not noticed.
AssembleLoosely(s, c) ==
  [s EXCEPT !.buf = Append(@, <<c.call, c.seq>>), !.expect = @ + 1,
            !.skip = c.final, !.ready = c.final, !.resp = IF c.final THEN c.call ELSE @]

\* consumeChunk of the next chunk of the message being assembled: the last
\* one completes it, runs it and makes the response ready.
Assemble(s, c) ==
  IF Len(s.buf) = MaxLen THEN Refuse(s, "overflow")
  ELSE IF c.seq # s.expect THEN Refuse(s, "missed")
  ELSE [s EXCEPT !.buf = Append(@, <<c.call, c.seq>>), !.expect = @ + 1,
                 !.skip = c.final, !.ready = c.final,
                 !.resp = IF c.final THEN c.call ELSE @]

\* consumeChunk: the tail of a message that has ended is skipped, a new id
\* starts a new message.
Consume(s, c) ==
  IF s.skip /\ c.id = s.cur THEN s
  ELSE Assemble(IF s.first \/ c.id # s.cur THEN Reset(c.id) ELSE s, c)

\* The chunk c completes a request, which is run.
Completes(s, c) == Consume(s, c) # s /\ Consume(s, c).ready

\* Mutant: the chunk before the last is taken for the last.
ResponseChunkShort(s) ==
  IF s.error # "none" THEN [kind |-> s.error]
  ELSE IF ~s.ready THEN [kind |-> "nodata"]
  ELSE [kind |-> "data", payload |-> <<s.resp, s.off>>,
        final |-> s.off + 2 >= ResponseLen[s.resp]]

\* getResponseChunk. A chunk of an empty response has no payload, which is
\* written like the first payload.
ResponseChunk(s) ==
  IF s.error # "none" THEN [kind |-> s.error]
  ELSE IF ~s.ready THEN [kind |-> "nodata"]
  ELSE [kind |-> "data", payload |-> <<s.resp, s.off>>,
        final |-> s.off + 1 >= ResponseLen[s.resp]]

\* What a read leaves behind: errors are reported once, and nothing is ready
\* after the final chunk.
AfterRead(s) ==
  IF s.error # "none" THEN [s EXCEPT !.error = "none"]
  ELSE IF ~s.ready THEN s
  ELSE [s EXCEPT !.off = @ + 1, !.ready = ~ResponseChunk(s).final]

(***************************************************************************)
(* The link.                                                               *)
(***************************************************************************)

\* The call ends with result r.
Finish(r) ==
  /\ cpc' = "idle"
  /\ outcome' = [outcome EXCEPT ![asked] = r]
  /\ UNCHANGED <<asked, id, pos>>

\* onWrite: the next chunk reaches the session.
Deliver ==
  /\ up /\ wire # <<>>
  /\ wire' = Tail(wire)
  /\ session' = Consume(session, Head(wire))
  /\ runs' = IF Completes(session, Head(wire)) THEN Append(runs, session'.buf) ELSE runs
  /\ UNCHANGED <<clientVars, up, countVars>>

\* A chunk written without response is lost.
Lose ==
  /\ wire # <<>> /\ ~Head(wire).final
  /\ losses < MaxLosses /\ losses' = losses + 1
  /\ wire' = Tail(wire)
  /\ UNCHANGED <<clientVars, up, session, runs, faults, drops>>

\* The connection drops with everything on it, a write that is waited for
\* included; onDisconnect removes the session.
Drop ==
  /\ up /\ drops < MaxDrops /\ drops' = drops + 1
  /\ up' = FALSE /\ wire' = <<>> /\ session' = NewSession
  /\ IF cpc = "ack" THEN Finish("failed") /\ UNCHANGED got ELSE UNCHANGED clientVars
  /\ UNCHANGED <<runs, losses, faults>>

\* The client connects again; onConnect makes a session.
Reconnect ==
  /\ ~up /\ up' = TRUE
  /\ UNCHANGED <<clientVars, wire, session, runs, countVars>>

(***************************************************************************)
(* The client: sendOne.                                                    *)
(***************************************************************************)

\* Mutant: message ids do not wrap around.
AttemptUnwrapped == id' = id + 1 /\ pos' = 0 /\ got' = <<>> /\ cpc' = "write"

\* splitIntoChunks.
Attempt == id' = (id + 1) % IdModulus /\ pos' = 0 /\ got' = <<>> /\ cpc' = "write"

\* Mutant: a second attempt keeps the message id.
RetrySameId ==
  pos' = 0 /\ got' = <<>> /\ cpc' = "write" /\ UNCHANGED <<id, asked, outcome>>

\* A further attempt at the same call.
Retry == Attempt /\ UNCHANGED <<asked, outcome>>

\* Mutant: no response at all is retried like a gap.
GiveUpNot == Retry

\* sendOne throws.
GiveUp == Finish("failed") /\ UNCHANGED got

\* invoke: the next call, when the one before is over.
Invoke ==
  /\ cpc = "idle" /\ asked < Calls /\ asked' = asked + 1
  /\ Attempt
  /\ UNCHANGED <<outcome, wire, up, session, runs, countVars>>

\* io.write of the next chunk. The last one is waited for.
Write ==
  /\ cpc = "write" /\ up
  /\ wire' = Append(wire, Chunk(pos))
  /\ pos' = pos + 1
  /\ cpc' = IF Chunk(pos).final THEN "ack" ELSE "write"
  /\ UNCHANGED <<asked, id, got, outcome, up, session, runs, countVars>>

\* The device has taken the last chunk.
Acknowledged ==
  /\ cpc = "ack" /\ up /\ wire = <<>>
  /\ cpc' = "read"
  /\ UNCHANGED <<asked, id, pos, got, outcome, wire, up, session, runs, countVars>>

\* io.read of the first chunk, twice if there is nothing yet.
ReadFirst ==
  /\ cpc \in {"read", "reread"} /\ up
  /\ session' = AfterRead(session)
  /\ LET chunk == ResponseChunk(session) IN
       \/ /\ chunk.kind = "nodata" /\ cpc = "read" /\ cpc' = "reread"
          /\ UNCHANGED <<asked, id, pos, got, outcome>>
       \/ /\ chunk.kind = "overflow" \/ (chunk.kind = "nodata" /\ cpc = "reread")
          /\ GiveUp
       \/ chunk.kind = "missed" /\ Retry
       \/ /\ chunk.kind = "data" /\ got' = <<chunk.payload>>
          /\ IF chunk.final THEN Finish("ok")
             ELSE cpc' = "more" /\ UNCHANGED <<asked, id, pos, outcome>>
  /\ UNCHANGED <<wire, up, runs, countVars>>

\* io.read of the chunks after the first.
ReadMore ==
  /\ cpc = "more" /\ up
  /\ session' = AfterRead(session)
  /\ LET chunk == ResponseChunk(session) IN
       \/ chunk.kind = "nodata" /\ GiveUp
       \/ /\ chunk.kind = "data" /\ got' = Append(got, chunk.payload)
          /\ IF chunk.final THEN Finish("ok")
             ELSE UNCHANGED <<cpc, asked, id, pos, outcome>>
  /\ UNCHANGED <<wire, up, runs, countVars>>

\* A GATT operation is rejected: there is no connection, or the operation
\* failed on a live one, before or after it had its effect on the device. A
\* write may still arrive later.
Reject ==
  /\ cpc # "idle"
  /\ \/ ~up /\ UNCHANGED <<faults, wire, session>>
     \/ /\ up /\ faults < MaxFaults /\ faults' = faults + 1
        /\ \/ UNCHANGED <<wire, session>>
           \/ cpc = "write" /\ wire' = Append(wire, Chunk(pos)) /\ UNCHANGED session
           \/ cpc = "ack" /\ wire # <<>> /\ wire' = SubSeq(wire, 1, Len(wire) - 1)
              /\ UNCHANGED session
           \/ cpc \in {"read", "reread", "more"} /\ session' = AfterRead(session)
              /\ UNCHANGED wire
  /\ GiveUp
  /\ UNCHANGED <<up, runs, losses, drops>>

Client == Invoke \/ Write \/ Acknowledged \/ ReadFirst \/ ReadMore

Next == Client \/ Reject \/ Deliver \/ Lose \/ Drop \/ Reconnect

Spec == Init /\ [][Next]_vars

\* The client's loop and the BLE stacks keep working, the client keeps trying
\* to connect, and an operation without a connection is rejected.
Fairness ==
  /\ WF_vars(Client) /\ WF_vars(Deliver) /\ WF_vars(Reconnect)

FairSpec == Spec /\ Fairness

-----------------------------------------------------------------------------
(***************************************************************************)
(* Properties.                                                             *)
(***************************************************************************)
Request(c)  == [i \in 1..RequestLen[c] |-> <<c, i - 1>>]
Response(c) == [i \in 1..(IF ResponseLen[c] = 0 THEN 1 ELSE ResponseLen[c]) |-> <<c, i - 1>>]

\* What the device runs is always one request, whole and in order, whichever
\* chunks were lost and whatever was assembled before (ble_chunker.hpp:93).
WholeRequests ==
  \A i \in DOMAIN runs : \E c \in CallIds : runs[i] = Request(c)

\* A call that succeeds returns the whole response to its own request, never
\* that of an earlier call whose reading was broken off.
OwnAnswer ==
  cpc = "idle" /\ asked > 0 /\ outcome[asked] = "ok" => got = Response(asked)

RpcLink == INSTANCE RpcCalls WITH ran <- [i \in DOMAIN runs |-> runs[i][1][1]]

\* The link implements RpcCalls: retries, late chunks and new sessions never
\* run a call twice or after a later one, nor answer a call that has not run.
RunsAtMostOnce == RpcLink!CallsSpec

\* Every call ends, and it succeeds unless an operation was rejected or the
\* connection dropped: lost chunks alone are made good by the retry.
EachCallEnds ==
  \A c \in CallIds :
    asked = c ~> (outcome[c] = "ok" \/ (outcome[c] = "failed" /\ faults + drops > 0))
=============================================================================
