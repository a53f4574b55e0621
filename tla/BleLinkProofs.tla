---------------------------- MODULE BleLinkProofs ---------------------------
(***************************************************************************)
(* Proofs about BleLink, for any number and length of calls, size of the   *)
(* id space, losses, faults and drops within its assumptions: the device   *)
(* runs whole requests only, a call returns its own answer, and the link   *)
(* implements RpcCalls, so that a call runs at most once and in order.     *)
(***************************************************************************)
EXTENDS BleLink, Integers, SequenceTheorems, TLAPS

(***************************************************************************)
(* Message ids.  What is left of old messages, on the wire or in the       *)
(* session, is at most one fault each behind the client's id, so that the  *)
(* next id is never one of theirs.                                         *)
(***************************************************************************)
Ids == 0..(IdModulus - 1)
NextOf(i)  == (i + 1) % IdModulus
Dist(i, x) == IF x <= i THEN i - x ELSE i - x + IdModulus

LEMMA NextId ==
  ASSUME NEW i \in Ids
  PROVE  NextOf(i) = IF i + 1 = IdModulus THEN 0 ELSE i + 1
BY IdAssumption, FaultsAssumption DEF Ids, NextOf

\* The next id is none of those that are near, and they are one further away.
LEMMA NextIsFresh ==
  ASSUME NEW i \in Ids
  PROVE  /\ NextOf(i) \in Ids
         /\ \A x \in Ids : Dist(i, x) <= MaxFaults =>
              x # NextOf(i) /\ Dist(NextOf(i), x) = Dist(i, x) + 1
BY NextId, IdAssumption, FaultsAssumption DEF Ids, Dist

LEMMA OwnIdIsNear == \A i \in Ids : Dist(i, i) = 0
BY IdAssumption, FaultsAssumption DEF Ids, Dist

(***************************************************************************)
(* The session.                                                            *)
(***************************************************************************)
ChunkType == [id : Ids, seq : 0..(MaxLen - 1), call : CallIds, final : BOOLEAN]
Errors    == {"none", "missed", "overflow"}
SessionType ==
  [first : BOOLEAN, cur : Ids, expect : 0..MaxLen, skip : BOOLEAN, buf : Seq(CallIds \X Nat),
   ready : BOOLEAN, error : Errors, resp : 0..Calls, off : Nat]

\* What a session is between two calls of it: the response that is ready is that
\* to a message that has ended.
SessionOK(s) ==
  /\ s \in SessionType
  /\ Len(s.buf) = s.expect
  /\ s.ready => s.skip /\ s.resp \in CallIds
  /\ s.first => ~s.skip
  /\ ~s.skip => s.off = 0

\* A chunk knows whether it is the last of its request.
ChunkOK(c) == c \in ChunkType /\ (c.final <=> c.seq + 1 = RequestLen[c.call])

\* If the session is in the middle of message i, it has its chunks of call a only.
Belongs(s, i, a) ==
  ~s.first /\ ~s.skip /\ s.cur = i => \A k \in 1..Len(s.buf) : s.buf[k] = <<a, k - 1>>

LEMMA ResetOK ==
  ASSUME NEW i \in Ids
  PROVE  /\ SessionOK(Reset(i)) /\ ~Reset(i).first /\ ~Reset(i).skip /\ Reset(i).cur = i
         /\ Reset(i).buf = <<>> /\ ~Reset(i).ready
<1>1. <<>> \in Seq(CallIds \X Nat)
  OBVIOUS
<1>2. 0 \in 0..MaxLen /\ 0 \in 0..Calls
  BY CallsAssumption
<1> QED  BY <1>1, <1>2 DEF Reset, SessionOK, SessionType, Errors

LEMMA NewSessionOK ==
  SessionOK(NewSession) /\ NewSession.first /\ ~NewSession.skip /\ ~NewSession.ready
<1>1. 0 \in Ids
  BY IdAssumption, FaultsAssumption DEF Ids
<1>2. <<>> \in Seq(CallIds \X Nat)
  OBVIOUS
<1>3. 0 \in 0..MaxLen /\ 0 \in 0..Calls
  BY CallsAssumption
<1> QED  BY <1>1, <1>2, <1>3 DEF NewSession, Reset, SessionOK, SessionType, Errors

\* What Assemble does to a session in the middle of a message.
LEMMA AssembleOK ==
  ASSUME NEW s, SessionOK(s), ~s.first, ~s.skip, NEW c, ChunkOK(c), s.cur = c.id
  PROVE  LET t == Assemble(s, c) IN
         /\ SessionOK(t) /\ ~t.first /\ t.cur = c.id
         /\ t.ready => t.resp = c.call /\ t.off = 0 /\ c.final /\ c.seq = Len(s.buf)
                       /\ t.buf = Append(s.buf, <<c.call, c.seq>>)
         /\ ~t.skip => c.seq = Len(s.buf) /\ t.buf = Append(s.buf, <<c.call, c.seq>>)
         /\ c.final => t.skip
         /\ t.error = "missed" \/ t.error = s.error \/ t.error = "overflow"
<1> DEFINE p == <<c.call, c.seq>>
<1>1. s \in SessionType /\ c \in ChunkType
  BY DEF SessionOK, ChunkOK
<1>2. CASE Len(s.buf) = MaxLen
  BY <1>1, <1>2 DEF Assemble, Refuse, SessionOK, SessionType, Errors
<1>3. CASE Len(s.buf) # MaxLen /\ c.seq # s.expect
  BY <1>1, <1>3 DEF Assemble, Refuse, SessionOK, SessionType, Errors
<1>4. CASE Len(s.buf) # MaxLen /\ c.seq = s.expect
  <2>1. p \in CallIds \X Nat
    BY <1>1, CallsAssumption DEF ChunkType
  <2>2. Append(s.buf, p) \in Seq(CallIds \X Nat) /\ Len(Append(s.buf, p)) = Len(s.buf) + 1
    BY <2>1, <1>1 DEF SessionType
  <2>3. s.expect + 1 \in 0..MaxLen /\ c.call \in 0..Calls /\ c.call \in CallIds /\ c.final \in BOOLEAN
    BY <1>1, <1>4, CallsAssumption DEF SessionType, ChunkType, CallIds, SessionOK
  <2>4. Assemble(s, c) = [s EXCEPT !.buf = Append(s.buf, p), !.expect = s.expect + 1,
                                   !.skip = c.final, !.ready = c.final,
                                   !.resp = IF c.final THEN c.call ELSE s.resp]
    BY <1>4 DEF Assemble
  <2> QED  BY <1>1, <1>4, <2>2, <2>3, <2>4 DEF SessionOK, SessionType
<1> QED  BY <1>2, <1>3, <1>4

LEMMA AppendFacts ==
  ASSUME NEW S, NEW b \in Seq(S), NEW p \in S
  PROVE  /\ Append(b, p) \in Seq(S) /\ Len(Append(b, p)) = Len(b) + 1 /\ Len(b) \in Nat
         /\ \A k \in 1..Len(b) : Append(b, p)[k] = b[k]
         /\ Append(b, p)[Len(b) + 1] = p
OBVIOUS

\* What Consume does to any session that has, of the chunk's message, only chunks
\* of the same call.
LEMMA ConsumeOK ==
  ASSUME NEW s, SessionOK(s), NEW c, ChunkOK(c), Belongs(s, c.id, c.call)
  PROVE  LET t == Consume(s, c) IN
         /\ SessionOK(t) /\ ~t.first /\ t.cur = c.id
         /\ c.final => t.skip
         /\ Belongs(t, c.id, c.call)
         /\ s.skip /\ s.cur = c.id => t = s
         /\ ~(s.skip /\ s.cur = c.id) /\ t.ready => t.resp = c.call /\ t.off = 0
         /\ ~(s.skip /\ s.cur = c.id) /\ t.ready => t.buf = Request(c.call)
<1> DEFINE skipped == s.skip /\ c.id = s.cur
           r == IF s.first \/ c.id # s.cur THEN Reset(c.id) ELSE s
           t == Assemble(r, c)
<1>1. CASE skipped
  <2>1. Consume(s, c) = s
    BY <1>1 DEF Consume
  <2>2. ~s.first
    BY <1>1 DEF SessionOK
  <2> QED  BY <1>1, <2>1, <2>2 DEF Belongs
<1>2. CASE ~skipped
  <2>1. Consume(s, c) = t
    BY <1>2 DEF Consume
  <2>2. c.id \in Ids /\ c.call \in CallIds
    BY DEF ChunkOK, ChunkType
  <2>3. SessionOK(r) /\ ~r.first /\ ~r.skip /\ r.cur = c.id
    BY <1>2, <2>2, ResetOK
  <2>4. \A k \in 1..Len(r.buf) : r.buf[k] = <<c.call, k - 1>>
    BY <1>2, <2>2, ResetOK DEF Belongs
  <2> HIDE DEF r
  <2>5. /\ SessionOK(t) /\ ~t.first /\ t.cur = c.id
        /\ t.ready => t.resp = c.call /\ t.off = 0 /\ c.final /\ c.seq = Len(r.buf)
                      /\ t.buf = Append(r.buf, <<c.call, c.seq>>)
        /\ ~t.skip => c.seq = Len(r.buf) /\ t.buf = Append(r.buf, <<c.call, c.seq>>)
        /\ c.final => t.skip
    BY <2>3, AssembleOK
  <2> HIDE DEF t
  <2>6. r.buf \in Seq(CallIds \X Nat) /\ <<c.call, c.seq>> \in CallIds \X Nat
    BY <2>3, CallsAssumption DEF SessionOK, SessionType, ChunkOK, ChunkType
  <2> DEFINE longer == Append(r.buf, <<c.call, c.seq>>)
  <2>7. c.seq = Len(r.buf) =>
          /\ longer \in Seq(CallIds \X Nat) /\ Len(longer) = c.seq + 1
          /\ \A k \in 1..(c.seq + 1) : longer[k] = <<c.call, k - 1>>
    BY <2>4, <2>6, AppendFacts
  <2> HIDE DEF longer
  <2>8. Belongs(t, c.id, c.call)
    <3>1. ~t.skip => \A k \in 1..Len(t.buf) : t.buf[k] = <<c.call, k - 1>>
      BY <2>5, <2>7 DEF longer
    <3> QED  BY <3>1 DEF Belongs
  <2>9. t.ready => t.buf = Request(c.call)
    <3>1. c.final => c.seq + 1 = RequestLen[c.call]
      BY DEF ChunkOK
    <3>2. t.ready => t.buf = longer /\ c.seq = Len(r.buf) /\ c.seq + 1 = RequestLen[c.call]
      BY <2>5, <3>1 DEF longer
    <3>3. c.seq = Len(r.buf) /\ c.seq + 1 = RequestLen[c.call] => longer = Request(c.call)
      BY <2>7 DEF Request
    <3> QED  BY <3>2, <3>3
  <2> QED  BY <1>2, <2>1, <2>5, <2>8, <2>9 DEF t
<1> QED  BY <1>1, <1>2

\* What a read leaves of a session.
LEMMA AfterReadOK ==
  ASSUME NEW s, SessionOK(s)
  PROVE  LET t == AfterRead(s) IN
         /\ SessionOK(t) /\ t.first = s.first /\ t.cur = s.cur /\ t.skip = s.skip /\ t.buf = s.buf
         /\ t.resp = s.resp
         /\ t.ready => s.ready
         /\ ResponseChunk(s).kind = "data" =>
              /\ s.ready /\ t.off = s.off + 1
              /\ ResponseChunk(s).payload = <<s.resp, s.off>>
              /\ ResponseChunk(s).final <=> s.off + 1 >= ResponseLen[s.resp]
         /\ ResponseChunk(s).kind = "nodata" => t = s
         /\ ResponseChunk(s).kind = "missed" => s.error = "missed"
<1>1. s \in SessionType
  BY DEF SessionOK
<1>2. CASE s.error # "none"
  BY <1>1, <1>2 DEF AfterRead, ResponseChunk, SessionOK, SessionType, Errors
<1>3. CASE s.error = "none" /\ ~s.ready
  BY <1>1, <1>3 DEF AfterRead, ResponseChunk, SessionOK, SessionType, Errors
<1>4. CASE s.error = "none" /\ s.ready
  <2>1. s.resp \in CallIds /\ s.skip /\ ResponseLen[s.resp] \in Nat
    BY <1>4, CallsAssumption DEF SessionOK
  <2>2. /\ ResponseChunk(s).kind = "data" /\ ResponseChunk(s).payload = <<s.resp, s.off>>
        /\ ResponseChunk(s).final <=> s.off + 1 >= ResponseLen[s.resp]
    BY <1>4 DEF ResponseChunk
  <2>3. AfterRead(s) = [s EXCEPT !.off = s.off + 1, !.ready = ~(s.off + 1 >= ResponseLen[s.resp])]
    BY <1>4 DEF AfterRead, ResponseChunk
  <2>4. AfterRead(s) \in SessionType
    <3>1. (~(s.off + 1 >= ResponseLen[s.resp])) \in BOOLEAN /\ s.off + 1 \in Nat
      BY <1>1 DEF SessionType
    <3> QED  BY <1>1, <2>3, <3>1 DEF SessionType
  <2>5. LET t == AfterRead(s) IN
        /\ t.first = s.first /\ t.cur = s.cur /\ t.skip = s.skip /\ t.buf = s.buf
        /\ t.resp = s.resp /\ t.off = s.off + 1 /\ t.expect = s.expect
    BY <1>1, <2>3 DEF SessionType
  <2>6. SessionOK(AfterRead(s))
    BY <1>4, <2>1, <2>4, <2>5 DEF SessionOK
  <2> QED  BY <1>4, <2>2, <2>5, <2>6
<1> QED  BY <1>2, <1>3, <1>4

(***************************************************************************)
(* The invariant of the link.                                              *)
(***************************************************************************)
ClientTypes ==
  /\ cpc \in {"idle", "write", "ack", "read", "reread", "more"}
  /\ asked \in 0..Calls /\ id \in Ids /\ pos \in 0..MaxLen
  /\ got \in Seq(CallIds \X Nat)
  /\ outcome \in [CallIds -> {"none", "ok", "failed"}]
CountTypes == losses \in 0..MaxLosses /\ faults \in 0..MaxFaults /\ drops \in 0..MaxDrops
WireOK == wire \in Seq(ChunkType) /\ \A k \in 1..Len(wire) : ChunkOK(wire[k])
Asking == cpc # "idle" => asked \in CallIds
Writes == cpc = "write" => pos < RequestLen[asked]

\* Ids of the past, at most one for each fault and one for the message on its way.
Slack == faults + (IF cpc \in {"write", "ack"} THEN 1 ELSE 0)
Near == /\ \A k \in 1..Len(wire) : Dist(id, wire[k].id) <= Slack
        /\ ~session.first => Dist(id, session.cur) <= Slack

\* An id stands for one call.
Same == /\ \A k, l \in 1..Len(wire) : wire[k].id = wire[l].id => wire[k].call = wire[l].call
        /\ \A k \in 1..Len(wire) : Belongs(session, wire[k].id, wire[k].call)
Mine == /\ \A k \in 1..Len(wire) : wire[k].id = id => wire[k].call = asked
        /\ Belongs(session, id, asked)

\* Without a connection nothing is left of any message.
Away == ~up => wire = <<>> /\ session = NewSession

\* A request whose last chunk is waited for is on the wire as a whole, or has
\* reached the session.
Acking == cpc = "ack" =>
            /\ up
            /\ IF wire = <<>> THEN ~session.first /\ session.cur = id
               ELSE wire[Len(wire)].id = id /\ wire[Len(wire)].final
Reading == cpc \in {"read", "reread", "more"} =>
             wire = <<>> /\ (session.first \/ session.cur = id)

\* A response that is ready under the client's id is the one it waits for, and
\* what was read of it is its beginning.
Awaited == cpc \in {"write", "ack", "read", "reread"} /\ ~session.first /\ session.cur = id
           /\ session.ready => session.resp = asked /\ session.off = 0
Begun == cpc = "more" /\ session.ready =>
           /\ session.resp = asked /\ session.off < ResponseLen[asked]
           /\ Len(got) = session.off
           /\ \A k \in 1..Len(got) : got[k] = <<asked, k - 1>>

LinkInv == /\ ClientTypes /\ CountTypes /\ up \in BOOLEAN
           /\ WireOK /\ SessionOK(session) /\ Asking /\ Writes
           /\ Near /\ Same /\ Mine /\ Away /\ Acking /\ Reading /\ Awaited /\ Begun
           /\ runs \in Seq(Seq(CallIds \X Nat)) /\ WholeRequests /\ OwnAnswer

LEMMA TypeFollows == LinkInv => TypeOK
<1> SUFFICES ASSUME LinkInv PROVE TypeOK
  OBVIOUS
<1>1. \A i \in DOMAIN wire : wire[i].call \in CallIds /\ wire[i].seq \in 0..(MaxLen - 1)
  <2>1. DOMAIN wire = 1..Len(wire) /\ \A k \in 1..Len(wire) : wire[k] \in ChunkType
    BY DEF LinkInv, WireOK, ChunkOK
  <2> QED  BY <2>1 DEF ChunkType
<1>2. /\ session.cur \in 0..(IdModulus - 1)
      /\ session.expect \in 0..MaxLen /\ Len(session.buf) = session.expect
      /\ session.error \in {"none", "missed", "overflow"}
      /\ session.resp \in 0..Calls
  BY DEF LinkInv, SessionOK, SessionType, Errors, Ids
<1> QED  BY <1>1, <1>2 DEF LinkInv, ClientTypes, CountTypes, Ids, TypeOK

LEMMA InitLinkInv == Init => LinkInv
<1> SUFFICES ASSUME Init PROVE LinkInv
  OBVIOUS
<1>1. ClientTypes /\ CountTypes /\ up \in BOOLEAN
  BY CallsAssumption, FaultsAssumption, IdAssumption DEF Init, ClientTypes, CountTypes, Ids, CallIds
<1>2. WireOK /\ SessionOK(session)
  BY NewSessionOK DEF Init, WireOK
<1> QED
  BY <1>1, <1>2, NewSessionOK
     DEF Init, LinkInv, Asking, Writes, Near, Same, Mine, Belongs, Away, Acking, Reading, Awaited,
         Begun, WholeRequests, OwnAnswer

(***************************************************************************)
(* Steps.                                                                  *)
(***************************************************************************)
LinkParts == WireOK /\ Near /\ Same /\ Mine

\* Chunks that go away and reads of the session leave no more than was there.
FewerChunks == /\ wire' \in Seq(ChunkType)
               /\ \A k \in 1..Len(wire') : \E l \in 1..Len(wire) : wire'[k] = wire[l]
SessionRead == /\ SessionOK(session') /\ session'.first = session.first
               /\ session'.cur = session.cur /\ session'.skip = session.skip
               /\ session'.buf = session.buf

LEMMA SameChunks == ASSUME LinkInv, UNCHANGED wire PROVE FewerChunks
BY DEF LinkInv, WireOK, FewerChunks

LEMMA TailFacts ==
  ASSUME NEW S, NEW w \in Seq(S), w # <<>>
  PROVE  /\ Tail(w) \in Seq(S) /\ Len(Tail(w)) = Len(w) - 1 /\ Len(w) \in Nat \ {0}
         /\ Head(w) = w[1]
         /\ \A k \in 1..Len(Tail(w)) : Tail(w)[k] = w[k + 1]
OBVIOUS

LEMMA FrontFacts ==
  ASSUME NEW S, NEW w \in Seq(S), w # <<>>
  PROVE  LET f == SubSeq(w, 1, Len(w) - 1) IN
         f \in Seq(S) /\ Len(f) = Len(w) - 1 /\ \A k \in 1..Len(f) : f[k] = w[k]
<1> DEFINE n == Len(w) - 1
           f == SubSeq(w, 1, n)
<1>1. n \in Nat /\ \A k \in 1..n : w[k] \in S
  OBVIOUS
<1>2. /\ f \in Seq(S) /\ Len(f) = IF 1 <= n THEN n - 1 + 1 ELSE 0
      /\ \A k \in 1..(n - 1 + 1) : f[k] = w[1 + k - 1]
  <2> HIDE DEF n
  <2> QED  BY <1>1, SubSeqProperties
<1> HIDE DEF n, f
<1>3. Len(f) = n
  BY <1>1, <1>2
<1>4. \A k \in 1..n : 1 + k - 1 = k /\ k \in 1..(n - 1 + 1)
  BY <1>1
<1>5. \A k \in 1..n : f[k] = w[k]
  BY <1>2, <1>4
<1> QED  BY <1>2, <1>3, <1>5 DEF n, f

LEMMA PartsKept ==
  ASSUME LinkInv, FewerChunks, SessionRead, UNCHANGED <<id, asked>>,
         Slack \in Nat, Slack' \in Nat, Slack' >= Slack
  PROVE  LinkParts'
<1>1. WireOK'
  BY DEF LinkInv, WireOK, FewerChunks
<1>2. Near'
  <2>1. \A x \in Ids : Dist(id, x) \in Int
    BY IdAssumption DEF LinkInv, ClientTypes, Dist, Ids
  <2>2. \A k \in 1..Len(wire) : wire[k].id \in Ids
    BY DEF LinkInv, WireOK, ChunkOK, ChunkType
  <2>3. session.cur \in Ids
    BY DEF LinkInv, SessionOK, SessionType
  <2>4. \A k \in 1..Len(wire) : Dist(id, wire[k].id) <= Slack'
    BY <2>1, <2>2 DEF LinkInv, Near, ClientTypes
  <2>5. \A k \in 1..Len(wire') : Dist(id, wire'[k].id) <= Slack'
    BY <2>4 DEF FewerChunks
  <2>6. ~session'.first => Dist(id, session'.cur) <= Slack'
    BY <2>1, <2>3 DEF LinkInv, Near, ClientTypes, SessionRead
  <2> QED  BY <2>5, <2>6 DEF Near
<1>3. Same'
  <2>1. Same
    BY DEF LinkInv
  <2>2. \A i, a : Belongs(session, i, a) => Belongs(session', i, a)
    BY DEF SessionRead, Belongs
  <2>3. \A k, l \in 1..Len(wire') : wire'[k].id = wire'[l].id => wire'[k].call = wire'[l].call
    BY <2>1 DEF Same, FewerChunks
  <2>4. \A k \in 1..Len(wire') : Belongs(session', wire'[k].id, wire'[k].call)
    BY <2>1, <2>2 DEF Same, FewerChunks
  <2> QED  BY <2>3, <2>4 DEF Same
<1>4. Mine'
  BY DEF LinkInv, Mine, FewerChunks, SessionRead, Belongs
<1> QED  BY <1>1, <1>2, <1>3, <1>4 DEF LinkParts

\* The next attempt has an id that nothing left over has.
LEMMA AttemptKeeps ==
  ASSUME LinkInv, Attempt, cpc \notin {"write", "ack"}, SessionRead, UNCHANGED <<wire, faults>>
  PROVE  /\ LinkParts' /\ id' \in Ids
         /\ ~session'.first => session'.cur # id'
<1>1. id \in Ids /\ faults \in 0..MaxFaults
  BY DEF LinkInv, ClientTypes, CountTypes
<1>2. id' = NextOf(id) /\ cpc' = "write"
  BY DEF Attempt, NextOf
<1>3. Slack = faults /\ Slack' = faults + 1
  BY <1>2, <1>1 DEF Slack
<1>4. \A x \in Ids : Dist(id, x) \in Int
  BY <1>1, IdAssumption DEF Dist, Ids
<1>5. \A k \in 1..Len(wire) :
        wire[k].id \in Ids /\ wire[k].id # id' /\ Dist(id', wire[k].id) <= Slack'
  <2> SUFFICES ASSUME NEW k \in 1..Len(wire)
               PROVE  wire[k].id \in Ids /\ wire[k].id # id' /\ Dist(id', wire[k].id) <= Slack'
    OBVIOUS
  <2>1. wire[k].id \in Ids /\ Dist(id, wire[k].id) <= faults
    BY <1>3 DEF LinkInv, WireOK, ChunkOK, ChunkType, Near
  <2>2. Dist(id, wire[k].id) <= MaxFaults
    BY <2>1, <1>1, <1>4, FaultsAssumption
  <2> QED  BY <2>1, <2>2, <1>1, <1>2, <1>3, <1>4, NextIsFresh
<1>6. ~session'.first => session'.cur # id' /\ Dist(id', session'.cur) <= Slack'
  <2> SUFFICES ASSUME ~session.first
               PROVE  session.cur # id' /\ Dist(id', session.cur) <= Slack'
    BY DEF SessionRead
  <2>1. session.cur \in Ids /\ Dist(id, session.cur) <= faults
    BY <1>3 DEF LinkInv, SessionOK, SessionType, Near
  <2>2. Dist(id, session.cur) <= MaxFaults
    BY <2>1, <1>1, <1>4, FaultsAssumption
  <2> QED  BY <2>1, <2>2, <1>1, <1>2, <1>3, <1>4, NextIsFresh
<1>7. WireOK' /\ Near'
  BY <1>5, <1>6 DEF LinkInv, WireOK, Near
<1>8. Same'
  BY DEF LinkInv, Same, SessionRead, Belongs
<1>9. Mine'
  BY <1>5, <1>6 DEF Mine, Belongs
<1> QED  BY <1>1, <1>2, <1>6, <1>7, <1>8, <1>9, NextIsFresh DEF LinkParts

\* The counts of faults.
LEMMA SlackTyped == LinkInv => Slack \in Nat
BY FaultsAssumption DEF LinkInv, CountTypes, Slack

\* A call that ends as failed.
LEMMA FailedCall ==
  ASSUME LinkInv, GiveUp, cpc # "idle"
  PROVE  /\ ClientTypes' /\ Asking' /\ Writes' /\ OwnAnswer'
         /\ Acking' /\ Reading' /\ Awaited' /\ Begun'
<1>1. asked \in CallIds /\ cpc' = "idle" /\ outcome' = [outcome EXCEPT ![asked] = "failed"]
      /\ UNCHANGED <<asked, id, pos, got>>
  BY DEF LinkInv, Asking, GiveUp, Finish
<1>2. outcome' \in [CallIds -> {"none", "ok", "failed"}] /\ outcome'[asked] # "ok"
  BY <1>1 DEF LinkInv, ClientTypes
<1> QED
  BY <1>1, <1>2 DEF LinkInv, ClientTypes, Asking, Writes, OwnAnswer, Acking, Reading, Awaited, Begun

LEMMA InvokeStep == ASSUME LinkInv, Invoke PROVE LinkInv'
<1>1. SessionRead
  BY DEF Invoke, SessionRead, LinkInv
<1>2. LinkParts' /\ id' \in Ids /\ (~session'.first => session'.cur # id')
  BY <1>1, AttemptKeeps DEF Invoke, countVars
<1>3. asked' \in CallIds /\ cpc' = "write" /\ pos' = 0 /\ got' = <<>>
  BY CallsAssumption DEF Invoke, Attempt, LinkInv, ClientTypes, CallIds
<1>4. RequestLen[asked'] \in 1..MaxLen
  BY <1>3, CallsAssumption
<1>5. ClientTypes'
  BY <1>2, <1>3, CallsAssumption DEF LinkInv, ClientTypes, CallIds, Invoke
<1> QED
  BY <1>1, <1>2, <1>3, <1>4, <1>5
     DEF LinkInv, Invoke, LinkParts, CountTypes, countVars, Asking, Writes, Away, Acking, Reading,
         Awaited, Begun, WholeRequests, OwnAnswer, SessionRead

\* A chunk that is written is one of the client's call.
LEMMA ChunkWritten ==
  ASSUME LinkInv, cpc = "write", wire' = Append(wire, Chunk(pos)),
         UNCHANGED <<session, id, asked>>, Slack' \in Nat, Slack' >= Slack
  PROVE  LinkParts' /\ wire'[Len(wire')] = Chunk(pos) /\ wire' # <<>>
<1>1. asked \in CallIds /\ pos \in Nat /\ pos < RequestLen[asked] /\ RequestLen[asked] \in 1..MaxLen
  BY CallsAssumption DEF LinkInv, Asking, Writes, ClientTypes
<1>2. ChunkOK(Chunk(pos)) /\ Chunk(pos) \in ChunkType /\ Chunk(pos).id = id /\ Chunk(pos).call = asked
  <2>1. (pos + 1 = RequestLen[asked]) \in BOOLEAN /\ pos \in 0..(MaxLen - 1) /\ id \in Ids
    BY <1>1, CallsAssumption DEF LinkInv, ClientTypes
  <2>2. Chunk(pos) \in ChunkType
    BY <1>1, <2>1 DEF Chunk, ChunkType
  <2>3. Chunk(pos).final <=> Chunk(pos).seq + 1 = RequestLen[Chunk(pos).call]
    BY DEF Chunk
  <2> QED  BY <2>2, <2>3 DEF ChunkOK, Chunk
<1>3. wire \in Seq(ChunkType)
  BY DEF LinkInv, WireOK
<1>4. /\ wire' \in Seq(ChunkType) /\ Len(wire') = Len(wire) + 1 /\ Len(wire) \in Nat
      /\ \A k \in 1..Len(wire) : wire'[k] = wire[k]
      /\ wire'[Len(wire')] = Chunk(pos)
  BY <1>2, <1>3, AppendFacts
<1>5. \A k \in 1..Len(wire') : (k \in 1..Len(wire) /\ wire'[k] = wire[k]) \/ wire'[k] = Chunk(pos)
  BY <1>4
<1>6. WireOK'
  BY <1>2, <1>4, <1>5 DEF LinkInv, WireOK
<1>7. Near'
  <2>1. Slack \in Nat /\ Dist(id, id) = 0 /\ \A x \in Ids : Dist(id, x) \in Int
    BY SlackTyped, OwnIdIsNear, IdAssumption DEF LinkInv, ClientTypes, Dist, Ids
  <2>2. \A k \in 1..Len(wire) : wire[k].id \in Ids
    BY DEF LinkInv, WireOK, ChunkOK, ChunkType
  <2>3. session.cur \in Ids
    BY DEF LinkInv, SessionOK, SessionType
  <2>4. \A k \in 1..Len(wire) : Dist(id, wire[k].id) <= Slack'
    BY <2>1, <2>2 DEF LinkInv, Near
  <2>5. \A k \in 1..Len(wire') : Dist(id, wire'[k].id) <= Slack'
    BY <2>1, <2>4, <1>2, <1>5
  <2>6. ~session.first => Dist(id, session.cur) <= Slack'
    BY <2>1, <2>3 DEF LinkInv, Near
  <2> QED  BY <2>5, <2>6 DEF Near
<1>8. /\ \A k \in 1..Len(wire) : wire[k].id = id => wire[k].call = asked
      /\ \A k, l \in 1..Len(wire) : wire[k].id = wire[l].id => wire[k].call = wire[l].call
      /\ \A k \in 1..Len(wire) : Belongs(session, wire[k].id, wire[k].call)
      /\ Belongs(session, id, asked)
  BY DEF LinkInv, Same, Mine
<1>9. \A k, l \in 1..Len(wire') : wire'[k].id = wire'[l].id => wire'[k].call = wire'[l].call
  <2> TAKE k, l \in 1..Len(wire')
  <2> HAVE wire'[k].id = wire'[l].id
  <2>1. CASE wire'[k] = Chunk(pos)
    BY <2>1, <1>2, <1>5, <1>8
  <2>2. CASE wire'[l] = Chunk(pos)
    BY <2>2, <1>2, <1>5, <1>8
  <2>3. CASE /\ k \in 1..Len(wire) /\ wire'[k] = wire[k]
             /\ l \in 1..Len(wire) /\ wire'[l] = wire[l]
    BY <2>3, <1>8
  <2> QED  BY <2>1, <2>2, <2>3, <1>5
<1>10. \A k \in 1..Len(wire') :
         /\ wire'[k].id = id => wire'[k].call = asked
         /\ Belongs(session, wire'[k].id, wire'[k].call)
  <2> TAKE k \in 1..Len(wire')
  <2>1. CASE wire'[k] = Chunk(pos)
    BY <2>1, <1>2, <1>8
  <2>2. CASE k \in 1..Len(wire) /\ wire'[k] = wire[k]
    BY <2>2, <1>8
  <2> QED  BY <2>1, <2>2, <1>5
<1>11. Same' /\ Mine'
  BY <1>8, <1>9, <1>10 DEF Same, Mine
<1> QED  BY <1>4, <1>6, <1>7, <1>11 DEF LinkParts

LEMMA WriteStep == ASSUME LinkInv, Write PROVE LinkInv'
<1>1. Slack \in Nat /\ Slack' = Slack
  BY SlackTyped DEF Write, Slack, countVars
<1>2. LinkParts' /\ wire'[Len(wire')] = Chunk(pos) /\ wire' # <<>>
  BY <1>1, ChunkWritten DEF Write
<1>3. asked \in CallIds /\ RequestLen[asked] \in 1..MaxLen /\ pos \in Nat /\ pos < RequestLen[asked]
  BY CallsAssumption DEF LinkInv, Asking, Writes, ClientTypes, Write
<1>4. \/ cpc' = "ack" /\ Chunk(pos).final
      \/ cpc' = "write" /\ ~Chunk(pos).final
  BY DEF Write
<1>5. Writes' /\ pos' \in 0..MaxLen
  <2>1. Chunk(pos).final <=> pos + 1 = RequestLen[asked]
    BY DEF Chunk
  <2>2. UNCHANGED asked /\ pos' = pos + 1
    BY DEF Write
  <2> QED  BY <1>3, <1>4, <2>1, <2>2, CallsAssumption DEF Writes
<1>6. ClientTypes'
  BY <1>4, <1>5 DEF Write, LinkInv, ClientTypes
<1>7. Chunk(pos).id = id
  BY DEF Chunk
<1> QED
  BY <1>2, <1>3, <1>4, <1>5, <1>6, <1>7
     DEF LinkInv, Write, LinkParts, CountTypes, countVars, Asking, Away, Acking, Reading,
         Awaited, Begun, WholeRequests, OwnAnswer

LEMMA AcknowledgedStep == ASSUME LinkInv, Acknowledged PROVE LinkInv'
<1>1. Near'
  <2>1. wire' = <<>> /\ session' = session /\ session.cur = id /\ id' = id /\ id \in Ids
    BY DEF LinkInv, ClientTypes, Acknowledged, Acking
  <2>2. Slack' \in Nat
    BY FaultsAssumption DEF LinkInv, CountTypes, Acknowledged, Slack, countVars
  <2> QED  BY <2>1, <2>2, OwnIdIsNear DEF Near
<1> QED
  BY <1>1
     DEF LinkInv, Acknowledged, ClientTypes, CountTypes, countVars, WireOK, Asking, Writes, Near,
         Slack, Same, Mine, Away, Acking, Reading, Awaited, Begun, WholeRequests, OwnAnswer

\* A read leaves the link as it is.
LEMMA ReadKeeps ==
  ASSUME LinkInv, session' = AfterRead(session), UNCHANGED <<wire, id, asked>>,
         Slack' \in Nat, Slack' >= Slack
  PROVE  SessionRead /\ LinkParts'
<1>1. SessionRead
  BY AfterReadOK DEF LinkInv, SessionRead
<1> QED  BY <1>1, SlackTyped, SameChunks, PartsKept

\* The response that a read of the client finds ready is its own.
LEMMA FindsOwn ==
  ASSUME LinkInv, cpc \in {"read", "reread", "more"}, ResponseChunk(session).kind = "data"
  PROVE  /\ session.ready /\ session.resp = asked /\ asked \in CallIds /\ ~session.first
         /\ session.cur = id /\ session.off \in Nat
         /\ ResponseChunk(session).payload = <<asked, session.off>>
         /\ <<asked, session.off>> \in CallIds \X Nat
         /\ ResponseChunk(session).final <=> session.off + 1 >= ResponseLen[asked]
         /\ AfterRead(session).off = session.off + 1 /\ AfterRead(session).resp = asked
         /\ ResponseLen[asked] \in Nat
<1>1. SessionOK(session) /\ asked \in CallIds
  BY DEF LinkInv, Asking
<1>2. session.ready /\ ResponseChunk(session).payload = <<session.resp, session.off>>
      /\ AfterRead(session).off = session.off + 1 /\ AfterRead(session).resp = session.resp
  BY <1>1, AfterReadOK
<1>3. ResponseChunk(session).final <=> session.off + 1 >= ResponseLen[session.resp]
  BY <1>1, AfterReadOK
<1>4. ~session.first /\ session.cur = id
  BY <1>1, <1>2 DEF LinkInv, Reading, SessionOK
<1>5. session.resp = asked /\ session.off \in Nat
  BY <1>1, <1>2, <1>4 DEF LinkInv, Awaited, Begun, SessionOK, SessionType
<1> QED  BY <1>1, <1>2, <1>3, <1>4, <1>5, CallsAssumption

LEMMA ReadFirstStep == ASSUME LinkInv, ReadFirst PROVE LinkInv'
<1> DEFINE chunk == ResponseChunk(session)
<1>1. /\ cpc \in {"read", "reread"} /\ up /\ session' = AfterRead(session)
      /\ UNCHANGED <<wire, up, runs, countVars>> /\ UNCHANGED faults
  BY DEF ReadFirst, countVars
<1>2. cpc' \notin {"write", "ack"} => Slack' \in Nat /\ Slack' >= Slack
  BY <1>1, FaultsAssumption DEF LinkInv, CountTypes, Slack
<1>3. wire = <<>>
  BY <1>1 DEF LinkInv, Reading
<1>4. CountTypes' /\ up' \in BOOLEAN /\ runs' \in Seq(Seq(CallIds \X Nat)) /\ WholeRequests' /\ Away'
  BY <1>1 DEF LinkInv, CountTypes, countVars, WholeRequests, Away
<1>5. CASE chunk.kind = "nodata" /\ cpc = "read" /\ cpc' = "reread"
           /\ UNCHANGED <<asked, id, pos, got, outcome>>
  <2>1. session' = session
    BY <1>1, <1>5, AfterReadOK DEF LinkInv
  <2>2. SessionRead /\ LinkParts'
    BY <1>1, <1>2, <1>5, ReadKeeps
  <2> QED
    BY <1>1, <1>4, <1>5, <2>1, <2>2
       DEF LinkInv, LinkParts, SessionRead, ClientTypes, Asking, Writes, Acking, Reading, Awaited,
           Begun, OwnAnswer
<1>6. CASE GiveUp
  <2>1. SessionRead /\ LinkParts'
    BY <1>1, <1>2, <1>6, ReadKeeps DEF GiveUp, Finish
  <2> QED  BY <1>1, <1>4, <1>6, <2>1, FailedCall DEF LinkInv, LinkParts, SessionRead
<1>7. CASE Retry
  <2>1. SessionRead
    BY <1>1, AfterReadOK DEF LinkInv, SessionRead
  <2>2. LinkParts' /\ id' \in Ids /\ (~session'.first => session'.cur # id')
    BY <1>1, <1>7, <2>1, AttemptKeeps DEF Retry
  <2>3. asked' \in CallIds /\ cpc' = "write" /\ pos' = 0 /\ got' = <<>> /\ outcome' = outcome
    BY <1>1, <1>7 DEF Retry, Attempt, LinkInv, Asking
  <2>4. RequestLen[asked'] \in 1..MaxLen
    BY <2>3, CallsAssumption
  <2>5. ClientTypes'
    BY <2>2, <2>3, CallsAssumption DEF LinkInv, ClientTypes, CallIds
  <2> QED
    BY <1>4, <2>1, <2>2, <2>3, <2>4, <2>5
       DEF LinkInv, LinkParts, SessionRead, Asking, Writes, Acking, Reading, Awaited, Begun, OwnAnswer
<1>8. CASE /\ chunk.kind = "data" /\ got' = <<chunk.payload>>
           /\ IF chunk.final THEN Finish("ok")
              ELSE cpc' = "more" /\ UNCHANGED <<asked, id, pos, outcome>>
  <2>1. cpc' \notin {"write", "ack"} /\ UNCHANGED <<asked, id, pos>>
    BY <1>8 DEF Finish
  <2>2. SessionRead /\ LinkParts'
    BY <1>1, <1>2, <2>1, ReadKeeps
  <2>3. /\ session.ready /\ ~session.first /\ session.cur = id /\ asked \in CallIds
        /\ session.off = 0 /\ ResponseLen[asked] \in Nat
        /\ chunk.payload = <<asked, 0>> /\ <<asked, 0>> \in CallIds \X Nat
    BY <1>1, <1>8, FindsOwn DEF LinkInv, Awaited
  <2>4. chunk.final <=> 1 >= ResponseLen[asked]
    BY <1>1, <1>8, <2>3, FindsOwn
  <2>5. session'.off = 1 /\ session'.resp = asked
    BY <1>1, <1>8, <2>3, FindsOwn
  <2>6. got' = <<<<asked, 0>>>> /\ got' \in Seq(CallIds \X Nat)
    BY <1>8, <2>3
  <2>7. CASE chunk.final
    <3>1. cpc' = "idle" /\ outcome' = [outcome EXCEPT ![asked] = "ok"]
      BY <1>8, <2>7 DEF Finish
    <3>2. got' = Response(asked)
      BY <2>3, <2>4, <2>6, <2>7 DEF Response
    <3> QED
      BY <1>4, <2>1, <2>2, <2>6, <3>1, <3>2
         DEF LinkInv, LinkParts, SessionRead, ClientTypes, Asking, Writes, Acking, Reading, Awaited,
             Begun, OwnAnswer
  <2>8. CASE ~chunk.final
    <3>1. cpc' = "more" /\ outcome' = outcome
      BY <1>8, <2>8
    <3>2. Begun'
      BY <2>1, <2>3, <2>4, <2>5, <2>6, <2>8 DEF Begun
    <3> QED
      BY <1>1, <1>3, <1>4, <2>1, <2>2, <2>3, <2>6, <3>1, <3>2
         DEF LinkInv, LinkParts, SessionRead, ClientTypes, Asking, Writes, Acking, Reading, Awaited,
             OwnAnswer
  <2> QED  BY <2>7, <2>8
<1> QED  BY <1>5, <1>6, <1>7, <1>8 DEF ReadFirst

LEMMA ReadMoreStep == ASSUME LinkInv, ReadMore PROVE LinkInv'
<1> DEFINE chunk == ResponseChunk(session)
<1>1. /\ cpc = "more" /\ up /\ session' = AfterRead(session)
      /\ UNCHANGED <<wire, up, runs, countVars>> /\ UNCHANGED faults
  BY DEF ReadMore, countVars
<1>2. cpc' \notin {"write", "ack"} => Slack' \in Nat /\ Slack' >= Slack
  BY <1>1, FaultsAssumption DEF LinkInv, CountTypes, Slack
<1>3. wire = <<>>
  BY <1>1 DEF LinkInv, Reading
<1>4. CountTypes' /\ up' \in BOOLEAN /\ runs' \in Seq(Seq(CallIds \X Nat)) /\ WholeRequests' /\ Away'
  BY <1>1 DEF LinkInv, CountTypes, countVars, WholeRequests, Away
<1>5. CASE GiveUp
  <2>1. SessionRead /\ LinkParts'
    BY <1>1, <1>2, <1>5, ReadKeeps DEF GiveUp, Finish
  <2> QED  BY <1>1, <1>4, <1>5, <2>1, FailedCall DEF LinkInv, LinkParts, SessionRead
<1>6. CASE /\ chunk.kind = "data" /\ got' = Append(got, chunk.payload)
           /\ IF chunk.final THEN Finish("ok") ELSE UNCHANGED <<cpc, asked, id, pos, outcome>>
  <2>1. cpc' \notin {"write", "ack"} /\ UNCHANGED <<asked, id, pos>>
    BY <1>1, <1>6 DEF Finish
  <2>2. SessionRead /\ LinkParts'
    BY <1>1, <1>2, <2>1, ReadKeeps
  <2>3. /\ session.ready /\ ~session.first /\ session.cur = id /\ asked \in CallIds
        /\ session.off \in Nat /\ ResponseLen[asked] \in Nat
        /\ chunk.payload = <<asked, session.off>> /\ <<asked, session.off>> \in CallIds \X Nat
    BY <1>1, <1>6, FindsOwn
  <2>4. chunk.final <=> session.off + 1 >= ResponseLen[asked]
    BY <1>1, <1>6, FindsOwn
  <2>5. session'.off = session.off + 1 /\ session'.resp = asked
    BY <1>1, <1>6, FindsOwn
  <2>6. /\ got \in Seq(CallIds \X Nat) /\ Len(got) = session.off
        /\ session.off < ResponseLen[asked]
        /\ \A k \in 1..Len(got) : got[k] = <<asked, k - 1>>
    BY <1>1, <2>3 DEF LinkInv, ClientTypes, Begun
  <2>7. /\ got' \in Seq(CallIds \X Nat) /\ Len(got') = session.off + 1
        /\ \A k \in 1..(session.off + 1) : got'[k] = <<asked, k - 1>>
    <3>1. got' = Append(got, <<asked, session.off>>)
      BY <1>6, <2>3
    <3> QED  BY <2>3, <2>6, <3>1, AppendFacts
  <2>8. CASE chunk.final
    <3>1. cpc' = "idle" /\ outcome' = [outcome EXCEPT ![asked] = "ok"]
      BY <1>6, <2>8 DEF Finish
    <3>2. got' = Response(asked)
      <4>1. ResponseLen[asked] # 0 /\ ResponseLen[asked] = session.off + 1
        BY <2>3, <2>4, <2>6, <2>8
      <4> QED  BY <2>7, <4>1 DEF Response
    <3> QED
      BY <1>4, <2>1, <2>2, <2>7, <3>1, <3>2
         DEF LinkInv, LinkParts, SessionRead, ClientTypes, Asking, Writes, Acking, Reading, Awaited,
             Begun, OwnAnswer
  <2>9. CASE ~chunk.final
    <3>1. cpc' = "more" /\ outcome' = outcome
      BY <1>1, <1>6, <2>9
    <3>2. Begun'
      <4>1. session.off + 1 < ResponseLen[asked]
        BY <2>3, <2>4, <2>9
      <4>2. /\ session'.resp = asked /\ session'.off < ResponseLen[asked] /\ asked' = asked
            /\ Len(got') = session'.off
            /\ \A k \in 1..Len(got') : got'[k] = <<asked, k - 1>>
        BY <2>1, <2>5, <2>7, <4>1
      <4> QED  BY <4>2 DEF Begun
    <3> QED
      BY <1>1, <1>3, <1>4, <2>1, <2>2, <2>3, <2>7, <3>1, <3>2
         DEF LinkInv, LinkParts, SessionRead, ClientTypes, Asking, Writes, Acking, Reading, Awaited,
             OwnAnswer
  <2> QED  BY <2>8, <2>9
<1> QED  BY <1>5, <1>6 DEF ReadMore

LEMMA RejectStep == ASSUME LinkInv, Reject PROVE LinkInv'
<1>1. /\ cpc # "idle" /\ GiveUp /\ cpc' = "idle" /\ UNCHANGED <<up, runs, losses, drops>>
      /\ UNCHANGED <<id, asked>>
  BY DEF Reject, GiveUp, Finish
<1>2. /\ ClientTypes' /\ Asking' /\ Writes' /\ OwnAnswer'
      /\ Acking' /\ Reading' /\ Awaited' /\ Begun'
  BY <1>1, FailedCall
<1>3. faults \in Nat /\ Slack \in Nat
  BY FaultsAssumption, SlackTyped DEF LinkInv, CountTypes
<1>4. runs' \in Seq(Seq(CallIds \X Nat)) /\ WholeRequests' /\ up' \in BOOLEAN
  BY <1>1 DEF LinkInv, WholeRequests
<1>5. CASE ~up /\ UNCHANGED <<faults, wire, session>>
  <2>1. wire = <<>> /\ session.first
    BY <1>5, NewSessionOK DEF LinkInv, Away
  <2>2. LinkParts'
    BY <1>5, <2>1 DEF LinkInv, LinkParts, WireOK, Near, Same, Mine, Belongs
  <2> QED  BY <1>1, <1>2, <1>4, <1>5, <2>2 DEF LinkInv, LinkParts, CountTypes, Away
<1>6. CASE up /\ faults < MaxFaults /\ faults' = faults + 1
  <2>1. Slack' \in Nat /\ Slack' >= Slack /\ faults' \in Nat /\ CountTypes' /\ Away'
    BY <1>1, <1>3, <1>6, FaultsAssumption DEF Slack, LinkInv, CountTypes, Away
  <2>2. CASE UNCHANGED <<wire, session>>
    <3>1. SessionRead
      BY <2>2 DEF LinkInv, SessionRead
    <3>2. LinkParts'
      BY <1>1, <1>3, <2>1, <2>2, <3>1, SameChunks, PartsKept
    <3> QED  BY <1>2, <1>4, <2>1, <3>1, <3>2 DEF LinkInv, LinkParts, SessionRead
  <2>3. CASE cpc = "write" /\ wire' = Append(wire, Chunk(pos)) /\ UNCHANGED session
    <3>1. LinkParts'
      BY <1>1, <1>3, <2>1, <2>3, ChunkWritten
    <3> QED  BY <1>2, <1>4, <2>1, <2>3, <3>1 DEF LinkInv, LinkParts
  <2>4. CASE cpc = "ack" /\ wire # <<>> /\ wire' = SubSeq(wire, 1, Len(wire) - 1)
             /\ UNCHANGED session
    <3>1. SessionRead
      BY <2>4 DEF LinkInv, SessionRead
    <3>2. FewerChunks
      <4>1. wire \in Seq(ChunkType) /\ Len(wire) \in Nat
        BY DEF LinkInv, WireOK
      <4>2. wire' \in Seq(ChunkType) /\ Len(wire') = Len(wire) - 1
            /\ \A k \in 1..Len(wire') : wire'[k] = wire[k]
        BY <2>4, <4>1, FrontFacts
      <4> QED  BY <4>1, <4>2 DEF FewerChunks
    <3>3. LinkParts'
      BY <1>1, <1>3, <2>1, <3>1, <3>2, PartsKept
    <3> QED  BY <1>2, <1>4, <2>1, <3>1, <3>3 DEF LinkInv, LinkParts, SessionRead
  <2>5. CASE cpc \in {"read", "reread", "more"} /\ session' = AfterRead(session) /\ UNCHANGED wire
    <3>1. SessionRead /\ LinkParts'
      BY <1>1, <1>3, <1>6, <2>1, <2>5, ReadKeeps
    <3> QED  BY <1>2, <1>4, <2>1, <3>1 DEF LinkInv, LinkParts, SessionRead
  <2> QED  BY <1>6, <2>2, <2>3, <2>4, <2>5 DEF Reject
<1> QED  BY <1>5, <1>6 DEF Reject

LEMMA LoseStep == ASSUME LinkInv, Lose PROVE LinkInv'
<1>1. /\ wire # <<>> /\ ~Head(wire).final /\ wire' = Tail(wire) /\ wire \in Seq(ChunkType)
      /\ UNCHANGED <<clientVars, up, session, runs, faults, drops>>
  BY DEF Lose, LinkInv, WireOK
<1>2. /\ wire' \in Seq(ChunkType) /\ Len(wire') = Len(wire) - 1 /\ Len(wire) \in Nat \ {0}
      /\ Head(wire) = wire[1] /\ \A k \in 1..Len(wire') : wire'[k] = wire[k + 1]
  BY <1>1, TailFacts
<1>3. FewerChunks
  BY <1>2 DEF FewerChunks
<1>4. SessionRead
  BY <1>1 DEF LinkInv, SessionRead
<1>5. Slack \in Nat /\ Slack' = Slack
  BY <1>1, SlackTyped DEF Slack, clientVars
<1>6. LinkParts'
  BY <1>1, <1>3, <1>4, <1>5, PartsKept DEF clientVars
<1>7. Acking'
  <2> SUFFICES ASSUME cpc = "ack"
               PROVE  up /\ wire' # <<>> /\ wire'[Len(wire')].id = id /\ wire'[Len(wire')].final
    BY <1>1 DEF Acking, clientVars
  <2>1. up /\ wire[Len(wire)].id = id /\ wire[Len(wire)].final
    BY <1>1 DEF LinkInv, Acking
  <2>2. Len(wire) # 1
    BY <1>1, <1>2, <2>1
  <2>3. wire'[Len(wire')] = wire[Len(wire)] /\ wire' # <<>>
    BY <1>2, <2>2
  <2> QED  BY <2>1, <2>3
<1>8. Away' /\ Reading'
  BY <1>1 DEF LinkInv, Away, Reading, clientVars
<1>9. CountTypes'
  BY FaultsAssumption DEF Lose, LinkInv, CountTypes
<1> QED
  BY <1>1, <1>4, <1>6, <1>7, <1>8, <1>9
     DEF LinkInv, LinkParts, SessionRead, clientVars, ClientTypes, Asking, Writes, Awaited, Begun,
         WholeRequests, OwnAnswer

\* A chunk reaches the session: whatever it was in the middle of, it then has the
\* chunk's message, and what it completes is the request of one call.
LEMMA DeliverStep == ASSUME LinkInv, Deliver PROVE LinkInv'
<1> DEFINE c == wire[1]
           skipped == session.skip /\ session.cur = c.id
<1>1. /\ wire # <<>> /\ wire' = Tail(wire) /\ wire \in Seq(ChunkType) /\ up
      /\ UNCHANGED clientVars /\ UNCHANGED up /\ UNCHANGED countVars
  BY DEF Deliver, LinkInv, WireOK
<1>2. /\ wire' \in Seq(ChunkType) /\ Len(wire') = Len(wire) - 1 /\ Len(wire) \in Nat \ {0}
      /\ Head(wire) = c /\ \A k \in 1..Len(wire') : wire'[k] = wire[k + 1] /\ k + 1 \in 1..Len(wire)
  BY <1>1, TailFacts
<1>3. UNCHANGED <<cpc, asked, id, pos, got, outcome, losses, faults, drops>>
  BY <1>1 DEF clientVars, countVars
<1>4. session' = Consume(session, c)
  BY <1>2 DEF Deliver
<1>5. ChunkOK(c) /\ SessionOK(session) /\ Belongs(session, c.id, c.call) /\ 1 \in 1..Len(wire)
  BY <1>2 DEF LinkInv, WireOK, Same
<1>6. c.id \in Ids /\ c.call \in CallIds
  BY <1>5 DEF ChunkOK, ChunkType
<1>7. /\ SessionOK(session') /\ ~session'.first /\ session'.cur = c.id
      /\ Belongs(session', c.id, c.call)
      /\ skipped => session' = session
      /\ ~skipped /\ session'.ready =>
           session'.resp = c.call /\ session'.off = 0 /\ session'.buf = Request(c.call)
  BY <1>4, <1>5, ConsumeOK
<1> HIDE DEF c
<1>8. WireOK'
  BY <1>2 DEF LinkInv, WireOK
<1>9. Near'
  <2>1. Slack' = Slack /\ id' = id
    BY <1>3 DEF Slack
  <2>2. \A k \in 1..Len(wire) : Dist(id, wire[k].id) <= Slack
    BY DEF LinkInv, Near
  <2>3. Dist(id, c.id) <= Slack
    BY <1>5, <2>2 DEF c
  <2> QED  BY <1>2, <1>7, <2>1, <2>2, <2>3 DEF Near
<1>10. \A i, a : (i = c.id => a = c.call) => Belongs(session', i, a)
  BY <1>7 DEF Belongs
<1>11. Same'
  <2>1. \A k, l \in 1..Len(wire) : wire[k].id = wire[l].id => wire[k].call = wire[l].call
    BY DEF LinkInv, Same
  <2>2. \A k \in 1..Len(wire) : wire[k].id = c.id => wire[k].call = c.call
    BY <1>5, <2>1 DEF c
  <2>3. \A k \in 1..Len(wire') : wire'[k].id = c.id => wire'[k].call = c.call
    BY <1>2, <2>2
  <2>4. \A k, l \in 1..Len(wire') : wire'[k].id = wire'[l].id => wire'[k].call = wire'[l].call
    BY <1>2, <2>1
  <2> QED  BY <1>10, <2>3, <2>4 DEF Same
<1>12. id = c.id => c.call = asked
  BY <1>5 DEF LinkInv, Mine, c
<1>13. Mine'
  BY <1>2, <1>3, <1>10, <1>12 DEF LinkInv, Mine
<1>14. Acking'
  <2> SUFFICES ASSUME cpc = "ack"
               PROVE  IF wire' = <<>> THEN session'.cur = id
                      ELSE wire'[Len(wire')].id = id /\ wire'[Len(wire')].final
    BY <1>1, <1>3, <1>7 DEF Acking
  <2>1. wire[Len(wire)].id = id /\ wire[Len(wire)].final
    BY <1>1 DEF LinkInv, Acking
  <2>2. CASE Len(wire) = 1
    BY <1>2, <1>7, <2>1, <2>2 DEF c
  <2>3. CASE Len(wire) # 1
    BY <1>2, <2>1, <2>3
  <2> QED  BY <2>2, <2>3
<1>15. cpc \notin {"read", "reread", "more"}
  BY <1>1 DEF LinkInv, Reading
<1>16. Away' /\ Reading' /\ Begun'
  BY <1>1, <1>3, <1>15 DEF Away, Reading, Begun
<1>17. Awaited'
  BY <1>3, <1>7, <1>12, <1>15 DEF LinkInv, Awaited, SessionOK
<1>18. runs' \in Seq(Seq(CallIds \X Nat)) /\ WholeRequests'
  <2>1. runs \in Seq(Seq(CallIds \X Nat)) /\ WholeRequests /\ session'.buf \in Seq(CallIds \X Nat)
    BY <1>7 DEF LinkInv, SessionOK, SessionType
  <2>2. CASE runs' = runs
    BY <2>1, <2>2 DEF WholeRequests
  <2>3. CASE Completes(session, c) /\ runs' = Append(runs, session'.buf)
    <3>1. session'.buf = Request(c.call)
      BY <1>4, <1>7, <2>3 DEF Completes
    <3>2. /\ runs' \in Seq(Seq(CallIds \X Nat)) /\ Len(runs') = Len(runs) + 1
          /\ \A k \in 1..Len(runs) : runs'[k] = runs[k]
          /\ runs'[Len(runs) + 1] = Request(c.call)
      BY <2>1, <2>3, <3>1, AppendFacts
    <3>3. DOMAIN runs' = 1..(Len(runs) + 1) /\ DOMAIN runs = 1..Len(runs)
      BY <2>1, <3>2
    <3>4. \A k \in 1..Len(runs) : \E d \in CallIds : runs'[k] = Request(d)
      BY <2>1, <3>2, <3>3 DEF WholeRequests
    <3>5. \A k \in 1..(Len(runs) + 1) : \E d \in CallIds : runs'[k] = Request(d)
      <4> SUFFICES ASSUME NEW k \in 1..(Len(runs) + 1)
                   PROVE  \E d \in CallIds : runs'[k] = Request(d)
        OBVIOUS
      <4>1. CASE k = Len(runs) + 1
        BY <1>6, <3>2, <4>1
      <4>2. CASE k \in 1..Len(runs)
        BY <3>4, <4>2
      <4>3. Len(runs) \in Nat
        BY <2>1
      <4> QED  BY <4>1, <4>2, <4>3
    <3> QED  BY <3>2, <3>3, <3>5 DEF WholeRequests, Request
  <2> QED  BY <1>2, <2>2, <2>3 DEF Deliver
<1> QED
  BY <1>1, <1>3, <1>7, <1>8, <1>9, <1>11, <1>13, <1>14, <1>16, <1>17, <1>18
     DEF LinkInv, ClientTypes, CountTypes, Asking, Writes, OwnAnswer

\* The connection drops, or comes back: nothing is left of any message.
LEMMA DropStep == ASSUME LinkInv, Drop PROVE LinkInv'
<1>1. /\ wire' = <<>> /\ session' = NewSession /\ up' = FALSE /\ UNCHANGED <<runs, losses, faults>>
      /\ drops' = drops + 1 /\ drops < MaxDrops
  BY DEF Drop
<1>2. SessionOK(session') /\ session'.first /\ ~session'.ready
  BY <1>1, NewSessionOK
<1>3. LinkParts'
  BY <1>1, <1>2 DEF LinkParts, WireOK, Near, Same, Mine, Belongs
<1>4. CountTypes'
  BY <1>1, FaultsAssumption DEF LinkInv, CountTypes
<1>5. /\ ClientTypes' /\ Asking' /\ Writes' /\ OwnAnswer'
      /\ Acking' /\ Reading' /\ Awaited' /\ Begun'
  <2>1. CASE GiveUp /\ cpc # "idle"
    BY <2>1, FailedCall
  <2>2. CASE UNCHANGED clientVars /\ cpc # "ack"
    BY <1>1, <1>2, <2>2
       DEF clientVars, LinkInv, ClientTypes, Asking, Writes, OwnAnswer, Acking, Reading, Awaited,
           Begun
  <2> QED  BY <2>1, <2>2 DEF Drop, GiveUp
<1> QED  BY <1>1, <1>2, <1>3, <1>4, <1>5 DEF LinkInv, LinkParts, Away, WholeRequests

LEMMA OtherStep == ASSUME LinkInv, Reconnect \/ UNCHANGED vars PROVE LinkInv'
<1>1. /\ UNCHANGED <<cpc, asked, id, pos, got, outcome, losses, faults, drops, wire, session, runs>>
      /\ up' \in {up, TRUE}
  BY DEF Reconnect, vars, clientVars, countVars
<1>2. UNCHANGED <<Slack, Near, Same, Mine>>
  BY <1>1 DEF Slack, Near, Same, Mine
<1> QED
  BY <1>1, <1>2
     DEF LinkInv, ClientTypes, CountTypes, WireOK, Asking, Writes, Away, Acking, Reading, Awaited,
         Begun, WholeRequests, OwnAnswer

LEMMA LinkInvariance == Spec => []LinkInv
<1>1. LinkInv /\ [Next]_vars => LinkInv'
  BY InvokeStep, WriteStep, AcknowledgedStep, ReadFirstStep, ReadMoreStep, RejectStep, DeliverStep,
     LoseStep, DropStep, OtherStep DEF Next, Client
<1> QED  BY InitLinkInv, <1>1, PTL DEF Spec

\* The variables keep their types: ids, places and counts stay within their
\* bounds however often ids wrap around.
THEOREM TypeCorrect == Spec => []TypeOK
BY LinkInvariance, TypeFollows, PTL

\* What the device runs is always one request, whole and in order: no loss, retry
\* or late chunk of an earlier message makes it put two of them together.
THEOREM RequestsAreWhole == Spec => []WholeRequests
<1>1. LinkInv => WholeRequests
  BY DEF LinkInv
<1> QED  BY <1>1, LinkInvariance, PTL

\* A call that succeeds returns the whole response to its own request.
THEOREM AnswersAreOwn == Spec => []OwnAnswer
<1>1. LinkInv => OwnAnswer
  BY DEF LinkInv
<1> QED  BY <1>1, LinkInvariance, PTL

(***************************************************************************)
(* At most once.  What is left of a request can only complete it while the *)
(* device has run no call from it on: each chunk on its way either belongs *)
(* to a message that the session skips, or to a call after all that ran.   *)
(***************************************************************************)
Ran == {runs[i][1][1] : i \in DOMAIN runs}
Before(c) == \A r \in Ran : r < c

\* The calls and what became of them.
Calling == /\ cpc = "idle" /\ asked > 0 => outcome[asked] # "none"
           /\ cpc # "idle" => outcome[asked] = "none"
           /\ \A c \in CallIds : c > asked => outcome[c] = "none"
Answered == \A c \in CallIds : outcome[c] = "ok" => c \in Ran
Past     == Before(asked + 1)

\* Chunks arrive in the order of their calls, and a call has one message at a time.
Ordered == \A k, l \in 1..Len(wire) :
             /\ k <= l => wire[k].call <= wire[l].call
             /\ wire[k].call = wire[l].call => wire[k].id = wire[l].id
Latest  == \A k \in 1..Len(wire) :
             /\ wire[k].call <= asked
             /\ wire[k].call = asked => wire[k].id = id
InTurn  == ~session.first =>
             /\ \A k, l \in 1..Len(wire) :
                  l <= k /\ wire[k].id = session.cur => wire[l].id = session.cur
             /\ session.cur = id => \A k \in 1..Len(wire) : wire[k].id = id
Fresh   == \A k \in 1..Len(wire) :
             (session.skip /\ session.cur = wire[k].id) \/ Before(wire[k].call)

\* A message that is not written to its end has not run its call, nor has one that
\* is refused.
Written == cpc = "write" => /\ Before(asked)
                            /\ \A k \in 1..Len(wire) : wire[k].id = id => wire[k].seq < pos
Refused == /\ ~session.skip => session.error = "none"
           /\ cpc \in {"ack", "read", "reread"} /\ ~session.first /\ session.cur = id =>
                session.error = "none" \/ Before(asked)
Ready   == session.ready => session.resp \in Ran

WireParts == Ordered /\ Latest /\ InTurn /\ Fresh
OnceInv   == Calling /\ Answered /\ Past /\ WireParts /\ Written /\ Refused /\ Ready

LEMMA RanTyped == ASSUME LinkInv PROVE Ran \subseteq CallIds /\ CallIds \subseteq Nat \ {0}
<1>1. \A d \in CallIds : Request(d)[1][1] = d
  <2> SUFFICES ASSUME NEW d \in CallIds PROVE Request(d)[1][1] = d
    OBVIOUS
  <2>1. RequestLen[d] \in 1..MaxLen /\ MaxLen \in Nat
    BY CallsAssumption
  <2>2. 1 \in 1..RequestLen[d]
    BY <2>1
  <2>3. Request(d)[1] = <<d, 1 - 1>>
    BY <2>2 DEF Request
  <2> QED  BY <2>3
<1>2. \A i \in DOMAIN runs : \E d \in CallIds : runs[i] = Request(d)
  BY DEF LinkInv, WholeRequests
<1> QED  BY <1>1, <1>2, CallsAssumption DEF Ran, CallIds

LEMMA InitOnce == Init => OnceInv
<1> SUFFICES ASSUME Init PROVE OnceInv
  OBVIOUS
<1>1. Ran = {}
  BY DEF Init, Ran
<1>2. session.error = "none" /\ ~session.ready /\ session.first
  BY DEF Init, NewSession, Reset
<1> QED
  BY <1>1, <1>2
     DEF Init, OnceInv, WireParts, Calling, Answered, Past, Before, Ordered, Latest, InTurn, Fresh,
         Written, Refused, Ready

\* What is on the wire when some of it has gone: the rest, from place m on.
RestFrom(m) == /\ m \in Nat /\ Len(wire') \in Nat /\ Len(wire) \in Nat /\ Len(wire') + m <= Len(wire)
               /\ \A k \in 1..Len(wire') : wire'[k] = wire[k + m]

LEMMA WirePartsKept ==
  ASSUME LinkInv, OnceInv, NEW m, RestFrom(m), UNCHANGED <<id, asked, runs>>,
         \/ session'.first /\ wire' = <<>>
         \/ session'.first = session.first /\ session'.cur = session.cur
            /\ session'.skip = session.skip
  PROVE  WireParts'
<1>1. Ran' = Ran
  BY DEF Ran
<1>2. \A k \in 1..Len(wire') : k + m \in 1..Len(wire) /\ wire'[k] = wire[k + m]
  BY DEF RestFrom
<1>3. \A k, l \in 1..Len(wire') : k <= l => k + m <= l + m
  BY DEF RestFrom
<1>4. Ordered' /\ Latest'
  BY <1>2, <1>3 DEF OnceInv, WireParts, Ordered, Latest
<1>5. CASE session'.first /\ wire' = <<>>
  <2>1. InTurn' /\ Fresh'
    BY <1>5 DEF InTurn, Fresh
  <2> QED  BY <1>4, <2>1 DEF WireParts
<1>6. CASE session'.first = session.first /\ session'.cur = session.cur
           /\ session'.skip = session.skip
  <2>1. InTurn'
    BY <1>2, <1>3, <1>6 DEF OnceInv, WireParts, InTurn
  <2>2. Fresh'
    BY <1>1, <1>2, <1>6 DEF OnceInv, WireParts, Fresh, Before
  <2> QED  BY <1>4, <2>1, <2>2 DEF WireParts
<1> QED  BY <1>5, <1>6

LEMMA RestFacts ==
  ASSUME LinkInv
  PROVE  /\ UNCHANGED wire => RestFrom(0)
         /\ wire # <<>> /\ wire' = Tail(wire) => RestFrom(1)
         /\ wire # <<>> /\ wire' = SubSeq(wire, 1, Len(wire) - 1) => RestFrom(0)
         /\ wire' = <<>> => RestFrom(0)
<1>1. wire \in Seq(ChunkType) /\ Len(wire) \in Nat
  BY DEF LinkInv, WireOK
<1>2. \A k \in 1..Len(wire) : k + 0 = k
  BY <1>1
<1>3. UNCHANGED wire => RestFrom(0)
  BY <1>1, <1>2 DEF RestFrom
<1>4. wire # <<>> /\ wire' = Tail(wire) => RestFrom(1)
  BY <1>1, TailFacts DEF RestFrom
<1>5. ASSUME wire # <<>>, wire' = SubSeq(wire, 1, Len(wire) - 1) PROVE RestFrom(0)
  <2>1. Len(wire') = Len(wire) - 1 /\ \A k \in 1..Len(wire') : wire'[k] = wire[k]
    BY <1>1, <1>5, FrontFacts
  <2>2. Len(wire) # 0
    BY <1>1, <1>5
  <2> QED  BY <1>1, <2>1, <2>2 DEF RestFrom
<1>6. wire' = <<>> => RestFrom(0)
  BY <1>1 DEF RestFrom
<1> QED  BY <1>3, <1>4, <1>5, <1>6

\* Reads clear errors.
LEMMA AfterReadClears ==
  ASSUME NEW s, SessionOK(s)
  PROVE  AfterRead(s).error = "none"
<1>1. s \in SessionType
  BY DEF SessionOK
<1> QED  BY <1>1 DEF AfterRead, SessionType, Errors

(***************************************************************************)
(* The calls of the abstract link.                                         *)
(***************************************************************************)
RanSeq == [i \in DOMAIN runs |-> runs[i][1][1]]

LEMMA RanSeqIs ==
  ASSUME LinkInv
  PROVE  /\ RanSeq \in Seq(CallIds) /\ Len(RanSeq) = Len(runs) /\ DOMAIN RanSeq = DOMAIN runs
         /\ \A c : c \in Ran <=> \E i \in DOMAIN RanSeq : RanSeq[i] = c
<1>1. runs \in Seq(Seq(CallIds \X Nat)) /\ DOMAIN runs = 1..Len(runs) /\ Len(runs) \in Nat
  BY DEF LinkInv
<1>2. \A i \in DOMAIN runs : runs[i][1][1] \in CallIds
  BY RanTyped DEF Ran
<1>3. RanSeq \in Seq(CallIds) /\ Len(RanSeq) = Len(runs) /\ DOMAIN RanSeq = DOMAIN runs
  BY <1>1, <1>2 DEF RanSeq
<1> QED  BY <1>3 DEF Ran, RanSeq

\* A call fails.
LEMMA FailOnce ==
  ASSUME LinkInv, OnceInv, GiveUp, cpc # "idle", UNCHANGED runs
  PROVE  /\ Calling' /\ Answered' /\ Past' /\ Written'
         /\ RpcLink!CallsNext
<1>1. asked \in CallIds /\ cpc' = "idle" /\ outcome' = [outcome EXCEPT ![asked] = "failed"]
      /\ UNCHANGED <<asked, id, pos, got>> /\ outcome \in [CallIds -> {"none", "ok", "failed"}]
  BY DEF LinkInv, Asking, GiveUp, Finish, ClientTypes
<1>2. Ran' = Ran
  BY DEF Ran
<1>3. outcome'[asked] = "failed" /\ \A c \in CallIds : c # asked => outcome'[c] = outcome[c]
  BY <1>1
<1>4. Calling'
  BY <1>1, <1>3, RanTyped DEF OnceInv, Calling
<1>5. Answered' /\ Past' /\ Written'
  BY <1>1, <1>2, <1>3 DEF OnceInv, Answered, Past, Before, Written
<1>6. RpcLink!Fail(asked)
  BY <1>1 DEF OnceInv, Calling, RpcLink!Fail
<1>7. asked \in 1..asked
  BY <1>1, RanTyped
<1> QED  BY <1>4, <1>5, <1>6, <1>7 DEF RpcLink!CallsNext

\* A call is answered.
LEMMA AnswerOnce ==
  ASSUME LinkInv, OnceInv, Finish("ok"), cpc # "idle", UNCHANGED runs, asked \in Ran
  PROVE  /\ Calling' /\ Answered' /\ Past' /\ Written'
         /\ RpcLink!CallsNext
<1>1. asked \in CallIds /\ cpc' = "idle" /\ outcome' = [outcome EXCEPT ![asked] = "ok"]
      /\ UNCHANGED <<asked, id, pos>> /\ outcome \in [CallIds -> {"none", "ok", "failed"}]
  BY DEF LinkInv, Asking, Finish, ClientTypes
<1>2. Ran' = Ran
  BY DEF Ran
<1>3. outcome'[asked] = "ok" /\ \A c \in CallIds : c # asked => outcome'[c] = outcome[c]
  BY <1>1
<1>4. Calling'
  BY <1>1, <1>3, RanTyped DEF OnceInv, Calling
<1>5. Answered' /\ Past' /\ Written'
  BY <1>1, <1>2, <1>3 DEF OnceInv, Answered, Past, Before, Written
<1>6. RpcLink!Answer(asked)
  <2>1. \E i \in DOMAIN RanSeq : RanSeq[i] = asked
    BY RanSeqIs
  <2> QED  BY <1>1, <2>1 DEF OnceInv, Calling, RpcLink!Answer, RanSeq
<1>7. asked \in 1..asked
  BY <1>1, RanTyped
<1> QED  BY <1>4, <1>5, <1>6, <1>7 DEF RpcLink!CallsNext

LEMMA FunctionIsSeq ==
  ASSUME NEW S, NEW n \in Nat, NEW f \in [1..n -> S]
  PROVE  f \in Seq(S)
BY SeqDef, Zenon

\* A call runs.
LEMMA RunOnce ==
  ASSUME LinkInv, OnceInv, NEW c \in CallIds, c <= asked, Before(c),
         runs' = Append(runs, Request(c)), UNCHANGED <<asked, outcome>>
  PROVE  Ran' = Ran \cup {c} /\ RpcLink!CallsNext
<1>1. runs \in Seq(Seq(CallIds \X Nat)) /\ DOMAIN runs = 1..Len(runs) /\ Len(runs) \in Nat
  BY DEF LinkInv
<1>2. RequestLen[c] \in 1..MaxLen /\ MaxLen \in Nat
  BY CallsAssumption
<1>3. Request(c)[1][1] = c /\ Request(c) \in Seq(CallIds \X Nat)
  <2>1. 1 \in 1..RequestLen[c]
    BY <1>2
  <2>2. Request(c)[1] = <<c, 1 - 1>>
    BY <2>1 DEF Request
  <2>3. Request(c) \in Seq(CallIds \X Nat)
    <3> DEFINE n == RequestLen[c]
    <3>1. n \in Nat /\ Request(c) = [i \in 1..n |-> <<c, i - 1>>]
      BY <1>2 DEF Request
    <3> HIDE DEF n
    <3>2. \A i \in 1..n : <<c, i - 1>> \in CallIds \X Nat
      BY <3>1
    <3>3. Request(c) \in [1..n -> CallIds \X Nat]
      BY <3>1, <3>2
    <3> QED  BY <3>1, <3>3, FunctionIsSeq, Zenon
  <2> QED  BY <2>2, <2>3
<1> DEFINE q == Request(c)
<1> HIDE DEF q
<1>4. /\ DOMAIN runs' = 1..(Len(runs) + 1)
      /\ \A i \in 1..Len(runs) : runs'[i] = runs[i]
      /\ runs'[Len(runs) + 1] = q
  <2>1. runs' = Append(runs, q) /\ q \in Seq(CallIds \X Nat)
    BY <1>3 DEF q
  <2>2. /\ runs' \in Seq(Seq(CallIds \X Nat)) /\ Len(runs') = Len(runs) + 1
        /\ \A i \in 1..Len(runs) : runs'[i] = runs[i]
        /\ runs'[Len(runs) + 1] = q
    BY <1>1, <2>1, AppendFacts
  <2> QED  BY <2>2
<1>5. 1..(Len(runs) + 1) = 1..Len(runs) \cup {Len(runs) + 1}
  BY <1>1
<1>6. Ran' = Ran \cup {c}
  <2>1. q[1][1] = c
    BY <1>3 DEF q
  <2> QED  BY <1>1, <1>4, <1>5, <2>1 DEF Ran
<1>7. RanSeq' = Append(RanSeq, c)
  <2>1. RanSeq \in Seq(CallIds) /\ Len(RanSeq) = Len(runs)
    BY RanSeqIs
  <2>2. /\ Append(RanSeq, c) \in Seq(CallIds) /\ Len(Append(RanSeq, c)) = Len(runs) + 1
        /\ \A i \in 1..Len(runs) : Append(RanSeq, c)[i] = RanSeq[i]
        /\ Append(RanSeq, c)[Len(runs) + 1] = c
    BY <2>1, AppendFacts
  <2>3. \A i \in 1..(Len(runs) + 1) : Append(RanSeq, c)[i] = runs'[i][1][1]
    <3>1. ASSUME NEW i \in 1..Len(runs) PROVE Append(RanSeq, c)[i] = runs'[i][1][1]
      BY <1>1, <1>4, <2>2 DEF RanSeq
    <3>2. Append(RanSeq, c)[Len(runs) + 1] = runs'[Len(runs) + 1][1][1]
      BY <1>3, <1>4, <2>2 DEF q
    <3> QED  BY <1>5, <3>1, <3>2
  <2>4. DOMAIN RanSeq' = 1..(Len(runs) + 1)
        /\ \A i \in 1..(Len(runs) + 1) : RanSeq'[i] = Append(RanSeq, c)[i]
    BY <1>4, <2>3 DEF RanSeq
  <2>5. \A i \in 1..(Len(runs) + 1) : Append(RanSeq, c)[i] \in CallIds
    BY <2>2, ElementOfSeq
  <2>6. Len(runs) + 1 \in Nat
    BY <1>1
  <2>7. RanSeq' \in [1..(Len(runs) + 1) -> CallIds]
    <3>1. RanSeq' = [i \in DOMAIN RanSeq' |-> RanSeq'[i]]
      BY DEF RanSeq
    <3> HIDE DEF RanSeq
    <3> QED  BY <2>4, <2>5, <3>1
  <2>8. RanSeq' \in Seq(CallIds)
    BY <2>6, <2>7, FunctionIsSeq, Zenon
  <2>9. Len(RanSeq') = Len(runs) + 1
    BY <2>4, <2>6, <2>8
  <2> QED  BY <2>2, <2>4, <2>8, <2>9, SeqEqual
<1>8. outcome[c] # "ok"
  <2>1. c \notin Ran
    BY RanTyped DEF Before
  <2> QED  BY <2>1 DEF OnceInv, Answered
<1>9. \A i \in DOMAIN RanSeq : RanSeq[i] < c
  BY RanSeqIs DEF Before
<1>10. RpcLink!Run(c)
  BY <1>7, <1>8, <1>9 DEF RpcLink!Run, RanSeq
<1>11. c \in 1..asked
  BY RanTyped DEF LinkInv, ClientTypes, CallIds
<1> QED  BY <1>6, <1>10, <1>11 DEF RpcLink!CallsNext

(***************************************************************************)
(* Steps of the link, each of them a step of its calls or none.            *)
(***************************************************************************)
CallsStep == RpcLink!CallsNext \/ UNCHANGED RpcLink!callVars

LEMMA NoCall == UNCHANGED <<asked, runs, outcome>> => CallsStep
BY DEF CallsStep, RpcLink!callVars

LEMMA InvokeOnce == ASSUME LinkInv, OnceInv, Invoke PROVE OnceInv' /\ CallsStep
<1>1. /\ cpc = "idle" /\ asked < Calls /\ asked' = asked + 1 /\ cpc' = "write" /\ pos' = 0
      /\ UNCHANGED <<outcome, wire, up, session, runs, countVars>>
  BY DEF Invoke, Attempt
<1>2. asked \in Nat /\ asked' \in CallIds /\ Calls \in Nat /\ asked \in 0..Calls
  BY <1>1, CallsAssumption DEF LinkInv, ClientTypes, CallIds
<1>3. SessionRead
  BY <1>1 DEF SessionRead, LinkInv
<1>4. LinkParts' /\ (~session'.first => session'.cur # id')
  BY <1>1, <1>3, AttemptKeeps DEF Invoke, countVars
<1>5. \A k \in 1..Len(wire) : wire[k].call \in Nat /\ wire[k].call <= asked
  <2>1. \A k \in 1..Len(wire) : wire[k].call \in CallIds
    BY DEF LinkInv, WireOK, ChunkOK, ChunkType
  <2> QED  BY <2>1, RanTyped DEF OnceInv, WireParts, Latest
<1>6. \A k \in 1..Len(wire) : wire[k].call # asked' /\ wire[k].call <= asked'
  BY <1>1, <1>2, <1>5
<1>7. \A k \in 1..Len(wire) : wire[k].id # id'
  BY <1>1, <1>4, <1>6 DEF LinkParts, Mine
<1>8. Ran' = Ran
  BY <1>1 DEF Ran
<1>9. Calling'
  BY <1>1, <1>2 DEF OnceInv, Calling, CallIds
<1>10. Answered' /\ Ready' /\ Before(asked')
  BY <1>1, <1>8 DEF OnceInv, Answered, Ready, Past, Before
<1>11. Past'
  <2>1. \A r \in Ran : r < asked' + 1
    BY <1>2, <1>10, RanTyped DEF Before, CallIds
  <2> QED  BY <1>8, <2>1 DEF Past, Before
<1>12. Ordered' /\ Latest' /\ Fresh'
  BY <1>1, <1>6, <1>8 DEF OnceInv, WireParts, Ordered, Latest, Fresh, Before
<1>13. InTurn'
  BY <1>1, <1>4 DEF OnceInv, WireParts, InTurn
<1>14. Written' /\ Refused'
  BY <1>1, <1>7, <1>8, <1>10 DEF OnceInv, Written, Refused, Before
<1>15. RpcLink!Ask
  BY <1>1 DEF OnceInv, Calling, RpcLink!Ask
<1> QED
  BY <1>9, <1>10, <1>11, <1>12, <1>13, <1>14, <1>15
     DEF OnceInv, WireParts, CallsStep, RpcLink!CallsNext

\* A chunk that is written comes after all that is on the wire.
LEMMA ChunkOnce ==
  ASSUME LinkInv, OnceInv, cpc = "write", wire' = Append(wire, Chunk(pos)),
         UNCHANGED <<session, id, asked, runs>>
  PROVE  /\ WireParts'
         /\ \A k \in 1..Len(wire') : wire'[k].id = id => wire'[k].seq < pos + 1
<1>1. asked \in CallIds /\ asked \in Nat /\ pos \in Nat /\ Before(asked)
  BY DEF LinkInv, Asking, ClientTypes, CallIds, OnceInv, Written
<1>2. Chunk(pos).id = id /\ Chunk(pos).call = asked /\ Chunk(pos).seq = pos
  BY DEF Chunk
<1>3. Chunk(pos) \in ChunkType
  <2>1. pos < RequestLen[asked] /\ RequestLen[asked] \in 1..MaxLen /\ MaxLen \in Nat
    BY <1>1, CallsAssumption DEF LinkInv, Writes
  <2>2. (pos + 1 = RequestLen[asked]) \in BOOLEAN /\ pos \in 0..(MaxLen - 1) /\ id \in Ids
    BY <1>1, <2>1 DEF LinkInv, ClientTypes
  <2> QED  BY <1>1, <2>2 DEF Chunk, ChunkType
<1>4. wire \in Seq(ChunkType) /\ Len(wire) \in Nat
      /\ \A k \in 1..Len(wire) : wire[k].call \in Nat /\ wire[k].seq \in Nat
  BY DEF LinkInv, WireOK, ChunkOK, ChunkType, CallIds
<1> DEFINE n == Len(wire)
           ch == Chunk(pos)
<1>5. /\ Len(wire') = n + 1 /\ \A k \in 1..n : wire'[k] = wire[k]
      /\ wire'[n + 1] = ch
  BY <1>3, <1>4, AppendFacts
<1> HIDE DEF ch
<1>6. /\ ch.id = id /\ ch.call = asked /\ ch.seq = pos
      /\ n \in Nat
      /\ \A k \in 1..(n + 1) : k \in 1..n \/ k = n + 1
      /\ \A k \in 1..n : k <= n + 1 /\ ~(n + 1 <= k)
  BY <1>2, <1>4 DEF ch
<1>7. Ran' = Ran
  BY DEF Ran
<1> HIDE DEF n
<1>8. Ordered /\ Latest /\ InTurn /\ Fresh
  BY DEF OnceInv, WireParts
<1>9. /\ \A k, l \in 1..n : /\ k <= l => wire[k].call <= wire[l].call
                            /\ wire[k].call = wire[l].call => wire[k].id = wire[l].id
      /\ \A k \in 1..n : wire[k].call <= asked /\ (wire[k].call = asked => wire[k].id = id)
  BY <1>8 DEF Ordered, Latest, n
<1>10. Latest'
  <2>1. \A k \in 1..(n + 1) : wire'[k].call <= asked /\ (wire'[k].call = asked => wire'[k].id = id)
    BY <1>1, <1>5, <1>6, <1>9
  <2> QED  BY <1>5, <2>1 DEF Latest
<1>11. Ordered'
  <2>1. ASSUME NEW k \in 1..(n + 1), NEW l \in 1..(n + 1)
        PROVE  /\ k <= l => wire'[k].call <= wire'[l].call
               /\ wire'[k].call = wire'[l].call => wire'[k].id = wire'[l].id
    <3>1. CASE k \in 1..n /\ l \in 1..n
      BY <1>5, <1>9, <3>1
    <3>2. CASE k \in 1..n /\ l = n + 1
      BY <1>5, <1>6, <1>9, <3>2
    <3>3. CASE k = n + 1 /\ l \in 1..n
      BY <1>5, <1>6, <1>9, <3>3
    <3>4. CASE k = n + 1 /\ l = n + 1
      BY <1>1, <1>5, <1>6, <3>4
    <3> QED  BY <1>6, <3>1, <3>2, <3>3, <3>4
  <2> QED  BY <1>5, <2>1 DEF Ordered
<1>12. InTurn'
  <2> SUFFICES ASSUME ~session.first PROVE
        /\ \A k, l \in 1..(n + 1) :
             l <= k /\ wire'[k].id = session.cur => wire'[l].id = session.cur
        /\ session.cur = id => \A k \in 1..(n + 1) : wire'[k].id = id
    BY <1>5 DEF InTurn
  <2>1. /\ \A k, l \in 1..n : l <= k /\ wire[k].id = session.cur => wire[l].id = session.cur
        /\ session.cur = id => \A k \in 1..n : wire[k].id = id
    BY <1>8 DEF InTurn, n
  <2>2. session.cur = id => \A k \in 1..(n + 1) : wire'[k].id = id
    BY <1>5, <1>6, <2>1
  <2>3. ASSUME NEW k \in 1..(n + 1), NEW l \in 1..(n + 1), l <= k, wire'[k].id = session.cur
        PROVE  wire'[l].id = session.cur
    <3>1. CASE k \in 1..n
      <4>1. l \in 1..n
        BY <1>6, <2>3, <3>1
      <4> QED  BY <1>5, <2>1, <2>3, <3>1, <4>1
    <3>2. CASE k = n + 1
      <4>1. session.cur = id
        BY <1>5, <1>6, <2>3, <3>2
      <4> QED  BY <2>2, <4>1
    <3> QED  BY <1>6, <3>1, <3>2
  <2> QED  BY <2>2, <2>3
<1>13. Fresh'
  <2>1. \A k \in 1..n : (session.skip /\ session.cur = wire[k].id) \/ Before(wire[k].call)
    BY <1>8 DEF Fresh, n
  <2>2. \A k \in 1..(n + 1) : (session.skip /\ session.cur = wire'[k].id) \/ Before(wire'[k].call)
    BY <1>1, <1>5, <1>6, <2>1
  <2> QED  BY <1>5, <1>7, <2>2 DEF Fresh, Before
<1>14. \A k \in 1..(n + 1) : wire'[k].id = id => wire'[k].seq < pos + 1
  <2>1. \A k \in 1..n : wire[k].seq \in Nat /\ (wire[k].id = id => wire[k].seq < pos)
    BY <1>4 DEF OnceInv, Written, n
  <2> QED  BY <1>1, <1>5, <1>6, <2>1
<1> QED  BY <1>5, <1>10, <1>11, <1>12, <1>13, <1>14 DEF WireParts

LEMMA WriteOnce == ASSUME LinkInv, OnceInv, Write PROVE OnceInv' /\ CallsStep
<1>1. /\ cpc = "write" /\ wire' = Append(wire, Chunk(pos)) /\ pos' = pos + 1
      /\ cpc' \in {"write", "ack"}
      /\ UNCHANGED <<asked, id, got, outcome, up, session, runs, countVars>>
  BY DEF Write
<1>2. Ran' = Ran
  BY <1>1 DEF Ran
<1>3. WireParts' /\ \A k \in 1..Len(wire') : wire'[k].id = id => wire'[k].seq < pos + 1
  BY <1>1, ChunkOnce
<1>4. Before(asked)
  BY <1>1 DEF OnceInv, Written
<1>5. Written' /\ Refused'
  BY <1>1, <1>2, <1>3, <1>4 DEF OnceInv, Written, Refused, Before
<1>6. Calling' /\ Answered' /\ Past' /\ Ready'
  BY <1>1, <1>2 DEF OnceInv, Calling, Answered, Past, Before, Ready
<1> QED  BY <1>1, <1>3, <1>5, <1>6, NoCall DEF OnceInv

LEMMA AcknowledgedOnce == ASSUME LinkInv, OnceInv, Acknowledged PROVE OnceInv' /\ CallsStep
<1>1. /\ cpc = "ack" /\ cpc' = "read"
      /\ UNCHANGED <<asked, id, pos, got, outcome, wire, up, session, runs, countVars>>
  BY DEF Acknowledged
<1>2. Ran' = Ran
  BY <1>1 DEF Ran
<1>3. WireParts'
  BY <1>1, RestFacts, WirePartsKept DEF SessionRead
<1>4. Calling' /\ Answered' /\ Past' /\ Ready' /\ Written' /\ Refused'
  BY <1>1, <1>2 DEF OnceInv, Calling, Answered, Past, Before, Ready, Written, Refused
<1> QED  BY <1>1, <1>3, <1>4, NoCall DEF OnceInv

\* What a read leaves.
LEMMA ReadOnce ==
  ASSUME LinkInv, OnceInv, session' = AfterRead(session), UNCHANGED <<wire, runs>>
  PROVE  /\ UNCHANGED <<id, asked>> => WireParts'
         /\ Ready' /\ Ran' = Ran /\ session'.error = "none" /\ Refused'
         /\ session'.first = session.first /\ session'.cur = session.cur
         /\ session'.skip = session.skip
<1>1. SessionOK(session)
  BY DEF LinkInv
<1>2. /\ session'.first = session.first /\ session'.cur = session.cur
      /\ session'.skip = session.skip /\ session'.resp = session.resp
      /\ session'.ready => session.ready
  BY <1>1, AfterReadOK
<1>3. session'.error = "none"
  BY <1>1, AfterReadClears
<1>4. Ran' = Ran
  BY DEF Ran
<1>5. UNCHANGED <<id, asked>> => WireParts'
  BY <1>2, RestFacts, WirePartsKept
<1>6. Ready' /\ Refused'
  BY <1>2, <1>3, <1>4 DEF OnceInv, Ready, Refused
<1> QED  BY <1>2, <1>3, <1>4, <1>5, <1>6

LEMMA ReadFirstOnce == ASSUME LinkInv, OnceInv, ReadFirst PROVE OnceInv' /\ CallsStep
<1> DEFINE chunk == ResponseChunk(session)
<1>1. /\ cpc \in {"read", "reread"} /\ session' = AfterRead(session)
      /\ UNCHANGED <<wire, runs>> /\ UNCHANGED faults
  BY DEF ReadFirst, countVars
<1>2. /\ UNCHANGED <<id, asked>> => WireParts'
      /\ Ready' /\ Ran' = Ran /\ session'.error = "none" /\ Refused'
      /\ session'.first = session.first /\ session'.cur = session.cur
      /\ session'.skip = session.skip
  BY <1>1, ReadOnce
<1>3. CASE chunk.kind = "nodata" /\ cpc' = "reread" /\ UNCHANGED <<asked, id, pos, got, outcome>>
  <2>1. Calling' /\ Answered' /\ Past' /\ Written'
    BY <1>1, <1>2, <1>3 DEF OnceInv, Calling, Answered, Past, Before, Written
  <2> QED  BY <1>1, <1>2, <1>3, <2>1, NoCall DEF OnceInv
<1>4. CASE GiveUp
  <2>1. UNCHANGED <<id, asked>>
    BY <1>4 DEF GiveUp, Finish
  <2> QED  BY <1>1, <1>2, <1>4, <2>1, FailOnce DEF OnceInv, CallsStep
<1>5. CASE chunk.kind = "missed" /\ Retry
  <2>1. /\ cpc' = "write" /\ pos' = 0 /\ UNCHANGED <<asked, outcome>> /\ wire = <<>>
    BY <1>1, <1>5 DEF Retry, Attempt, LinkInv, Reading
  <2>2. session.error = "missed" /\ ~session.first /\ session.cur = id
    <3>1. session.error = "missed" /\ SessionOK(session)
      BY <1>5, AfterReadOK DEF LinkInv
    <3>2. ~session.first
      BY <3>1 DEF OnceInv, Refused, SessionOK
    <3> QED  BY <1>1, <3>1, <3>2 DEF LinkInv, Reading
  <2>3. Before(asked)
    BY <1>1, <2>2 DEF OnceInv, Refused
  <2>4. Len(wire') = 0 /\ wire' = <<>>
    BY <1>1, <2>1
  <2>5. Ordered' /\ Latest' /\ Fresh' /\ InTurn'
    BY <2>4 DEF Ordered, Latest, Fresh, InTurn
  <2>6. Written'
    BY <1>2, <2>1, <2>3, <2>4 DEF Written, Before
  <2>7. Calling' /\ Answered' /\ Past'
    BY <1>1, <1>2, <2>1 DEF OnceInv, Calling, Answered, Past, Before
  <2> QED  BY <1>1, <1>2, <2>1, <2>5, <2>6, <2>7, NoCall DEF OnceInv, WireParts
<1>6. CASE /\ chunk.kind = "data"
           /\ IF chunk.final THEN Finish("ok")
              ELSE cpc' = "more" /\ UNCHANGED <<asked, id, pos, outcome>>
  <2>1. UNCHANGED <<id, asked>>
    BY <1>6 DEF Finish
  <2>2. asked \in Ran
    BY <1>1, <1>6, FindsOwn DEF OnceInv, Ready
  <2>3. CASE chunk.final
    BY <1>1, <1>2, <1>6, <2>1, <2>2, <2>3, AnswerOnce DEF OnceInv, CallsStep
  <2>4. CASE ~chunk.final
    <3>1. Calling' /\ Answered' /\ Past' /\ Written'
      BY <1>1, <1>2, <1>6, <2>4 DEF OnceInv, Calling, Answered, Past, Before, Written
    <3> QED  BY <1>1, <1>2, <1>6, <2>4, <3>1, NoCall DEF OnceInv
  <2> QED  BY <2>3, <2>4
<1> QED  BY <1>3, <1>4, <1>5, <1>6 DEF ReadFirst

LEMMA ReadMoreOnce == ASSUME LinkInv, OnceInv, ReadMore PROVE OnceInv' /\ CallsStep
<1> DEFINE chunk == ResponseChunk(session)
<1>1. cpc = "more" /\ session' = AfterRead(session) /\ UNCHANGED <<wire, runs>>
  BY DEF ReadMore
<1>2. /\ UNCHANGED <<id, asked>> => WireParts'
      /\ Ready' /\ Ran' = Ran /\ session'.error = "none" /\ Refused'
  BY <1>1, ReadOnce
<1>3. CASE GiveUp
  <2>1. UNCHANGED <<id, asked>>
    BY <1>3 DEF GiveUp, Finish
  <2> QED  BY <1>1, <1>2, <1>3, <2>1, FailOnce DEF OnceInv, CallsStep
<1>4. CASE /\ chunk.kind = "data"
           /\ IF chunk.final THEN Finish("ok") ELSE UNCHANGED <<cpc, asked, id, pos, outcome>>
  <2>1. UNCHANGED <<id, asked>>
    BY <1>4 DEF Finish
  <2>2. asked \in Ran
    BY <1>1, <1>4, FindsOwn DEF OnceInv, Ready
  <2>3. CASE chunk.final
    BY <1>1, <1>2, <1>4, <2>1, <2>2, <2>3, AnswerOnce DEF OnceInv, CallsStep
  <2>4. CASE ~chunk.final
    <3>1. Calling' /\ Answered' /\ Past' /\ Written'
      BY <1>1, <1>2, <1>4, <2>4 DEF OnceInv, Calling, Answered, Past, Before, Written
    <3> QED  BY <1>1, <1>2, <1>4, <2>4, <3>1, NoCall DEF OnceInv
  <2> QED  BY <2>3, <2>4
<1> QED  BY <1>3, <1>4 DEF ReadMore

LEMMA RejectOnce == ASSUME LinkInv, OnceInv, Reject PROVE OnceInv' /\ CallsStep
<1>1. cpc # "idle" /\ GiveUp /\ cpc' = "idle" /\ UNCHANGED <<id, asked, runs>>
  BY DEF Reject, GiveUp, Finish
<1>2. /\ Calling' /\ Answered' /\ Past' /\ Written'
      /\ CallsStep
  BY <1>1, FailOnce DEF CallsStep
<1>3. Ran' = Ran
  BY <1>1 DEF Ran
<1>4. CASE UNCHANGED session /\ cpc = "write" /\ wire' = Append(wire, Chunk(pos))
  <2>1. WireParts'
    BY <1>1, <1>4, ChunkOnce
  <2>2. Ready' /\ Refused'
    BY <1>1, <1>3, <1>4 DEF OnceInv, Ready, Refused
  <2> QED  BY <1>2, <2>1, <2>2 DEF OnceInv
<1>5. CASE /\ UNCHANGED session
           /\ UNCHANGED wire \/ (wire # <<>> /\ wire' = SubSeq(wire, 1, Len(wire) - 1))
  <2>1. WireParts'
    BY <1>1, <1>5, RestFacts, WirePartsKept
  <2>2. Ready' /\ Refused'
    BY <1>1, <1>3, <1>5 DEF OnceInv, Ready, Refused
  <2> QED  BY <1>2, <2>1, <2>2 DEF OnceInv
<1>6. CASE session' = AfterRead(session) /\ UNCHANGED wire
  <2>1. WireParts' /\ Ready' /\ Refused'
    BY <1>1, <1>6, ReadOnce
  <2> QED  BY <1>2, <2>1 DEF OnceInv
<1> QED  BY <1>4, <1>5, <1>6 DEF Reject

LEMMA LoseOnce == ASSUME LinkInv, OnceInv, Lose PROVE OnceInv' /\ CallsStep
<1>1. wire # <<>> /\ wire' = Tail(wire)
      /\ UNCHANGED <<cpc, asked, id, pos, got, outcome, session, runs>>
  BY DEF Lose, clientVars
<1>2. Ran' = Ran
  BY <1>1 DEF Ran
<1>3. RestFrom(1)
  BY <1>1, RestFacts
<1>4. WireParts'
  BY <1>1, <1>3, WirePartsKept
<1>5. Written'
  <2>1. \A k \in 1..Len(wire') : \E l \in 1..Len(wire) : wire'[k] = wire[l]
    BY <1>3 DEF RestFrom
  <2> QED  BY <1>1, <1>2, <2>1 DEF OnceInv, Written, Before
<1>6. Calling' /\ Answered' /\ Past' /\ Ready' /\ Refused'
  BY <1>1, <1>2 DEF OnceInv, Calling, Answered, Past, Before, Ready, Refused
<1> QED  BY <1>1, <1>4, <1>5, <1>6, NoCall DEF OnceInv

LEMMA DropOnce == ASSUME LinkInv, OnceInv, Drop PROVE OnceInv' /\ CallsStep
<1>1. wire' = <<>> /\ session' = NewSession /\ UNCHANGED runs
  BY DEF Drop
<1>2. Ran' = Ran /\ Len(wire') = 0
  BY <1>1 DEF Ran
<1>3. session'.first /\ ~session'.ready /\ session'.error = "none"
  BY <1>1, NewSessionOK DEF NewSession, Reset
<1>4. Ready' /\ Refused'
  BY <1>3 DEF Ready, Refused
<1>5. CASE cpc = "ack" /\ GiveUp
  <2>1. UNCHANGED <<id, asked>>
    BY <1>5 DEF GiveUp, Finish
  <2>2. WireParts'
    BY <1>1, <1>3, <2>1, RestFacts, WirePartsKept
  <2> QED  BY <1>1, <1>4, <1>5, <2>2, FailOnce DEF OnceInv, CallsStep
<1>6. CASE UNCHANGED clientVars
  <2>1. UNCHANGED <<cpc, asked, id, pos, got, outcome>>
    BY <1>6 DEF clientVars
  <2>2. WireParts'
    BY <1>1, <1>3, <2>1, RestFacts, WirePartsKept
  <2>3. Calling' /\ Answered' /\ Past' /\ Written'
    BY <1>2, <2>1 DEF OnceInv, Calling, Answered, Past, Before, Written
  <2> QED  BY <1>1, <1>4, <2>1, <2>2, <2>3, NoCall DEF OnceInv
<1> QED  BY <1>5, <1>6 DEF Drop, GiveUp

LEMMA OtherOnce ==
  ASSUME LinkInv, OnceInv, Reconnect \/ UNCHANGED vars
  PROVE  OnceInv' /\ CallsStep
<1>1. UNCHANGED <<cpc, asked, id, pos, got, outcome, wire, session, runs>>
  BY DEF Reconnect, vars, clientVars, countVars
<1>2. Ran' = Ran
  BY <1>1 DEF Ran
<1>3. WireParts'
  BY <1>1, RestFacts, WirePartsKept
<1>4. Calling' /\ Answered' /\ Past' /\ Ready' /\ Written' /\ Refused'
  BY <1>1, <1>2 DEF OnceInv, Calling, Answered, Past, Before, Ready, Written, Refused
<1> QED  BY <1>1, <1>3, <1>4, NoCall DEF OnceInv

\* What the session makes of a chunk, and what that leaves of its error.
LEMMA ConsumeEnds ==
  ASSUME NEW s, SessionOK(s), ~s.skip => s.error = "none", NEW c, ChunkOK(c),
         ~(s.skip /\ s.cur = c.id)
  PROVE  LET t == Consume(s, c) IN
         /\ t.ready => t # s /\ t.error = "none" /\ t.skip /\ c.final
         /\ ~t.skip => t.error = "none"
<1> DEFINE r == IF s.first \/ c.id # s.cur THEN Reset(c.id) ELSE s
           t == Assemble(r, c)
<1>1. Consume(s, c) = t
  BY DEF Consume
<1>2. c.id \in Ids
  BY DEF ChunkOK, ChunkType
<1>3. SessionOK(r) /\ ~r.first /\ ~r.skip /\ r.cur = c.id /\ r.error = "none"
  BY <1>2, ResetOK DEF Reset
<1>4. (s.cur = c.id => ~s.ready) /\ s.skip \in BOOLEAN
  BY DEF SessionOK, SessionType
<1> HIDE DEF r
<1>5. SessionOK(t) /\ t.cur = c.id /\ (t.ready => c.final)
  BY <1>3, AssembleOK
<1>6. r \in SessionType
  BY <1>3 DEF SessionOK
<1>7. t.error = "none" \/ (t.skip /\ ~t.ready)
  BY <1>3, <1>6 DEF Assemble, Refuse, SessionType
<1>8. t.ready => t # s /\ t.skip
  <2> HIDE DEF t
  <2> QED  BY <1>4, <1>5 DEF SessionOK
<1> QED  BY <1>1, <1>5, <1>7, <1>8

\* The device runs the call of a chunk only when it has run none from it on, and then
\* skips what else there is of its message.
LEMMA DeliverOnce == ASSUME LinkInv, OnceInv, Deliver PROVE OnceInv' /\ CallsStep
<1> DEFINE c == wire[1]
           skipped == session.skip /\ session.cur = c.id
           n == Len(wire)
<1>1. /\ wire # <<>> /\ wire' = Tail(wire) /\ wire \in Seq(ChunkType)
      /\ UNCHANGED <<cpc, asked, id, pos, got, outcome>>
  BY DEF Deliver, LinkInv, WireOK, clientVars
<1>2. /\ Len(wire') = n - 1 /\ n \in Nat \ {0} /\ Head(wire) = c
      /\ \A k \in 1..Len(wire') : wire'[k] = wire[k + 1] /\ k + 1 \in 1..n
      /\ 1 \in 1..n
  BY <1>1, TailFacts
<1>3. /\ session' = Consume(session, c)
      /\ runs' = IF Completes(session, c) THEN Append(runs, session'.buf) ELSE runs
  BY <1>2 DEF Deliver
<1>4. ChunkOK(c) /\ SessionOK(session) /\ Belongs(session, c.id, c.call)
  BY <1>2 DEF LinkInv, WireOK, Same
<1>5. c.call \in CallIds /\ c.call \in Nat /\ asked \in Nat
  BY <1>4, RanTyped DEF ChunkOK, ChunkType, LinkInv, ClientTypes
<1>6. \A k \in 1..n : wire[k].call \in Nat
  BY RanTyped DEF LinkInv, WireOK, ChunkOK, ChunkType
<1>7. /\ ~session'.first /\ session'.cur = c.id
      /\ skipped => session' = session
      /\ ~skipped /\ session'.ready => session'.resp = c.call /\ session'.buf = Request(c.call)
  BY <1>3, <1>4, ConsumeOK
<1>8. ~skipped => /\ session'.ready => session' # session /\ session'.error = "none"
                                       /\ session'.skip /\ c.final
                  /\ ~session'.skip => session'.error = "none"
  BY <1>3, <1>4, ConsumeEnds DEF OnceInv, Refused
<1>9. Ordered /\ Latest /\ InTurn /\ Fresh /\ Same /\ Mine
  BY DEF OnceInv, WireParts, LinkInv
\* What is behind the chunk is of its message or of a later call.
<1>10. \A k \in 1..n : /\ c.call <= wire[k].call /\ c.call <= asked /\ wire[k].call <= asked
                       /\ wire[k].id = c.id <=> wire[k].call = c.call
                       /\ wire[k].call = asked <=> wire[k].id = id
  BY <1>2, <1>9 DEF Ordered, Latest, Same, Mine
<1>11. Ordered' /\ Latest'
  <2>1. \A k, l \in 1..Len(wire') : k <= l => k + 1 <= l + 1
    BY <1>2
  <2> QED  BY <1>1, <1>2, <1>9, <2>1 DEF Ordered, Latest
<1>12. Completes(session, c) <=> ~skipped /\ session'.ready
  BY <1>3, <1>7, <1>8 DEF Completes
<1> HIDE DEF c, n
<1>13. InTurn'
  <2>1. ASSUME NEW k \in 1..n, NEW l \in 1..n, l <= k, wire[k].id = c.id PROVE wire[l].id = c.id
    <3>1. wire[k].call = c.call /\ wire[l].call <= wire[k].call /\ c.call <= wire[l].call
      BY <1>9, <1>10, <2>1 DEF Ordered, n
    <3>2. wire[l].call = c.call
      BY <1>5, <1>6, <3>1
    <3> QED  BY <1>10, <3>2
  <2>2. ASSUME c.id = id, NEW k \in 1..n PROVE wire[k].id = id
    <3>1. c.call = asked
      BY <1>2, <1>10, <2>2 DEF c
    <3>2. wire[k].call = asked
      BY <1>5, <1>6, <1>10, <3>1
    <3> QED  BY <1>10, <3>2
  <2>3. \A k, l \in 1..Len(wire') : l <= k => l + 1 <= k + 1
    BY <1>2
  <2> QED  BY <1>1, <1>2, <1>7, <2>1, <2>2, <2>3 DEF InTurn
<1>14. CASE ~Completes(session, c)
  <2>1. runs' = runs /\ Ran' = Ran
    BY <1>3, <1>14 DEF Ran
  <2>2. Fresh'
    <3>1. \A k \in 1..n : (session.skip /\ session.cur = wire[k].id) \/ Before(wire[k].call)
      BY <1>9 DEF Fresh, n
    <3>2. ASSUME NEW k \in 1..n, session.skip, session.cur = wire[k].id
          PROVE  session'.skip /\ session'.cur = wire[k].id
      <4>1. ~session.first /\ 1 <= k
        BY <1>2, <1>4, <3>2 DEF SessionOK
      <4>2. c.id = session.cur
        BY <1>2, <1>9, <3>2, <4>1 DEF InTurn, n, c
      <4> QED  BY <1>7, <3>2, <4>2
    <3>3. \A k \in 1..n : (session'.skip /\ session'.cur = wire[k].id) \/ Before(wire[k].call)
      BY <3>1, <3>2
    <3> QED  BY <1>2, <2>1, <3>3 DEF Fresh, Before
  <2>3. Written'
    BY <1>1, <1>2, <2>1 DEF OnceInv, Written, Before, n
  <2>4. Calling' /\ Answered' /\ Past'
    BY <1>1, <2>1 DEF OnceInv, Calling, Answered, Past, Before
  <2>5. Ready'
    BY <1>7, <1>12, <1>14, <2>1 DEF OnceInv, Ready
  <2>6. Refused'
    <3>1. CASE skipped
      <4>1. session' = session
        BY <1>7, <3>1
      <4> QED  BY <1>1, <2>1, <4>1 DEF OnceInv, Refused, Before
    <3>2. CASE ~skipped
      <4>1. c.id = id /\ cpc \in {"ack", "read", "reread"} => Before(asked)
        <5>1. Before(c.call)
          BY <1>2, <1>9, <3>2 DEF Fresh, c, n
        <5>2. c.id = id => c.call = asked
          BY <1>2, <1>10 DEF c
        <5> QED  BY <5>1, <5>2
      <4> QED  BY <1>1, <1>7, <1>8, <2>1, <3>2, <4>1 DEF Refused, Before
    <3> QED  BY <3>1, <3>2
  <2> QED  BY <1>1, <1>11, <1>13, <2>1, <2>2, <2>3, <2>4, <2>5, <2>6, NoCall DEF OnceInv, WireParts
<1>15. CASE Completes(session, c)
  <2>1. ~skipped /\ session'.ready /\ session'.resp = c.call /\ session'.buf = Request(c.call)
        /\ session'.skip /\ session'.error = "none" /\ c.final
    BY <1>7, <1>8, <1>12, <1>15
  <2>2. Before(c.call) /\ c.call <= asked
    BY <1>2, <1>9, <1>10, <2>1 DEF Fresh, c, n
  <2>3. runs' = Append(runs, Request(c.call))
    BY <1>3, <1>15, <2>1
  <2>4. Ran' = Ran \cup {c.call} /\ CallsStep
    BY <1>1, <1>5, <2>2, <2>3, RunOnce DEF CallsStep
  <2>5. \A r \in Ran : r \in Nat
    BY RanTyped
  <2>6. Fresh'
    <3>1. ASSUME NEW k \in 1..n, wire[k].id # c.id PROVE \A r \in Ran' : r < wire[k].call
      <4>1. c.call < wire[k].call
        BY <1>5, <1>6, <1>10, <3>1
      <4> QED  BY <1>5, <1>6, <2>2, <2>4, <2>5, <4>1 DEF Before
    <3> QED  BY <1>2, <1>7, <2>1, <3>1 DEF Fresh, Before
  \* A message that is still being written has no last chunk on its way.
  <2>7. cpc = "write" => c.call < asked
    <3> SUFFICES ASSUME cpc = "write" PROVE c.call # asked
      BY <1>5, <2>2
    <3>1. \A k \in 1..n : wire[k].id = id => wire[k].seq < pos
      BY DEF OnceInv, Written, n
    <3>2. pos < RequestLen[asked] /\ pos \in Nat /\ asked \in CallIds
      BY DEF LinkInv, Writes, ClientTypes, Asking
    <3>3. c.seq + 1 = RequestLen[c.call] /\ c.seq \in Nat
      BY <1>4, <2>1, CallsAssumption DEF ChunkOK, ChunkType
    <3>4. c.call = asked => c.seq < pos
      BY <1>2, <1>10, <3>1 DEF c
    <3>5. RequestLen[asked] \in Nat
      BY <3>2, CallsAssumption
    <3> QED  BY <3>2, <3>3, <3>4, <3>5
  <2>8. Written' /\ Refused' /\ Ready'
    <3>1. cpc = "write" => \A k \in 1..Len(wire') : wire'[k].id = id => wire'[k].seq < pos
      BY <1>2 DEF OnceInv, Written, n
    <3>2. cpc = "write" => \A r \in Ran' : r < asked
      BY <2>4, <2>7 DEF OnceInv, Written, Before
    <3>3. Written'
      BY <1>1, <3>1, <3>2 DEF Written, Before
    <3> QED  BY <1>1, <2>1, <2>4, <3>3 DEF Refused, Ready
  <2>9. Calling' /\ Answered'
    BY <1>1, <2>4 DEF OnceInv, Calling, Answered
  <2>10. Past'
    BY <1>1, <1>5, <2>2, <2>4 DEF OnceInv, Past, Before
  <2> QED  BY <1>11, <1>13, <2>4, <2>6, <2>8, <2>9, <2>10 DEF OnceInv, WireParts
<1> QED  BY <1>14, <1>15

LEMMA OnceStep == ASSUME LinkInv, OnceInv, [Next]_vars PROVE OnceInv' /\ CallsStep
BY InvokeOnce, WriteOnce, AcknowledgedOnce, ReadFirstOnce, ReadMoreOnce, RejectOnce, DeliverOnce,
   LoseOnce, DropOnce, OtherOnce DEF Next, Client

\* The link implements RpcCalls: whatever is lost, rejected or late, and however often
\* ids wrap around, the device runs each call at most once and never after a later
\* one, and no call succeeds that has not run.
THEOREM CallsRunAtMostOnce == Spec => RunsAtMostOnce
<1>1. Init => RpcLink!CallsInit
  BY DEF Init, RpcLink!CallsInit, CallIds
<1>2. LinkInv /\ OnceInv /\ [Next]_vars => OnceInv' /\ [RpcLink!CallsNext]_(RpcLink!callVars)
  BY OnceStep DEF CallsStep
<1> QED  BY InitOnce, <1>1, <1>2, LinkInvariance, PTL DEF Spec, RunsAtMostOnce, RpcLink!CallsSpec
=============================================================================
