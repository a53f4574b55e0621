---------------------------- MODULE HistorySync -----------------------------
(***************************************************************************)
(* The temperature chart: the device keeps a log of the run                *)
(* (lib/sparse_history.hpp, heater/heater_control_base.cpp), the web       *)
(* application fetches it page by page (device/ble_backend/index.ts) and   *)
(* packs it once more (device/sparse_history.ts).                          *)
(*                                                                         *)
(* The last point of the log is provisional: unless it differs enough from *)
(* the one before (it has "landed") the next point replaces it.  Every run *)
(* has a version, by which a client knows that its chart is of another.    *)
(*                                                                         *)
(* The application's requests come one after the other                     *)
(* (timer_call_in_progress).  Meanwhile the user may leave the backend and *)
(* come back to it, and the device may restart.                            *)
(*                                                                         *)
(* On the device, three tasks meet at the log.  add and get_history take   *)
(* its lock; task_start, which clears the log and raises the version, and  *)
(* tick, which reads the time of its point before, do not.                 *)
(*                                                                         *)
(* Left out: the rounding of y to 32-bit floats on its way to the client;  *)
(* what the virtual device, which has its points in the same chart, leaves *)
(* there between detach and attach.                                        *)
(***************************************************************************)
EXTENDS Integers, SequencesExt

CONSTANTS
  Temps,        \* temperatures, in 1/100 degree
  YThreshold, XThreshold,   \* a point that differs by this much has landed
  ScaleAfter,   \* later than this times XThreshold, XThreshold grows
  MaxPoints,    \* MAX_POINTS of the log
  MaxChunk,     \* MAX_HISTORY_CHUNK, points in an answer
  MaxTime,      \* bound: seconds of a run
  MaxRuns,      \* bound: runs
  MaxChart,     \* bound: points of a chart, which has no end if the log's times go back
  MaxFaults     \* bound: restarts, failed calls, returns to the backend, and runs
                \* begun in the middle of a tick or of an answer

ASSUME TempsAssumption == Temps # {} /\ Temps \subseteq Int
ASSUME ThresholdAssumption ==
  YThreshold \in Nat \ {0} /\ XThreshold \in Nat \ {0} /\ ScaleAfter \in Nat \ {0}
\* An answer of one point would repeat what the client has for ever.
ASSUME SizeAssumption == MaxPoints \in Nat \ {0} /\ MaxChunk \in Nat /\ MaxChunk >= 2
ASSUME BoundsAssumption == {MaxTime, MaxRuns, MaxChart, MaxFaults} \subseteq Nat

VARIABLES
  data,      \* the device's log
  version,   \* history_version, 0 after a start
  active,    \* a run is on
  seconds,   \* history_last_recorded_ts
  begin,     \* how far task_start has come
  tick,      \* the second a tick is about to record, and the run it read it of
  late,      \* a tick of the run before has recorded in this one's log (history)
  chart,     \* the client's points
  cver,      \* client_history_version
  fpc,       \* what fetch_history does next
  req,       \* its request: the version it knows and where to go on
  answer,    \* the device's answer to it
  run,       \* runs since ever: the run the log is of (history)
  shown,     \* the run the chart was begun with (history)
  mixed,     \* the chart is put together from answers that do not fit (history)
  runs, faults

logVars  == <<data, version, active, seconds, begin, tick, late, run, runs>>
webVars  == <<chart, cver, shown, mixed>>
callVars == <<fpc, req, answer>>
vars == <<logVars, webVars, callVars, faults>>

Points == [x : 0..MaxTime, y : Temps]

TypeOK ==
  /\ data \in Seq(Points) /\ Len(data) <= MaxPoints
  /\ version \in 0..MaxRuns /\ active \in BOOLEAN /\ seconds \in 0..MaxTime
  /\ chart \in Seq(Points) /\ cver \in -1..MaxRuns
  /\ begin \in {"no", "cleared", "counted"} /\ late \in BOOLEAN
  /\ tick \in [x : 0..MaxTime, of : 0..MaxRuns]
  /\ fpc \in {"idle", "ask", "asked", "paged", "answered"}
  /\ req \in [version : -1..MaxRuns, from : 0..MaxTime]
  /\ answer.version \in 0..MaxRuns /\ answer.data \in Seq(Points)
  /\ Len(answer.data) <= MaxChunk
  /\ run \in 0..MaxRuns /\ shown \in 0..MaxRuns /\ mixed \in BOOLEAN

NoTick    == [x |-> 0, of |-> 0]
NoRequest == [version |-> -1, from |-> 0]
NoAnswer  == [version |-> 0, data |-> <<>>, run |-> 0]

Init ==
  /\ data = <<>> /\ version = 0 /\ active = FALSE /\ seconds = 0
  /\ begin = "no" /\ tick = NoTick /\ late = FALSE
  /\ chart = <<>> /\ cver = -1
  /\ fpc = "idle" /\ req = NoRequest /\ answer = NoAnswer
  /\ run = 0 /\ shown = 0 /\ mixed = FALSE
  /\ runs = 0 /\ faults = 0

(***************************************************************************)
(* Packing, on both sides.                                                 *)
(***************************************************************************)

Dist(a, b) == IF a < b THEN b - a ELSE a - b

\* add() over a rule for when the last point has landed.
Packed(s, p, landed) ==
  IF s # <<>> /\ Last(s) = p THEN s
  ELSE IF landed THEN Append(s, p) ELSE Front(s) \o <<p>>

\* The device divides integers.
LogLanded(s) ==
  \/ Len(s) < 2
  \/ LET last == Last(s)  prev == s[Len(s) - 1] IN
     \/ Dist(last.y, prev.y) >= YThreshold
     \/ /\ last.x - prev.x >= XThreshold
        /\ last.x - prev.x >= last.x \div ScaleAfter

\* add() refuses what does not fit.
LogAdd(s, p) ==
  IF LogLanded(s) /\ Len(s) = MaxPoints THEN s ELSE Packed(s, p, LogLanded(s))

\* The client divides floating-point numbers: past ScaleAfter * XThreshold it
\* asks for more than the device does.
WebLanded(s) ==
  \/ Len(s) < 2
  \/ LET last == Last(s)  prev == s[Len(s) - 1] IN
     \/ Dist(last.y, prev.y) >= YThreshold
     \/ /\ Dist(last.x, prev.x) >= XThreshold
        /\ Dist(last.x, prev.x) * ScaleAfter >= last.x

WebAdd(s, p) == Packed(s, p, WebLanded(s))

\* add(...points), one after the other: what it comes to after each of them.
WebAdding(s, points) ==
  LET after[k \in 0..Len(points)] == IF k = 0 THEN s ELSE WebAdd(after[k - 1], points[k])
  IN after
WebAddAll(s, points) == WebAdding(s, points)[Len(points)]

(***************************************************************************)
(* The device.                                                             *)
(***************************************************************************)

\* An event that costs one of MaxFaults, if it is one.
Costs(event) ==
  /\ event => faults < MaxFaults
  /\ faults' = IF event THEN faults + 1 ELSE faults

\* task_start: the log is cleared, without its lock,
ClearLog ==
  /\ ~active /\ begin = "no" /\ begin' = "cleared" /\ runs < MaxRuns
  /\ data' = <<>> /\ late' = FALSE
  /\ Costs(tick # NoTick)
  /\ UNCHANGED <<version, active, seconds, tick, run, runs, webVars, callVars>>

\* the run is counted, be it in the middle of an answer,
CountRun ==
  /\ begin = "cleared" /\ begin' = "counted"
  /\ version' = version + 1 /\ runs' = runs + 1 /\ run' = runs' /\ seconds' = 0
  /\ Costs(fpc = "paged")
  /\ UNCHANGED <<data, active, tick, late, webVars, callVars>>

\* and given its first point.
FirstPoint ==
  /\ begin = "counted" /\ begin' = "no" /\ active' = TRUE
  /\ fpc # "paged"
  /\ \E y \in Temps : data' = LogAdd(data, [x |-> 0, y |-> y])
  /\ UNCHANGED <<version, seconds, tick, late, run, runs, webVars, callVars, faults>>

\* tick sees that a run is on and reads the time, once a second,
TickReads ==
  /\ active /\ tick = NoTick /\ seconds < MaxTime
  /\ tick' = [x |-> seconds + 1, of |-> run]
  /\ UNCHANGED <<data, version, active, seconds, begin, late, run, runs, webVars, callVars, faults>>

\* and records. If another run begins meanwhile, the time is still that of the run
\* before or, counted from the new start, wraps around to one that is out of reach.
Record ==
  /\ tick # NoTick /\ tick' = NoTick
  /\ fpc # "paged"
  /\ \E x \in {tick.x} \cup {t \in {MaxTime} : tick.of # run}, y \in Temps :
       IF x > seconds
       THEN /\ data' = LogAdd(data, [x |-> x, y |-> y]) /\ seconds' = x
            /\ late' = (late \/ begin = "cleared" \/ tick.of # run)
       ELSE UNCHANGED <<data, seconds, late>>
  /\ UNCHANGED <<version, active, begin, run, runs, webVars, callVars, faults>>

StopRun ==
  /\ active /\ active' = FALSE
  /\ UNCHANGED <<data, version, seconds, begin, tick, late, run, runs, webVars, callVars, faults>>

\* The log and its version are gone, and so is the call.
Reboot ==
  /\ faults < MaxFaults /\ faults' = faults + 1
  /\ data' = <<>> /\ version' = 0 /\ active' = FALSE /\ seconds' = 0 /\ run' = 0
  /\ begin' = "no" /\ tick' = NoTick /\ late' = FALSE
  /\ fpc' = "idle" /\ req' = NoRequest /\ answer' = NoAnswer
  /\ UNCHANGED <<runs, webVars>>

\* get_history: from the beginning if the client knows another version, else past the
\* last point that is before from.
Skipped(known, from) ==
  LET before == {i \in DOMAIN data : data[i].x < from} IN
  IF known # version \/ before = {} \/ (Head(data).x >= from /\ Last(data).x >= from)
  THEN 0 ELSE Max(before)

\* Mutant: the search from the back stops one point late.
PageLate(known, from) ==
  LET skip == Skipped(known, from)
  IN SubSeq(data, skip + 2, IF skip + MaxChunk < Len(data) THEN skip + MaxChunk ELSE Len(data))

\* A chunk of what follows.
Page(known, from) ==
  LET skip == Skipped(known, from)
  IN SubSeq(data, skip + 1, IF skip + MaxChunk < Len(data) THEN skip + MaxChunk ELSE Len(data))

\* The points are found under the lock.
Answer ==
  /\ fpc = "asked" /\ fpc' = "paged"
  /\ answer' = [version |-> version, data |-> Page(req.version, req.from), run |-> run]
  /\ UNCHANGED <<logVars, webVars, req, faults>>

\* "Fill protobuf struct": the version is read once more.
Fill ==
  /\ fpc = "paged" /\ fpc' = "answered"
  /\ answer' = [version |-> version, data |-> answer.data, run |-> answer.run]
  /\ UNCHANGED <<logVars, webVars, req, faults>>

(***************************************************************************)
(* The client.                                                             *)
(***************************************************************************)

\* The timer, or fetch_history itself after an answer that may be cut off.
Ask ==
  /\ fpc \in {"idle", "ask"} /\ fpc' = "asked"
  /\ req' = [version |-> cver, from |-> IF chart = <<>> THEN 0 ELSE Last(chart).x]
  /\ UNCHANGED <<logVars, webVars, answer, faults>>

Again == fpc' = IF Len(answer.data) >= MaxChunk THEN "ask" ELSE "idle"
Done == req' = NoRequest /\ answer' = NoAnswer

\* Mutant: the chart is replaced, and its version forgotten.
ReplaceForget ==
  /\ fpc = "answered" /\ answer.version # cver
  /\ chart' = answer.data /\ shown' = answer.run
  /\ mixed' = (req.version = answer.version)
  /\ Again /\ Done
  /\ UNCHANGED <<cver, logVars, faults>>

\* "Full replace". The answer to a request of before the user left and came back
\* is not the whole.
Replace ==
  /\ fpc = "answered" /\ answer.version # cver
  /\ cver' = answer.version /\ chart' = answer.data /\ shown' = answer.run
  /\ mixed' = (req.version = answer.version)
  /\ Again /\ Done
  /\ UNCHANGED <<logVars, faults>>

\* "Merge update". Another run may have the same version after a restart.
Merge ==
  /\ fpc = "answered" /\ answer.version = cver
  /\ Len(chart) + Len(answer.data) <= MaxChart
  /\ chart' = WebAddAll(chart, answer.data)
  /\ mixed' = (mixed \/ answer.run # shown)
  /\ Again /\ Done
  /\ UNCHANGED <<cver, shown, logVars, faults>>

\* The call throws; the timer catches it.
Fail ==
  /\ fpc \in {"asked", "answered"} /\ faults < MaxFaults /\ faults' = faults + 1
  /\ fpc' = "idle" /\ Done
  /\ UNCHANGED <<logVars, webVars>>

\* detach and attach; a call under way goes on.
Attach ==
  /\ faults < MaxFaults /\ faults' = faults + 1
  /\ cver' = -1
  /\ UNCHANGED <<logVars, chart, shown, mixed, callVars>>

Next == \/ ClearLog \/ CountRun \/ FirstPoint \/ TickReads \/ Record \/ StopRun
        \/ Reboot \/ Answer \/ Fill
        \/ Ask \/ Replace \/ Merge \/ Fail \/ Attach

Spec == Init /\ [][Next]_vars

\* The timer of the page runs and the device answers. task_start goes on, too: what
\* comes between is one answer, whose lock passes on to who waits for it.
FairSpec ==
  /\ Spec
  /\ WF_vars(Ask) /\ WF_vars(Answer) /\ WF_vars(Fill) /\ WF_vars(Replace \/ Merge)
  /\ SF_vars(CountRun) /\ SF_vars(FirstPoint)

-----------------------------------------------------------------------------
(***************************************************************************)
(* Properties.                                                             *)
(***************************************************************************)

\* As far as the two sides divide alike.
Early(p) == p.x <= ScaleAfter * XThreshold

\* get_history and fetch_history: a chart that is not mixed is, up to its last
\* point, exactly the log. Nothing is left out, shown twice or kept that the
\* device has replaced, wherever the pages were cut and whatever came between. But
\* where a late tick has put its point the times of the log may go back, and while
\* the log is cleared for the next run the chart still shows the last.
ChartIsTheLog ==
  ~mixed /\ ~late /\ begin # "cleared" /\ shown = run /\ chart # <<>> =>
    LET before(s) == {i \in DOMAIN s : Early(s[i]) /\ s[i].x < Last(chart).x}
    IN before(chart) = before(data) /\ \A i \in before(chart) : chart[i] = data[i]

\* With the types of the state: what the chart relies on.
ChartOK == TypeOK /\ ChartIsTheLog

\* fetch_history: a client that goes on asking has the end of the log in the end. (In
\* a log whose times go back it may ask for the same page for ever.)
UpToDate ==
  /\ cver = version
  /\ chart = <<>> <=> data = <<>>
  /\ chart # <<>> => Last(chart) = Last(data)
CatchesUp == <>[](mixed \/ late \/ UpToDate)
=============================================================================
