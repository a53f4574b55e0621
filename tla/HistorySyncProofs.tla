------------------------- MODULE HistorySyncProofs --------------------------
(***************************************************************************)
(* Proofs about HistorySync, for any temperatures, thresholds, sizes and   *)
(* numbers of runs and faults: a chart that is not mixed is the log, up to *)
(* its last point (ChartOK), and none is mixed before the first fault.     *)
(*                                                                         *)
(* The log goes on between two looks at it, so the invariant relates what  *)
(* a client has to all that the log may have become since: what was        *)
(* fetched is Behind the log, the same up to its last point, and that one  *)
(* is the same or has been replaced.  Behind is transitive, and whatever   *)
(* add() does to a log leaves it ahead of what it was.                     *)
(***************************************************************************)
EXTENDS HistorySync, WellFoundedInduction, TLAPS

(***************************************************************************)
(* Counting up.                                                            *)
(***************************************************************************)
LEMMA LeastNumber ==
  ASSUME NEW T \in SUBSET Nat, T # {}
  PROVE  \E m \in T : \A x \in T : m <= x
<1>1. PICK m \in T : \A x \in T : ~(<<x, m>> \in OpToRel(<, Nat))
  BY WFMin, NatLessThanWellFounded, Zenon
<1>2. \A x \in T : x < m => <<x, m>> \in OpToRel(<, Nat)
  BY Zenon DEF OpToRel
<1>3. \A x \in T : ~(x < m)
  BY <1>1, <1>2, Zenon
<1>4. \A x \in T : m <= x
  BY <1>3
<1> QED  BY <1>4

\* A set that has 0, and with every number the next, has them all.
LEMMA Upward ==
  ASSUME NEW n \in Nat, NEW G, 0 \in G, \A k \in 0..n : k # n /\ k \in G => k + 1 \in G
  PROVE  \A k \in 0..n : k \in G
<1> DEFINE Bad == {k \in 0..n : k \notin G}
<1>1. ASSUME Bad # {} PROVE FALSE
  <2>1. Bad \in SUBSET Nat
    OBVIOUS
  <2>2. PICK k \in Bad : \A x \in Bad : k <= x
    <3> HIDE DEF Bad
    <3> QED  BY <1>1, <2>1, LeastNumber
  <2>3. k \in 0..n /\ k \notin G /\ k # 0
    BY <2>2
  <2>4. k - 1 \in 0..n /\ k - 1 # n /\ ~(k <= k - 1)
    BY <2>3
  <2>5. k - 1 \in G
    BY <2>2, <2>4
  <2>6. (k - 1) + 1 \in G
    BY <2>4, <2>5
  <2> QED  BY <2>3, <2>6
<1> QED  BY <1>1

LEMMA MaxIs ==
  ASSUME NEW n \in Nat, NEW S \in SUBSET (1..n), S # {}
  PROVE  Max(S) \in S /\ \A x \in S : x <= Max(S)
<1> DEFINE T == {n - x : x \in S}
<1>1. T \in SUBSET Nat /\ T # {}
  <2>1. \A x \in S : n - x \in Nat
    OBVIOUS
  <2>2. PICK x \in S : TRUE
    OBVIOUS
  <2>3. n - x \in T
    BY <2>2
  <2> QED  BY <2>1, <2>3
<1>2. PICK m \in T : \A x \in T : m <= x
  <2> HIDE DEF T
  <2> QED  BY <1>1, LeastNumber
<1>3. PICK k \in S : m = n - k
  OBVIOUS
<1>4. \A x \in S : k >= x
  <2> SUFFICES ASSUME NEW x \in S PROVE k >= x
    OBVIOUS
  <2>1. m <= n - x
    BY <1>2
  <2> QED  BY <1>3, <2>1
<1>5. Max(S) \in S /\ \A x \in S : Max(S) >= x
  BY <1>4, Zenon DEF Max
<1> QED  BY <1>5

(***************************************************************************)
(* Points, and the sequences that add() makes of them.                     *)
(***************************************************************************)
LEMMA Bounds ==
  /\ MaxTime \in Nat /\ MaxRuns \in Nat /\ MaxFaults \in Nat
  /\ MaxPoints \in Nat \ {0} /\ MaxChunk \in Nat /\ MaxChunk >= 2
  /\ YThreshold \in Nat \ {0} /\ XThreshold \in Nat \ {0} /\ ScaleAfter \in Nat \ {0}
BY BoundsAssumption, SizeAssumption, ThresholdAssumption

LEMMA PointsTyped == \A p \in Points : p.x \in 0..MaxTime /\ p.x \in Nat /\ p.y \in Int
<1>1. \A p \in Points : p.x \in 0..MaxTime /\ p.y \in Temps
  BY DEF Points
<1>2. \A t \in Temps : t \in Int
  BY TempsAssumption
<1>3. \A x \in 0..MaxTime : x \in Nat
  BY Bounds
<1> QED  BY <1>1, <1>2, <1>3, Zenon

LEMMA LastTyped ==
  ASSUME NEW s \in Seq(Points), s # <<>>
  PROVE  /\ Len(s) \in Nat \ {0} /\ Len(s) \in DOMAIN s
         /\ Last(s) = s[Len(s)] /\ Last(s) \in Points
         /\ Front(s) \in Seq(Points) /\ Len(Front(s)) = Len(s) - 1
         /\ \A i \in 1..Len(s) - 1 : Front(s)[i] = s[i]
<1>1. Len(s) \in Nat \ {0} /\ DOMAIN s = 1..Len(s)
  OBVIOUS
<1>2. Last(s) = s[Len(s)]
  BY DEF Last
<1>3. Front(s) = SubSeq(s, 1, Len(s) - 1)
  BY DEF Front
<1> QED  BY <1>1, <1>2, <1>3

LEMMA Joined ==
  ASSUME NEW s \in Seq(Points), NEW t \in Seq(Points)
  PROVE  /\ s \o t \in Seq(Points) /\ Len(s \o t) = Len(s) + Len(t)
         /\ \A i \in 1..Len(s) : (s \o t)[i] = s[i]
         /\ \A i \in 1..Len(t) : (s \o t)[Len(s) + i] = t[i]
OBVIOUS

LEMMA SamePoints ==
  ASSUME NEW s \in Seq(Points), NEW t \in Seq(Points), Len(s) = Len(t),
         \A i \in 1..Len(s) : s[i] = t[i]
  PROVE  s = t
OBVIOUS

\* The three things that may become of the last point.
Kept(s, p, q)     == s # <<>> /\ Last(s) = p /\ q = s
Appended(s, p, q) == /\ Len(q) = Len(s) + 1 /\ q[Len(s) + 1] = p
                     /\ \A i \in 1..Len(s) : q[i] = s[i]
Replaced(s, p, q) == /\ s # <<>> /\ Len(q) = Len(s) /\ q[Len(s)] = p
                     /\ \A i \in 1..Len(s) - 1 : q[i] = s[i]

LEMMA PackedIs ==
  ASSUME NEW s \in Seq(Points), NEW p \in Points, NEW landed, s = <<>> => landed,
         NEW q, q = Packed(s, p, landed)
  PROVE  /\ q \in Seq(Points) /\ q # <<>> /\ Last(q) = p
         /\ \/ Kept(s, p, q)
            \/ landed /\ Appended(s, p, q)
            \/ ~landed /\ Replaced(s, p, q)
<1>1. CASE s # <<>> /\ Last(s) = p
  BY <1>1 DEF Packed, Kept
<1>2. CASE ~(s # <<>> /\ Last(s) = p) /\ landed
  <2>1. q = Append(s, p)
    BY <1>2 DEF Packed
  <2>2. q \in Seq(Points) /\ Appended(s, p, q) /\ Len(q) = Len(s) + 1 /\ q[Len(s) + 1] = p
    BY <2>1 DEF Appended
  <2>3. q # <<>> /\ Last(q) = p
    BY <2>2 DEF Last
  <2> QED  BY <1>2, <2>2, <2>3
<1>3. CASE ~(s # <<>> /\ Last(s) = p) /\ ~landed
  <2> DEFINE f == Front(s)
  <2>1. s # <<>> /\ q = f \o <<p>>
    BY <1>3 DEF Packed
  <2>2. /\ f \in Seq(Points) /\ Len(f) = Len(s) - 1 /\ Len(s) \in Nat \ {0}
        /\ \A i \in 1..Len(s) - 1 : f[i] = s[i]
    BY <2>1, LastTyped
  <2> HIDE DEF f
  <2>3. q \in Seq(Points) /\ Len(q) = Len(s)
    BY <2>1, <2>2
  <2>4. q[Len(s)] = p
    BY <2>1, <2>2
  <2>5. \A i \in 1..Len(s) - 1 : q[i] = s[i]
    BY <2>1, <2>2
  <2>6. q # <<>> /\ Last(q) = p
    BY <2>2, <2>3, <2>4 DEF Last
  <2> QED  BY <1>3, <2>1, <2>3, <2>4, <2>5, <2>6 DEF Replaced
<1> QED  BY <1>1, <1>2, <1>3

(***************************************************************************)
(* The log.                                                                *)
(***************************************************************************)

\* Far enough from the one before to stay.
LogFar(prev, last) ==
  \/ Dist(last.y, prev.y) >= YThreshold
  \/ /\ last.x - prev.x >= XThreshold
     /\ last.x - prev.x >= last.x \div ScaleAfter

\* What a log is like: in the order of time, and but for its last point landed.
IsLog(s) ==
  /\ \A i, j \in DOMAIN s : i < j => s[i].x < s[j].x
  /\ \A i \in DOMAIN s : 1 < i /\ i < Len(s) => LogFar(s[i - 1], s[i])

\* A log that may have become d since.
Behind(s, d) ==
  /\ Len(s) <= Len(d)
  /\ \A i \in DOMAIN s : i < Len(s) => s[i] = d[i]
  /\ s # <<>> => \/ Last(s) = d[Len(s)]
                 \/ Last(s).x < d[Len(s)].x /\ ~LogLanded(s)

LEMMA LogLandedIs ==
  ASSUME NEW s
  PROVE  LogLanded(s) <=> Len(s) < 2 \/ LogFar(s[Len(s) - 1], Last(s))
BY DEF LogLanded, LogFar

LEMMA BehindItself == ASSUME NEW s \in Seq(Points) PROVE Behind(s, s)
BY LastTyped DEF Behind

LEMMA BehindOn ==
  ASSUME NEW s \in Seq(Points), NEW d \in Seq(Points), NEW e \in Seq(Points),
         Behind(s, d), Behind(d, e)
  PROVE  Behind(s, e)
<1>1. /\ DOMAIN s = 1..Len(s) /\ DOMAIN d = 1..Len(d) /\ DOMAIN e = 1..Len(e)
      /\ Len(s) \in Nat /\ Len(d) \in Nat /\ Len(e) \in Nat
  OBVIOUS
<1>2. Len(s) <= Len(d) /\ Len(d) <= Len(e)
  BY DEF Behind
<1>3. \A i \in DOMAIN s : i < Len(s) => s[i] = e[i]
  <2> SUFFICES ASSUME NEW i \in DOMAIN s, i < Len(s) PROVE s[i] = e[i]
    OBVIOUS
  <2>1. i \in DOMAIN d /\ i < Len(d)
    BY <1>1, <1>2
  <2> QED  BY <2>1 DEF Behind
<1>4. ASSUME s # <<>> PROVE \/ Last(s) = e[Len(s)]
                            \/ Last(s).x < e[Len(s)].x /\ ~LogLanded(s)
  <2> DEFINE m == Len(s)
  <2>1. m \in 1..Len(d) /\ m \in 1..Len(e) /\ d # <<>> /\ m \in Nat \ {0}
    BY <1>1, <1>2, <1>4, LastTyped
  <2>2. Last(s) = d[m] \/ (Last(s).x < d[m].x /\ ~LogLanded(s))
    BY <1>4 DEF Behind
  <2>3. CASE m < Len(d)
    <3>1. d[m] = e[m]
      BY <1>1, <2>1, <2>3 DEF Behind
    <3> QED  BY <2>2, <3>1
  <2>4. CASE m = Len(d)
    <3>1. d[m] = e[m] \/ (d[m].x < e[m].x /\ ~LogLanded(d))
      BY <2>1, <2>4, LastTyped DEF Behind
    <3>2. CASE d[m] = e[m]
      BY <2>2, <3>2
    <3>3. CASE d[m].x < e[m].x /\ ~LogLanded(d)
      <4>1. CASE Last(s) = d[m]
        <5>1. Len(d) >= 2 /\ ~LogFar(d[m - 1], d[m])
          <6>1. ~(Len(d) < 2) /\ ~LogFar(d[Len(d) - 1], Last(d))
            BY <3>3, LogLandedIs, Zenon
          <6>2. Last(d) = d[m]
            BY <2>1, <2>4, LastTyped
          <6> QED  BY <1>1, <2>4, <6>1, <6>2
        <5>2. s[m - 1] = d[m - 1]
          BY <1>1, <2>1, <2>4, <5>1 DEF Behind
        <5>3. ~LogLanded(s)
          <6>1. ~(Len(s) < 2) /\ ~LogFar(s[Len(s) - 1], Last(s))
            BY <1>1, <2>4, <4>1, <5>1, <5>2
          <6> QED  BY <6>1, LogLandedIs, Zenon
        <5> QED  BY <3>3, <4>1, <5>3
      <4>2. CASE Last(s).x < d[m].x /\ ~LogLanded(s)
        <5>1. Last(s).x \in Nat /\ d[m].x \in Nat /\ e[m].x \in Nat
          <6>1. Last(s) \in Points /\ d[m] \in Points /\ e[m] \in Points
            BY <1>4, <2>1, LastTyped
          <6> QED  BY <6>1, PointsTyped
        <5> QED  BY <3>3, <4>2, <5>1
      <4> QED  BY <2>2, <4>1, <4>2
    <3> QED  BY <3>1, <3>2, <3>3
  <2>5. m < Len(d) \/ m = Len(d)
    <3>1. m <= Len(d) /\ Len(d) \in Nat
      BY <1>1, <1>2
    <3> HIDE DEF m
    <3> QED  BY <2>1, <3>1
  <2> QED  BY <2>3, <2>4, <2>5
<1> QED  BY <1>1, <1>2, <1>3, <1>4 DEF Behind

\* A log that goes on stays one, and ahead of what it was.
LEMMA LogGoesOn ==
  ASSUME NEW d \in Seq(Points), IsLog(d), Len(d) <= MaxPoints,
         NEW p \in Points, \A i \in DOMAIN d : d[i].x < p.x,
         NEW e, e = LogAdd(d, p)
  PROVE  /\ e \in Seq(Points) /\ Len(e) <= MaxPoints /\ IsLog(e) /\ Behind(d, e)
         /\ \A i \in DOMAIN e : e[i].x <= p.x
<1> DEFINE n == Len(d)
           landed == LogLanded(d)
<1>1. n \in Nat /\ DOMAIN d = 1..n /\ \A i \in DOMAIN d : d[i] \in Points /\ d[i].x \in Nat
  BY PointsTyped
<1>2. p.x \in Nat
  BY PointsTyped
<1>3. d = <<>> => landed
  BY DEF LogLanded
<1>4. d # <<>> => n \in DOMAIN d /\ Last(d) = d[n]
  BY LastTyped
<1>5. CASE e = d
  <2>1. \A i \in DOMAIN e : e[i].x <= p.x
    BY <1>1, <1>2, <1>5
  <2> QED  BY <1>5, <2>1, BehindItself
<1>6. CASE e # d
  <2>1. e = Packed(d, p, landed) /\ ~(landed /\ Len(d) = MaxPoints)
    BY <1>6 DEF LogAdd
  <2>2. /\ e \in Seq(Points)
        /\ (landed /\ Appended(d, p, e)) \/ (~landed /\ Replaced(d, p, e))
    <3> HIDE DEF landed
    <3>1. \/ Kept(d, p, e) \/ (landed /\ Appended(d, p, e)) \/ (~landed /\ Replaced(d, p, e))
      BY <1>3, <2>1, PackedIs
    <3>2. e \in Seq(Points)
      BY <1>3, <2>1, PackedIs
    <3> QED  BY <1>6, <3>1, <3>2 DEF Kept
  <2>3. CASE landed /\ Appended(d, p, e)
    <3>1. /\ Len(e) = n + 1 /\ DOMAIN e = 1..(n + 1)
          /\ e[n + 1] = p /\ \A i \in 1..n : e[i] = d[i]
      BY <2>2, <2>3 DEF Appended
    <3>2. Len(e) <= MaxPoints
      <4>1. n # MaxPoints
        BY <2>1, <2>3
      <4> HIDE DEF n
      <4>2. n <= MaxPoints /\ n \in Nat /\ Len(e) = n + 1
        BY <1>1, <3>1 DEF n
      <4> QED  BY <4>1, <4>2, Bounds
    <3>3. \A i \in DOMAIN e : e[i].x <= p.x
      BY <1>1, <1>2, <3>1
    <3>4. \A i, j \in DOMAIN e : i < j => e[i].x < e[j].x
      <4> SUFFICES ASSUME NEW i \in DOMAIN e, NEW j \in DOMAIN e, i < j PROVE e[i].x < e[j].x
        OBVIOUS
      <4>1. i \in 1..n /\ (j \in 1..n \/ j = n + 1)
        BY <1>1, <3>1
      <4> QED  BY <1>1, <3>1, <4>1 DEF IsLog
    <3>5. \A i \in DOMAIN e : 1 < i /\ i < Len(e) => LogFar(e[i - 1], e[i])
      <4> SUFFICES ASSUME NEW i \in DOMAIN e, 1 < i, i < Len(e) PROVE LogFar(e[i - 1], e[i])
        OBVIOUS
      <4>1. i \in 1..n /\ i - 1 \in 1..n /\ e[i - 1] = d[i - 1] /\ e[i] = d[i]
        BY <1>1, <3>1
      <4>2. CASE i < n
        BY <1>1, <4>1, <4>2 DEF IsLog
      <4>3. CASE i = n
        <5>1. ~(n < 2) /\ d # <<>>
          BY <1>1, <4>1, <4>3
        <5>2. LogFar(d[n - 1], d[n])
          BY <1>4, <2>3, <5>1, LogLandedIs
        <5> QED  BY <4>1, <4>3, <5>2
      <4> QED  BY <1>1, <4>1, <4>2, <4>3
    <3>6. Behind(d, e)
      BY <1>1, <1>4, <3>1 DEF Behind
    <3> QED  BY <2>2, <3>2, <3>3, <3>4, <3>5, <3>6 DEF IsLog
  <2>4. CASE ~landed /\ Replaced(d, p, e)
    <3>1. /\ d # <<>> /\ Len(e) = n /\ DOMAIN e = 1..n /\ n >= 1
          /\ e[n] = p /\ \A i \in 1..n - 1 : e[i] = d[i]
      BY <1>1, <1>4, <2>2, <2>4 DEF Replaced
    <3>2. \A i \in DOMAIN e : e[i].x <= p.x
      BY <1>1, <1>2, <3>1
    <3>3. \A i, j \in DOMAIN e : i < j => e[i].x < e[j].x
      <4> SUFFICES ASSUME NEW i \in DOMAIN e, NEW j \in DOMAIN e, i < j PROVE e[i].x < e[j].x
        OBVIOUS
      <4>1. i \in 1..n - 1 /\ i \in 1..n /\ (j \in 1..n - 1 \/ j = n)
        BY <1>1, <3>1
      <4> QED  BY <1>1, <3>1, <4>1 DEF IsLog
    <3>4. \A i \in DOMAIN e : 1 < i /\ i < Len(e) => LogFar(e[i - 1], e[i])
      <4> SUFFICES ASSUME NEW i \in DOMAIN e, 1 < i, i < Len(e) PROVE LogFar(e[i - 1], e[i])
        OBVIOUS
      <4>1. i \in 1..n /\ i < n /\ e[i - 1] = d[i - 1] /\ e[i] = d[i]
        BY <1>1, <3>1
      <4> QED  BY <1>1, <4>1 DEF IsLog
    <3>5. Behind(d, e)
      <4>1. Last(d).x < e[n].x
        BY <1>1, <1>4, <3>1
      <4>2. \A i \in DOMAIN d : i < n => d[i] = e[i]
        BY <1>1, <3>1
      <4> QED  BY <1>1, <2>4, <3>1, <4>1, <4>2 DEF Behind
    <3> QED  BY <2>2, <3>1, <3>2, <3>3, <3>4, <3>5 DEF IsLog
  <2> QED  BY <2>2, <2>3, <2>4
<1> QED  BY <1>5, <1>6

LEMMA LogAddTyped ==
  ASSUME NEW d \in Seq(Points), Len(d) <= MaxPoints, NEW p \in Points
  PROVE  LogAdd(d, p) \in Seq(Points) /\ Len(LogAdd(d, p)) <= MaxPoints
<1> DEFINE landed == LogLanded(d)
           q == Packed(d, p, landed)
<1>1. CASE landed /\ Len(d) = MaxPoints
  BY <1>1 DEF LogAdd
<1>2. CASE ~(landed /\ Len(d) = MaxPoints)
  <2>1. LogAdd(d, p) = q
    BY <1>2 DEF LogAdd
  <2>2. d = <<>> => landed
    BY DEF LogLanded
  <2>3. /\ q \in Seq(Points)
        /\ Kept(d, p, q) \/ (landed /\ Appended(d, p, q)) \/ Replaced(d, p, q)
    <3> HIDE DEF landed
    <3> QED  BY <2>2, PackedIs, Zenon
  <2> HIDE DEF q, landed
  <2>4. Len(q) = Len(d) \/ (landed /\ Len(q) = Len(d) + 1)
    BY <2>3 DEF Kept, Appended, Replaced
  <2> QED  BY <1>2, <2>1, <2>3, <2>4, Bounds
<1> QED  BY <1>1, <1>2

(***************************************************************************)
(* What the answers of the device are made of: the beginning of the log,   *)
(* or what follows the chart in it.                                        *)
(***************************************************************************)
LEMMA BeginningIsBehind ==
  ASSUME NEW d \in Seq(Points), IsLog(d), NEW n \in 0..Len(d)
  PROVE  /\ SubSeq(d, 1, n) \in Seq(Points) /\ Len(SubSeq(d, 1, n)) = n
         /\ IsLog(SubSeq(d, 1, n)) /\ Behind(SubSeq(d, 1, n), d)
<1> DEFINE s == SubSeq(d, 1, n)
<1>1. /\ s \in Seq(Points) /\ Len(s) = n /\ DOMAIN s = 1..n
      /\ \A i \in 1..n : s[i] = d[i] /\ i \in DOMAIN d
      /\ DOMAIN d = 1..Len(d) /\ Len(d) \in Nat /\ n \in Nat /\ n <= Len(d)
  OBVIOUS
<1> HIDE DEF s
<1>2. \A i, j \in DOMAIN s : i < j => s[i].x < s[j].x
  BY <1>1 DEF IsLog
<1>3. \A i \in DOMAIN s : 1 < i /\ i < Len(s) => LogFar(s[i - 1], s[i])
  <2> SUFFICES ASSUME NEW i \in DOMAIN s, 1 < i, i < Len(s) PROVE LogFar(s[i - 1], s[i])
    OBVIOUS
  <2>1. i - 1 \in 1..n /\ i \in 1..n /\ i < Len(d)
    BY <1>1
  <2> QED  BY <1>1, <2>1 DEF IsLog
<1>4. Behind(s, d)
  <2>1. s # <<>> => Last(s) = d[Len(s)]
    BY <1>1, LastTyped
  <2> QED  BY <1>1, <2>1 DEF Behind
<1>5. s \in Seq(Points) /\ Len(s) = n /\ IsLog(s) /\ Behind(s, d)
  BY <1>1, <1>2, <1>3, <1>4 DEF IsLog
<1> QED  BY <1>5 DEF s

LEMMA SkippedTyped ==
  ASSUME data \in Seq(Points), NEW known, NEW from \in Nat
  PROVE  Skipped(known, from) \in 0..Len(data)
<1> DEFINE before == {i \in DOMAIN data : data[i].x < from}
<1>1. Len(data) \in Nat /\ before \in SUBSET (1..Len(data))
  OBVIOUS
<1>2. before # {} => Max(before) \in before
  <2> HIDE DEF before
  <2> QED  BY <1>1, MaxIs
<1>3. Skipped(known, from) = 0 \/ (before # {} /\ Skipped(known, from) = Max(before))
  BY Zenon DEF Skipped
<1> HIDE DEF before
<1>4. CASE Skipped(known, from) = 0
  BY <1>1, <1>4
<1>5. CASE before # {} /\ Skipped(known, from) = Max(before)
  <2>1. Max(before) \in 1..Len(data)
    BY <1>1, <1>2, <1>5
  <2> QED  BY <1>1, <1>5, <2>1
<1> QED  BY <1>3, <1>4, <1>5

\* In the order of time, what get_history skips are the points before.
LEMMA SkippedAre ==
  ASSUME data \in Seq(Points), IsLog(data), NEW from \in Nat
  PROVE  \A i \in DOMAIN data : data[i].x < from <=> i <= Skipped(version, from)
<1> DEFINE before == {i \in DOMAIN data : data[i].x < from}
<1>1. /\ Len(data) \in Nat /\ DOMAIN data = 1..Len(data)
      /\ before \in SUBSET (1..Len(data))
      /\ \A i \in DOMAIN data : data[i].x \in Nat
  BY PointsTyped
<1>2. CASE before = {}
  <2>1. Skipped(version, from) = 0
    BY <1>2, Zenon DEF Skipped
  <2>2. \A i \in DOMAIN data : ~(data[i].x < from) /\ ~(i <= 0)
    BY <1>1, <1>2
  <2> QED  BY <2>1, <2>2
<1>3. CASE before # {}
  <2>1. Max(before) \in before /\ \A i \in before : i <= Max(before)
    <3> HIDE DEF before
    <3> QED  BY <1>1, <1>3, MaxIs
  <2> DEFINE m == Max(before)
  <2>2. m \in 1..Len(data) /\ data[m].x < from
    BY <1>1, <2>1
  <2>3. \A i \in before : i <= m
    BY <2>1
  <2> HIDE DEF m
  <2>4. \A i \in DOMAIN data : i <= m => data[i].x < from
    <3> SUFFICES ASSUME NEW i \in DOMAIN data, i <= m PROVE data[i].x < from
      OBVIOUS
    <3>1. i = m \/ (i < m /\ m \in DOMAIN data)
      BY <1>1, <2>2
    <3>2. i = m \/ data[i].x < data[m].x
      BY <3>1 DEF IsLog
    <3> QED  BY <1>1, <2>2, <3>2
  <2>5. Head(data).x < from
    <3>1. 1 \in DOMAIN data /\ 1 <= m
      BY <1>1, <2>2
    <3>2. Head(data) = data[1]
      BY <1>1, <3>1
    <3> QED  BY <2>4, <3>1, <3>2
  <2>6. ~(Head(data).x >= from)
    <3>1. Head(data).x \in Nat
      <4>1. data # <<>> /\ Head(data) = data[1] /\ 1 \in DOMAIN data
        BY <1>1, <2>2
      <4> QED  BY <1>1, <4>1
    <3> QED  BY <2>5, <3>1
  <2>7. Skipped(version, from) = m
    BY <1>3, <2>6, Zenon DEF Skipped, m
  <2>8. \A i \in DOMAIN data : data[i].x < from => i <= m
    BY <2>3
  <2> QED  BY <2>4, <2>7, <2>8
<1> QED  BY <1>2, <1>3

(***************************************************************************)
(* The part of the chart on which the two sides divide alike.              *)
(***************************************************************************)
EarlyAgree(s, d) ==
  /\ \A i \in DOMAIN s : Early(s[i]) => i \in DOMAIN d /\ s[i] = d[i]
  /\ \A i \in DOMAIN d : Early(d[i]) => i \in DOMAIN s /\ s[i] = d[i]

LEMMA EarlyAgreeOn ==
  ASSUME NEW s, NEW d, NEW e, EarlyAgree(s, d), EarlyAgree(d, e)
  PROVE  EarlyAgree(s, e)
BY DEF EarlyAgree

LEMMA LaterIsLate ==
  ASSUME NEW p \in Points, NEW q \in Points, p.x <= q.x, ~Early(p)
  PROVE  ~Early(q)
<1>1. p.x \in Nat /\ q.x \in Nat
  BY PointsTyped
<1>2. ScaleAfter * XThreshold \in Nat
  BY Bounds
<1> DEFINE b == ScaleAfter * XThreshold
<1>3. ~(p.x <= b) /\ b \in Nat
  BY <1>2 DEF Early
<1> HIDE DEF b
<1>4. ~(q.x <= b)
  BY <1>1, <1>3
<1> QED  BY <1>4 DEF Early, b

LEMMA BehindLast ==
  ASSUME NEW s \in Seq(Points), NEW d \in Seq(Points), IsLog(d), Behind(s, d), s # <<>>
  PROVE  /\ d # <<>> /\ Len(s) \in DOMAIN d
         /\ Last(s).x <= d[Len(s)].x /\ Last(s).x <= Last(d).x
<1>1. Len(s) \in Nat \ {0} /\ Len(d) \in Nat /\ Len(s) <= Len(d) /\ DOMAIN d = 1..Len(d)
  BY LastTyped DEF Behind
<1>2. Len(s) \in DOMAIN d /\ d # <<>>
  BY <1>1
<1>3. /\ Last(s).x \in Nat /\ d[Len(s)].x \in Nat /\ Last(d).x \in Nat
      /\ Last(d) = d[Len(d)] /\ Len(d) \in DOMAIN d
  <2>1. Last(s) \in Points /\ d[Len(s)] \in Points /\ Last(d) \in Points
    BY <1>2, LastTyped
  <2> QED  BY <1>2, <2>1, PointsTyped, LastTyped
<1>4. Last(s).x <= d[Len(s)].x
  BY <1>3 DEF Behind
<1>5. d[Len(s)].x <= Last(d).x
  <2>1. CASE Len(s) = Len(d)
    BY <1>3, <2>1
  <2>2. CASE Len(s) < Len(d)
    <3>1. d[Len(s)].x < d[Len(d)].x
      BY <1>2, <1>3, <2>2 DEF IsLog
    <3> QED  BY <1>3, <3>1
  <2> QED  BY <1>1, <2>1, <2>2
<1>6. Last(s).x <= Last(d).x
  BY <1>3, <1>4, <1>5
<1> QED  BY <1>2, <1>4, <1>6

\* Past its last point a log has only later ones.
LEMMA BehindAgrees ==
  ASSUME NEW s \in Seq(Points), NEW d \in Seq(Points), IsLog(d), Behind(s, d),
         s # <<>>, ~Early(Last(s))
  PROVE  EarlyAgree(s, d)
<1>1. /\ Len(s) \in Nat \ {0} /\ Len(d) \in Nat /\ Len(s) <= Len(d)
      /\ DOMAIN s = 1..Len(s) /\ DOMAIN d = 1..Len(d) /\ Last(s) = s[Len(s)]
  BY LastTyped DEF Behind
<1>2. Len(s) \in DOMAIN d /\ Last(s).x <= d[Len(s)].x
  BY BehindLast
<1>3. Last(s) \in Points /\ d[Len(s)] \in Points
  BY <1>2, LastTyped
<1>4. ~Early(d[Len(s)])
  BY <1>2, <1>3, LaterIsLate
<1>5. \A i \in DOMAIN s : Early(s[i]) => i \in DOMAIN d /\ s[i] = d[i]
  <2> SUFFICES ASSUME NEW i \in DOMAIN s, Early(s[i]) PROVE i \in DOMAIN d /\ s[i] = d[i]
    OBVIOUS
  <2>1. i < Len(s)
    BY <1>1
  <2> QED  BY <1>1, <2>1 DEF Behind
<1>6. \A i \in DOMAIN d : Early(d[i]) => i \in DOMAIN s /\ s[i] = d[i]
  <2> SUFFICES ASSUME NEW i \in DOMAIN d, Early(d[i]) PROVE i \in DOMAIN s /\ s[i] = d[i]
    OBVIOUS
  <2>1. i < Len(s)
    <3>1. CASE Len(s) < i
      <4>1. d[Len(s)].x < d[i].x
        BY <1>2, <3>1 DEF IsLog
      <4>2. d[i] \in Points /\ d[Len(s)].x \in Nat /\ d[i].x \in Nat
        BY <1>3, PointsTyped
      <4>3. d[Len(s)].x <= d[i].x
        BY <4>1, <4>2
      <4> QED  BY <1>3, <1>4, <4>2, <4>3, LaterIsLate
    <3>2. CASE i = Len(s)
      BY <1>4, <3>2
    <3> QED  BY <1>1, <3>1, <3>2
  <2> QED  BY <1>1, <2>1 DEF Behind
<1> QED  BY <1>5, <1>6 DEF EarlyAgree

(***************************************************************************)
(* What a chart shows of the log, and what an answer adds to it.  While it *)
(* is early the chart itself is a log that may have become the device's;   *)
(* later the two sides pack differently, and agree on what is early.       *)
(***************************************************************************)
Shows(c, d) ==
  IF Early(Last(c)) THEN IsLog(c) /\ Behind(c, d)
  ELSE d # <<>> /\ Last(c).x <= Last(d).x /\ EarlyAgree(c, d)

\* The chart and the answer, which begins at the chart's last point.
Goes(c, p) == IF c = <<>> THEN p ELSE Front(c) \o p

GoesOn(c, p, d) ==
  IF c = <<>> \/ Early(Last(c))
  THEN /\ IsLog(Goes(c, p)) /\ Behind(Goes(c, p), d)
       /\ c # <<>> => /\ p # <<>>
                      /\ p[1] = Last(c) \/ (Last(c).x < p[1].x /\ ~LogLanded(c))
  ELSE /\ \A i \in DOMAIN p : Last(c).x <= p[i].x /\ p[i].x <= Last(d).x
       /\ d # <<>>

LEMMA BehindIsShown ==
  ASSUME NEW s \in Seq(Points), NEW d \in Seq(Points), IsLog(s), IsLog(d), Behind(s, d),
         s # <<>>
  PROVE  Shows(s, d)
BY BehindLast, BehindAgrees, Zenon DEF Shows

LEMMA ShowsOn ==
  ASSUME NEW c \in Seq(Points), NEW d \in Seq(Points), NEW e \in Seq(Points),
         IsLog(d), IsLog(e), c # <<>>, Shows(c, d), Behind(d, e)
  PROVE  Shows(c, e)
<1>1. CASE Early(Last(c))
  BY <1>1, BehindOn, Zenon DEF Shows
<1>2. CASE ~Early(Last(c))
  <2>1. d # <<>> /\ Last(c).x <= Last(d).x /\ EarlyAgree(c, d)
    BY <1>2 DEF Shows
  <2>2. e # <<>> /\ Last(d).x <= Last(e).x
    BY <2>1, BehindLast
  <2>3. Last(c) \in Points /\ Last(d) \in Points /\ Last(e) \in Points
    BY <2>1, <2>2, LastTyped
  <2>4. ~Early(Last(d))
    BY <1>2, <2>1, <2>3, LaterIsLate
  <2>5. EarlyAgree(c, e)
    BY <2>1, <2>4, BehindAgrees, EarlyAgreeOn
  <2>6. Last(c).x <= Last(e).x
    <3>1. Last(c).x \in Nat /\ Last(d).x \in Nat /\ Last(e).x \in Nat
      BY <2>3, PointsTyped
    <3> QED  BY <2>1, <2>2, <3>1
  <2> QED  BY <1>2, <2>2, <2>5, <2>6 DEF Shows
<1> QED  BY <1>1, <1>2

LEMMA GoesTyped ==
  ASSUME NEW c \in Seq(Points), NEW p \in Seq(Points)
  PROVE  Goes(c, p) \in Seq(Points)
BY LastTyped DEF Goes

LEMMA GoesOnOn ==
  ASSUME NEW c \in Seq(Points), NEW p \in Seq(Points),
         NEW d \in Seq(Points), NEW e \in Seq(Points),
         IsLog(d), IsLog(e), GoesOn(c, p, d), Behind(d, e)
  PROVE  GoesOn(c, p, e)
<1>1. CASE c = <<>> \/ Early(Last(c))
  BY <1>1, BehindOn, GoesTyped, Zenon DEF GoesOn
<1>2. CASE ~(c = <<>> \/ Early(Last(c)))
  <2>1. d # <<>> /\ \A i \in DOMAIN p : Last(c).x <= p[i].x /\ p[i].x <= Last(d).x
    BY <1>2, Zenon DEF GoesOn
  <2>2. e # <<>> /\ Last(d).x <= Last(e).x
    BY <2>1, BehindLast
  <2>3. Last(d) \in Points /\ Last(e) \in Points
    BY <2>1, <2>2, LastTyped
  <2>4. Last(d).x \in Nat /\ Last(e).x \in Nat
    BY <2>3, PointsTyped
  <2>5. \A i \in DOMAIN p : p[i].x \in Nat
    BY PointsTyped
  <2>6. \A i \in DOMAIN p : p[i].x <= Last(e).x
    BY <2>1, <2>2, <2>4, <2>5
  <2> QED  BY <1>2, <2>1, <2>2, <2>6, Zenon DEF GoesOn
<1> QED  BY <1>1, <1>2

\* get_history: what follows the chart in the log, cut off after MaxChunk points.
LEMMA PageGoesOn ==
  ASSUME NEW c \in Seq(Points), NEW d \in Seq(Points), IsLog(d), c # <<>> => Shows(c, d),
         NEW from, from = (IF c = <<>> THEN 0 ELSE Last(c).x),
         NEW k \in 0..Len(d), \A i \in DOMAIN d : d[i].x < from <=> i <= k,
         NEW n \in 0..Len(d), k <= n, k < Len(d) => k < n
  PROVE  GoesOn(c, SubSeq(d, k + 1, n), d)
<1> DEFINE p == SubSeq(d, k + 1, n)
<1>1. /\ Len(d) \in Nat /\ DOMAIN d = 1..Len(d) /\ Len(c) \in Nat /\ DOMAIN c = 1..Len(c)
      /\ \A i \in DOMAIN d : d[i] \in Points /\ d[i].x \in Nat
  BY PointsTyped
<1>2. c # <<>> => Last(c) \in Points /\ Last(c).x \in Nat /\ Len(c) >= 1
  BY LastTyped, PointsTyped
<1>3. from \in Nat
  BY <1>2
<1>4. k \in 0..Len(d) /\ \A i \in DOMAIN d : d[i].x < from <=> i <= k
  OBVIOUS
<1>5. /\ n \in 0..Len(d) /\ k <= n /\ n \in Nat /\ k \in Nat
      /\ (k < Len(d) => k < n)
  BY <1>1
<1>6. /\ p \in Seq(Points) /\ Len(p) = n - k /\ DOMAIN p = 1..(n - k)
      /\ \A i \in 1..(n - k) : p[i] = d[k + i]
  BY <1>1, <1>5
<1> SUFFICES GoesOn(c, p, d)
  OBVIOUS
<1> HIDE DEF p
<1>7. CASE c = <<>>
  <2>1. k = 0
    <3>1. from = 0
      BY <1>7
    <3>2. k >= 1 => 1 \in DOMAIN d /\ d[1].x < from
      BY <1>1, <1>4
    <3> QED  BY <1>1, <1>4, <3>1, <3>2
  <2>2. IsLog(p) /\ Behind(p, d)
    BY <1>5, <2>1, BeginningIsBehind DEF p
  <2> QED  BY <1>7, <2>2, Zenon DEF GoesOn, Goes
<1>8. CASE c # <<>> /\ Early(Last(c))
  <2> DEFINE m == Len(c)
  <2>1. IsLog(c) /\ Behind(c, d) /\ from = Last(c).x /\ Last(c) = c[m] /\ m \in DOMAIN c
    BY <1>8, LastTyped DEF Shows
  <2>2. m \in DOMAIN d /\ Last(c).x <= d[m].x
    BY <1>8, <2>1, BehindLast
  <2>3. k = m - 1
    <3>1. ~(m <= k)
      BY <1>1, <1>2, <1>4, <1>8, <2>1, <2>2
    <3>2. m = 1 \/ m - 1 <= k
      <4> SUFFICES ASSUME m # 1 PROVE m - 1 <= k
        OBVIOUS
      <4>1. m - 1 \in DOMAIN c /\ m - 1 \in DOMAIN d /\ m - 1 < m
        BY <1>1, <1>2, <1>8, <2>2
      <4>2. c[m - 1] = d[m - 1]
        BY <2>1, <4>1 DEF Behind
      <4>3. c[m - 1].x < c[m].x
        BY <2>1, <4>1 DEF IsLog
      <4> QED  BY <1>4, <2>1, <4>1, <4>2, <4>3
    <3>3. m \in Nat /\ m >= 1
      BY <1>1, <1>2, <1>8
    <3> HIDE DEF m
    <3> QED  BY <1>4, <3>1, <3>2, <3>3
  <2>4. n >= m /\ m >= 1 /\ m \in Nat /\ Len(p) >= 1 /\ 1 \in DOMAIN p
    <3>1. m \in Nat /\ m >= 1 /\ m <= Len(d)
      BY <1>1, <2>2
    <3> HIDE DEF m
    <3> QED  BY <1>5, <1>6, <2>3, <3>1
  <2>5. p # <<>> /\ p[1] = d[m]
    <3> HIDE DEF m
    <3> QED  BY <1>5, <1>6, <2>3, <2>4
  <2>6. p[1] = Last(c) \/ (Last(c).x < p[1].x /\ ~LogLanded(c))
    BY <1>8, <2>1, <2>5 DEF Behind
  <2>7. Goes(c, p) = SubSeq(d, 1, n)
    <3> DEFINE f == Front(c)
    <3>1. /\ f \in Seq(Points) /\ Len(f) = m - 1
          /\ \A i \in 1..m - 1 : f[i] = c[i]
      BY <1>8, LastTyped
    <3>2. \A i \in 1..m - 1 : f[i] = d[i]
      <4>1. \A i \in 1..m - 1 : i \in DOMAIN c /\ i < Len(c)
        BY <1>1, <2>4
      <4> QED  BY <2>1, <3>1, <4>1 DEF Behind
    <3>3. Goes(c, p) = f \o p
      BY <1>8 DEF Goes
    <3> HIDE DEF f, m
    <3>4. /\ f \o p \in Seq(Points) /\ Len(f \o p) = n
          /\ \A i \in 1..m - 1 : (f \o p)[i] = f[i]
          /\ \A i \in 1..(n - k) : (f \o p)[(m - 1) + i] = p[i]
      <4>1. /\ f \o p \in Seq(Points) /\ Len(f \o p) = Len(f) + Len(p)
            /\ \A i \in 1..Len(f) : (f \o p)[i] = f[i]
            /\ \A i \in 1..Len(p) : (f \o p)[Len(f) + i] = p[i]
        BY <1>6, <3>1, Joined
      <4>2. Len(f) + Len(p) = n
        BY <1>5, <1>6, <2>3, <2>4, <3>1
      <4> QED  BY <1>6, <3>1, <4>1, <4>2, Zenon
    <3>5. \A i \in 1..n : (f \o p)[i] = d[i]
      <4> SUFFICES ASSUME NEW i \in 1..n PROVE (f \o p)[i] = d[i]
        OBVIOUS
      <4>1. CASE i \in 1..m - 1
        BY <3>2, <3>1, <3>4, <4>1
      <4>2. CASE i \notin 1..m - 1
        <5>1. i - k \in 1..(n - k) /\ k + (i - k) = i /\ (m - 1) + (i - k) = i
          BY <1>5, <2>3, <2>4, <4>2
        <5>2. (f \o p)[(m - 1) + (i - k)] = p[i - k] /\ p[i - k] = d[k + (i - k)]
          BY <1>6, <3>4, <5>1, Zenon
        <5> QED  BY <5>1, <5>2
      <4> QED  BY <4>1, <4>2
    <3>6. /\ SubSeq(d, 1, n) \in Seq(Points) /\ Len(SubSeq(d, 1, n)) = n
          /\ \A i \in 1..n : SubSeq(d, 1, n)[i] = d[i]
      BY <1>1, <1>5
    <3>7. f \o p = SubSeq(d, 1, n)
      <4> DEFINE t == SubSeq(d, 1, n)
                 u == f \o p
      <4>1. /\ t \in Seq(Points) /\ u \in Seq(Points) /\ Len(u) = n /\ Len(t) = n
            /\ \A i \in 1..n : u[i] = t[i]
        BY <3>4, <3>5, <3>6, Zenon
      <4> HIDE DEF t, u
      <4>2. u = t
        BY <4>1, SamePoints
      <4> QED  BY <4>2 DEF t, u
    <3> QED  BY <3>3, <3>7
  <2>8. IsLog(Goes(c, p)) /\ Behind(Goes(c, p), d)
    BY <1>5, <2>7, BeginningIsBehind
  <2> QED  BY <1>8, <2>5, <2>6, <2>8, Zenon DEF GoesOn
<1>9. CASE c # <<>> /\ ~Early(Last(c))
  <2>1. d # <<>> /\ from = Last(c).x
    BY <1>9 DEF Shows
  <2>2. \A i \in DOMAIN p : Last(c).x <= p[i].x /\ p[i].x <= Last(d).x
    <3> SUFFICES ASSUME NEW i \in DOMAIN p PROVE Last(c).x <= p[i].x /\ p[i].x <= Last(d).x
      OBVIOUS
    <3>1. k + i \in DOMAIN d /\ ~(k + i <= k) /\ p[i] = d[k + i]
      BY <1>1, <1>5, <1>6
    <3>2. ~(d[k + i].x < from)
      BY <1>4, <3>1
    <3>3. Len(d) \in DOMAIN d /\ Last(d) = d[Len(d)]
      BY <2>1, LastTyped
    <3>4. k + i = Len(d) \/ d[k + i].x < d[Len(d)].x
      <4>1. k + i = Len(d) \/ k + i < Len(d)
        BY <1>1, <3>1
      <4> QED  BY <3>1, <3>3, <4>1 DEF IsLog
    <3> QED  BY <1>1, <1>2, <1>9, <2>1, <3>1, <3>2, <3>3, <3>4
  <2> QED  BY <1>9, <2>1, <2>2, Zenon DEF GoesOn
<1> QED  BY <1>7, <1>8, <1>9

(***************************************************************************)
(* How the client packs the answers.                                       *)
(***************************************************************************)

\* add(...points) is add(point), one after the other.
LEMMA AddingIs ==
  ASSUME NEW s, NEW p \in Seq(Points), NEW f, f = WebAdding(s, p)
  PROVE  /\ f[0] = s
         /\ \A k \in 1..Len(p) : f[k] = WebAdd(f[k - 1], p[k])
<1> DEFINE n == Len(p)
           Does(g, k) == \A i \in 0..n : i <= k => g[i] = IF i = 0 THEN s ELSE WebAdd(g[i - 1], p[i])
           Can(k) == \E g : g = [i \in 0..n |-> g[i]] /\ Does(g, k)
           G == {k \in 0..n : Can(k)}
           IsIt(g) == g = [i \in 0..n |-> IF i = 0 THEN s ELSE WebAdd(g[i - 1], p[i])]
<1>1. n \in Nat
  OBVIOUS
<1>2. 0 \in G
  <2> DEFINE g == [i \in 0..n |-> s]
  <2>1. g = [i \in 0..n |-> g[i]]
    OBVIOUS
  <2>2. Does(g, 0)
    <3> SUFFICES ASSUME NEW i \in 0..n, i <= 0 PROVE g[i] = IF i = 0 THEN s ELSE WebAdd(g[i - 1], p[i])
      OBVIOUS
    <3> QED  BY <1>1
  <2> HIDE DEF Does, g
  <2>3. Can(0)
    BY <2>1, <2>2
  <2> QED  BY <1>1, <2>3
<1>3. ASSUME NEW k \in 0..n, k # n, k \in G PROVE k + 1 \in G
  <2>1. PICK g : g = [i \in 0..n |-> g[i]] /\ Does(g, k)
    BY <1>3
  <2> DEFINE h == [i \in 0..n |-> IF i = k + 1 THEN WebAdd(g[k], p[k + 1]) ELSE g[i]]
  <2>2. h = [i \in 0..n |-> h[i]]
    OBVIOUS
  <2>3. Does(h, k + 1)
    <3> SUFFICES ASSUME NEW i \in 0..n, i <= k + 1
                 PROVE  h[i] = IF i = 0 THEN s ELSE WebAdd(h[i - 1], p[i])
      OBVIOUS
    <3>1. CASE i = k + 1
      <4>1. i # 0 /\ i - 1 = k /\ k # k + 1 /\ k \in 0..n
        BY <1>1, <3>1
      <4>2. h[i] = WebAdd(g[k], p[i]) /\ h[k] = g[k]
        BY <3>1, <4>1
      <4> HIDE DEF h
      <4> QED  BY <4>1, <4>2
    <3>2. CASE i # k + 1
      <4>1. i <= k /\ (i # 0 => i - 1 \in 0..n /\ i - 1 # k + 1)
        BY <1>1, <3>2
      <4>2. h[i] = g[i] /\ (i # 0 => h[i - 1] = g[i - 1])
        BY <3>2, <4>1
      <4>3. g[i] = IF i = 0 THEN s ELSE WebAdd(g[i - 1], p[i])
        BY <2>1, <4>1
      <4> HIDE DEF h
      <4> QED  BY <4>2, <4>3
    <3> QED  BY <3>1, <3>2
  <2> HIDE DEF Does, h
  <2>4. Can(k + 1)
    BY <2>2, <2>3
  <2>5. k + 1 \in 0..n
    BY <1>1, <1>3
  <2> HIDE DEF Can
  <2> QED  BY <2>4, <2>5
<1>4. n \in G
  <2>1. \A k \in 0..n : k # n /\ k \in G => k + 1 \in G
    BY <1>3
  <2>2. n \in 0..n
    BY <1>1
  <2> HIDE DEF G
  <2> QED  BY <1>1, <1>2, <2>1, <2>2, Upward
<1>5. PICK g : g = [i \in 0..n |-> g[i]] /\ Does(g, n)
  BY <1>4
<1>6. IsIt(g)
  <2>1. \A i \in 0..n : i <= n
    BY <1>1
  <2>2. \A i \in 0..n : g[i] = IF i = 0 THEN s ELSE WebAdd(g[i - 1], p[i])
    BY <1>5, <2>1, Zenon
  <2> QED  BY <1>5, <2>2
<1>7. f = CHOOSE h : IsIt(h)
  BY DEF WebAdding
<1>8. IsIt(f)
  <2> HIDE DEF IsIt
  <2> QED  BY <1>6, <1>7
<1>9. f[0] = s
  BY <1>1, <1>8
<1>10. ASSUME NEW k \in 1..Len(p) PROVE f[k] = WebAdd(f[k - 1], p[k])
  <2>1. k \in 0..n /\ k # 0
    BY <1>1
  <2> QED  BY <1>8, <2>1
<1> QED  BY <1>9, <1>10

LEMMA WebAddTyped ==
  ASSUME NEW s \in Seq(Points), NEW p \in Points
  PROVE  /\ WebAdd(s, p) \in Seq(Points) /\ WebAdd(s, p) # <<>> /\ Last(WebAdd(s, p)) = p
         /\ \/ Kept(s, p, WebAdd(s, p))
            \/ WebLanded(s) /\ Appended(s, p, WebAdd(s, p))
            \/ ~WebLanded(s) /\ Replaced(s, p, WebAdd(s, p))
<1>1. s = <<>> => WebLanded(s)
  BY DEF WebLanded
<1> DEFINE landed == WebLanded(s)
           q == WebAdd(s, p)
<1>2. q = Packed(s, p, landed) /\ (s = <<>> => landed)
  BY <1>1 DEF WebAdd
<1> HIDE DEF landed, q
<1>3. /\ q \in Seq(Points) /\ q # <<>> /\ Last(q) = p
      /\ Kept(s, p, q) \/ (landed /\ Appended(s, p, q)) \/ (~landed /\ Replaced(s, p, q))
  BY <1>2, PackedIs
<1> QED  BY <1>3, Zenon DEF landed, q

LEMMA AddingTyped ==
  ASSUME NEW s \in Seq(Points), NEW p \in Seq(Points), NEW f, f = WebAdding(s, p)
  PROVE  \A k \in 0..Len(p) : f[k] \in Seq(Points)
<1> DEFINE G == {k \in 0..Len(p) : f[k] \in Seq(Points)}
<1>1. Len(p) \in Nat /\ f[0] = s /\ \A k \in 1..Len(p) : f[k] = WebAdd(f[k - 1], p[k])
  BY AddingIs
<1>2. 0 \in G
  BY <1>1
<1>3. ASSUME NEW k \in 0..Len(p), k # Len(p), k \in G PROVE k + 1 \in G
  <2>1. k + 1 \in 1..Len(p) /\ k + 1 \in 0..Len(p) /\ (k + 1) - 1 = k /\ p[k + 1] \in Points
    BY <1>1, <1>3
  <2>2. f[k + 1] = WebAdd(f[k], p[k + 1])
    BY <1>1, <2>1
  <2>3. f[k] \in Seq(Points)
    BY <1>3
  <2>4. f[k + 1] \in Seq(Points)
    BY <2>1, <2>2, <2>3, WebAddTyped
  <2> QED  BY <2>1, <2>4
<1>4. \A k \in 0..Len(p) : k \in G
  <2> HIDE DEF G
  <2> QED  BY <1>1, <1>2, <1>3, Upward
<1> QED  BY <1>4

LEMMA AddAllTyped ==
  ASSUME NEW s \in Seq(Points), NEW p \in Seq(Points)
  PROVE  WebAddAll(s, p) \in Seq(Points)
<1>1. Len(p) \in 0..Len(p)
  OBVIOUS
<1> QED  BY <1>1, AddingTyped, Zenon DEF WebAddAll

LEMMA ProductsGrow ==
  ASSUME NEW x \in Nat, NEW y \in Nat, NEW z \in Nat, x <= y
  PROVE  x * z \in Nat /\ y * z \in Nat /\ x * z <= y * z
<1>1. PICK e \in Nat : y = x + e
  <2>1. y - x \in Nat /\ y = x + (y - x)
    OBVIOUS
  <2> QED  BY <2>1
<1>2. y * z = x * z + e * z
  BY <1>1
<1>3. \A a, b \in Nat : a * b \in Nat
  OBVIOUS
<1>4. x * z \in Nat /\ y * z \in Nat /\ e * z \in Nat
  BY <1>1, <1>3
<1> QED  BY <1>2, <1>4

\* While XThreshold does not grow, integers and floating-point numbers divide alike.
LEMMA DividedAlike ==
  ASSUME NEW dx \in Nat, NEW x \in Nat, x <= ScaleAfter * XThreshold, XThreshold <= dx
  PROVE  x \div ScaleAfter <= dx /\ x <= dx * ScaleAfter
<1> DEFINE a == ScaleAfter
           b == XThreshold
           ba == b * a
           da == dx * a
           q == x \div a
           qa == q * a
<1>1. a \in Nat \ {0} /\ b \in Nat \ {0} /\ x <= a * b /\ b <= dx
  BY Bounds
<1> HIDE DEF a, b
<1>2. ba \in Nat /\ da \in Nat /\ ba <= da
  BY <1>1, ProductsGrow
<1>3. x <= ba
  BY <1>1
<1>4. q \in Nat /\ qa <= x
  BY <1>1
<1>5. ASSUME dx + 1 <= q PROVE FALSE
  <2> HIDE DEF q
  <2>1. (dx + 1) * a <= q * a
    BY <1>1, <1>4, <1>5, ProductsGrow
  <2>2. (dx + 1) * a = da + a
    BY <1>1
  <2> HIDE DEF ba
  <2>3. da + a <= qa
    BY <2>1, <2>2
  <2>4. qa \in Nat
    BY <1>1, <1>4, ProductsGrow
  <2> HIDE DEF da, qa
  <2> QED  BY <1>1, <1>2, <1>3, <1>4, <2>3, <2>4
<1>6. q <= dx
  <2> HIDE DEF q
  <2> QED  BY <1>4, <1>5
<1>7. x <= da
  <2> HIDE DEF ba, da
  <2> QED  BY <1>2, <1>3
<1> QED  BY <1>6, <1>7 DEF a

LEMMA LandsAlike ==
  ASSUME NEW s \in Seq(Points), s # <<>>, Early(Last(s)), IsLog(s)
  PROVE  WebLanded(s) <=> LogLanded(s)
<1>1. CASE Len(s) < 2
  BY <1>1 DEF WebLanded, LogLanded
<1>2. CASE ~(Len(s) < 2)
  <2> DEFINE last == Last(s)
             prev == s[Len(s) - 1]
             dx == last.x - prev.x
             Y == Dist(last.y, prev.y) >= YThreshold
             X == dx >= XThreshold
  <2>1. Len(s) \in Nat /\ Len(s) - 1 \in DOMAIN s /\ Len(s) \in DOMAIN s /\ last = s[Len(s)]
    BY <1>2, LastTyped
  <2>2. prev.x < last.x
    BY <2>1 DEF IsLog
  <2>3. prev \in Points /\ last \in Points
    BY <2>1
  <2>4. last.x \in Nat /\ prev.x \in Nat
    BY <2>3, PointsTyped
  <2>5. LogLanded(s) <=> Y \/ (X /\ dx >= last.x \div ScaleAfter)
    BY <1>2 DEF LogLanded
  <2>6. Dist(last.x, prev.x) = dx
    <3> HIDE DEF last, prev
    <3> QED  BY <2>2, <2>4 DEF Dist
  <2>7. WebLanded(s) <=> Y \/ (X /\ dx * ScaleAfter >= last.x)
    BY <1>2, <2>6 DEF WebLanded
  <2>8. last.x <= ScaleAfter * XThreshold
    BY DEF Early
  <2> HIDE DEF last, prev
  <2>9. dx \in Nat
    BY <2>2, <2>4
  <2> HIDE DEF dx
  <2>10. X => dx >= last.x \div ScaleAfter /\ dx * ScaleAfter >= last.x
    <3> SUFFICES ASSUME X PROVE dx >= last.x \div ScaleAfter /\ dx * ScaleAfter >= last.x
      OBVIOUS
    <3>1. XThreshold <= dx
      BY <2>9, Bounds
    <3>2. last.x \div ScaleAfter <= dx /\ last.x <= dx * ScaleAfter
      BY <2>4, <2>8, <2>9, <3>1, DividedAlike
    <3>3. last.x \div ScaleAfter \in Int /\ dx * ScaleAfter \in Int
      BY <2>4, <2>9, Bounds
    <3> QED  BY <2>4, <2>9, <3>2, <3>3
  <2> QED  BY <2>5, <2>7, <2>10, Zenon
<1> QED  BY <1>1, <1>2

(***************************************************************************)
(* Merging.  While it is early, what the client makes of the points is the *)
(* log that they come from.  Later both end with the same point.           *)
(***************************************************************************)
Same(w, e) ==
  /\ w # <<>> /\ Last(w) = Last(e) /\ EarlyAgree(w, e)
  /\ Early(Last(e)) => w = e

LEMMA SameItself == ASSUME NEW w, w # <<>> PROVE Same(w, w)
BY DEF Same, EarlyAgree

\* Past an early end, another late point changes nothing of what is early.
LEMMA LateAppended ==
  ASSUME NEW s \in Seq(Points), NEW q \in Points, ~Early(q), NEW t \in Seq(Points),
         \/ Appended(s, q, t)
         \/ s # <<>> /\ ~Early(Last(s)) /\ Replaced(s, q, t)
  PROVE  EarlyAgree(s, t)
<1>1. /\ DOMAIN s = 1..Len(s) /\ DOMAIN t = 1..Len(t) /\ Len(s) \in Nat /\ Len(t) \in Nat
      /\ s # <<>> => Len(s) >= 1 /\ Last(s) = s[Len(s)]
  BY LastTyped
<1>2. CASE Appended(s, q, t)
  <2>1. /\ Len(t) = Len(s) + 1 /\ t[Len(s) + 1] = q /\ \A i \in 1..Len(s) : t[i] = s[i]
    BY <1>2 DEF Appended
  <2>2. \A i \in DOMAIN s : i \in DOMAIN t /\ s[i] = t[i]
    BY <1>1, <2>1
  <2>3. \A i \in DOMAIN t : i = Len(s) + 1 \/ (i \in DOMAIN s /\ s[i] = t[i])
    BY <1>1, <2>1
  <2> QED  BY <2>1, <2>2, <2>3 DEF EarlyAgree
<1>3. CASE s # <<>> /\ ~Early(Last(s)) /\ Replaced(s, q, t)
  <2>1. /\ Len(t) = Len(s) /\ t[Len(s)] = q /\ ~Early(s[Len(s)])
        /\ \A i \in 1..Len(s) - 1 : t[i] = s[i]
    BY <1>1, <1>3 DEF Replaced
  <2>2. \A i \in DOMAIN s : i = Len(s) \/ s[i] = t[i]
    BY <1>1, <2>1
  <2>3. DOMAIN s = DOMAIN t
    BY <1>1, <2>1
  <2> QED  BY <2>1, <2>2, <2>3 DEF EarlyAgree
<1> QED  BY <1>2, <1>3

LEMMA StaysSame ==
  ASSUME NEW w \in Seq(Points), NEW e \in Seq(Points), NEW g \in Seq(Points),
         NEW q \in Points, e # <<>>, IsLog(g), Appended(e, q, g), Same(w, e)
  PROVE  Same(WebAdd(w, q), g)
<1> DEFINE v == WebAdd(w, q)
<1>1. /\ Len(e) \in Nat \ {0} /\ DOMAIN e = 1..Len(e) /\ Last(e) = e[Len(e)]
      /\ Len(g) = Len(e) + 1 /\ DOMAIN g = 1..(Len(e) + 1) /\ g[Len(e) + 1] = q
      /\ \A i \in 1..Len(e) : g[i] = e[i]
  BY LastTyped DEF Appended
<1>2. g # <<>> /\ Last(g) = q
  BY <1>1 DEF Last
<1>3. Last(e) \in Points /\ Last(e).x < q.x /\ Last(e).x \in Nat /\ q.x \in Nat
  <2>1. Len(e) \in DOMAIN g /\ Len(e) + 1 \in DOMAIN g /\ Len(e) < Len(e) + 1
    BY <1>1
  <2>2. g[Len(e)].x < g[Len(e) + 1].x
    BY <2>1 DEF IsLog
  <2>3. g[Len(e)] = Last(e)
    BY <1>1
  <2> QED  BY <1>1, <2>2, <2>3, LastTyped, PointsTyped
<1>4. /\ v \in Seq(Points) /\ v # <<>> /\ Last(v) = q
      /\ \/ WebLanded(w) /\ Appended(w, q, v)
         \/ ~WebLanded(w) /\ Replaced(w, q, v)
  <2>1. ~Kept(w, q, v)
    BY <1>3 DEF Kept, Same
  <2> QED  BY <2>1, WebAddTyped
<1> HIDE DEF v
<1>5. CASE Early(Last(e))
  <2>1. w = e
    BY <1>5 DEF Same
  <2>2. IsLog(e)
    <3>1. \A i, j \in DOMAIN e : i < j => e[i].x < e[j].x
      <4> SUFFICES ASSUME NEW i \in DOMAIN e, NEW j \in DOMAIN e, i < j PROVE e[i].x < e[j].x
        OBVIOUS
      <4>1. i \in DOMAIN g /\ j \in DOMAIN g /\ g[i] = e[i] /\ g[j] = e[j]
        BY <1>1
      <4>2. g[i].x < g[j].x
        BY <4>1 DEF IsLog
      <4> QED  BY <4>1, <4>2
    <3>2. \A i \in DOMAIN e : 1 < i /\ i < Len(e) => LogFar(e[i - 1], e[i])
      <4> SUFFICES ASSUME NEW i \in DOMAIN e, 1 < i, i < Len(e) PROVE LogFar(e[i - 1], e[i])
        OBVIOUS
      <4>1. i \in DOMAIN g /\ i < Len(g) /\ g[i] = e[i] /\ g[i - 1] = e[i - 1]
        BY <1>1
      <4> QED  BY <4>1 DEF IsLog
    <3> QED  BY <3>1, <3>2 DEF IsLog
  <2>3. LogLanded(e)
    <3>1. CASE Len(e) < 2
      BY <3>1, LogLandedIs, Zenon
    <3>2. CASE ~(Len(e) < 2)
      <4>1. /\ Len(e) \in DOMAIN g /\ 1 < Len(e) /\ Len(e) < Len(g)
            /\ g[Len(e)] = Last(e) /\ g[Len(e) - 1] = e[Len(e) - 1]
        BY <1>1, <3>2
      <4>2. LogFar(g[Len(e) - 1], g[Len(e)])
        BY <4>1 DEF IsLog
      <4> QED  BY <4>1, <4>2, LogLandedIs
    <3> QED  BY <3>1, <3>2
  <2>4. WebLanded(e)
    BY <1>5, <2>2, <2>3, LandsAlike
  <2>5. Appended(e, q, v)
    BY <1>4, <2>1, <2>4
  <2>6. v = g
    <3>1. \A i \in 1..Len(v) : v[i] = g[i]
      BY <1>1, <2>5 DEF Appended
    <3>2. Len(v) = Len(g)
      BY <1>1, <2>5 DEF Appended
    <3> QED  BY <1>4, <3>1, <3>2, SamePoints
  <2>7. Same(v, g)
    BY <1>2, <2>6, SameItself
  <2> QED  BY <2>7 DEF v
<1>6. CASE ~Early(Last(e))
  <2>1. ~Early(q)
    <3>1. Last(e).x <= q.x
      BY <1>3
    <3> QED  BY <1>3, <1>6, <3>1, LaterIsLate
  <2>2. w # <<>> /\ ~Early(Last(w)) /\ EarlyAgree(w, e)
    BY <1>6 DEF Same
  <2>3. EarlyAgree(w, v)
    BY <1>4, <2>1, <2>2, LateAppended
  <2>4. EarlyAgree(e, g)
    BY <2>1, LateAppended
  <2>5. EarlyAgree(v, g)
    <3>1. EarlyAgree(v, w)
      BY <2>3 DEF EarlyAgree
    <3> QED  BY <2>2, <2>4, <3>1, EarlyAgreeOn, Zenon
  <2>6. Same(v, g)
    BY <1>2, <1>4, <2>1, <2>5 DEF Same
  <2> QED  BY <2>6 DEF v
<1> QED  BY <1>5, <1>6

\* The first point of the answer takes the place of the chart's last, or is it.
LEMMA BeginsSame ==
  ASSUME NEW c \in Seq(Points), NEW p \in Seq(Points), p # <<>>,
         c # <<>> => /\ Early(Last(c)) /\ IsLog(c)
                     /\ p[1] = Last(c) \/ (Last(c).x < p[1].x /\ ~LogLanded(c)),
         NEW b, b = IF c = <<>> THEN 0 ELSE Len(c) - 1
  PROVE  Same(WebAdd(c, p[1]), SubSeq(Goes(c, p), 1, b + 1))
<1> DEFINE q == p[1]
           v == WebAdd(c, q)
           h == Goes(c, p)
           e == SubSeq(h, 1, b + 1)
<1>1. /\ Len(p) \in Nat \ {0} /\ q \in Points /\ Len(c) \in Nat
      /\ c # <<>> => Len(c) \in Nat \ {0} /\ Last(c) \in Points /\ Last(c) = c[Len(c)]
  BY LastTyped
<1>2. /\ v \in Seq(Points) /\ v # <<>>
      /\ \/ Kept(c, q, v) \/ (WebLanded(c) /\ Appended(c, q, v))
         \/ (~WebLanded(c) /\ Replaced(c, q, v))
  <2> HIDE DEF q
  <2> QED  BY <1>1, WebAddTyped
<1>3. b \in Nat /\ (c = <<>> => b = 0 /\ Len(c) = 0) /\ (c # <<>> => b = Len(c) - 1)
  BY <1>1
<1>4. /\ h \in Seq(Points) /\ b + 1 <= Len(h) /\ h[b + 1] = q
      /\ \A i \in 1..b : h[i] = c[i]
  <2>1. CASE c = <<>>
    BY <1>1, <1>3, <2>1 DEF Goes
  <2>2. CASE c # <<>>
    <3> DEFINE f == Front(c)
    <3>1. /\ f \in Seq(Points) /\ Len(f) = b /\ \A i \in 1..b : f[i] = c[i]
      BY <1>3, <2>2, LastTyped
    <3>2. h = f \o p
      BY <2>2 DEF Goes
    <3> HIDE DEF f, h
    <3>3. /\ h \in Seq(Points) /\ Len(h) = b + Len(p)
          /\ \A i \in 1..b : h[i] = f[i]
          /\ \A i \in 1..Len(p) : h[b + i] = p[i]
      <4>1. /\ f \o p \in Seq(Points) /\ Len(f \o p) = Len(f) + Len(p)
            /\ \A i \in 1..Len(f) : (f \o p)[i] = f[i]
            /\ \A i \in 1..Len(p) : (f \o p)[Len(f) + i] = p[i]
        BY <3>1, Joined
      <4> QED  BY <3>1, <3>2, <4>1, Zenon
    <3>4. 1 \in 1..Len(p) /\ b + 1 <= b + Len(p)
      BY <1>1, <1>3
    <3> QED  BY <3>1, <3>3, <3>4
  <2> QED  BY <2>1, <2>2
<1> HIDE DEF h
<1>5. /\ e \in Seq(Points) /\ Len(e) = b + 1 /\ e[b + 1] = q
      /\ \A i \in 1..b : e[i] = c[i]
  BY <1>3, <1>4
<1> HIDE DEF e, v, q
<1>6. Len(v) = b + 1 /\ v[b + 1] = q /\ \A i \in 1..b : v[i] = c[i]
  <2>1. CASE c = <<>>
    <3>1. Appended(c, q, v)
      BY <1>2, <2>1 DEF Kept, Replaced
    <3> QED  BY <1>3, <2>1, <3>1 DEF Appended
  <2>2. CASE c # <<>> /\ q = Last(c)
    <3>1. Kept(c, q, v)
      BY <2>2 DEF Kept, v, WebAdd, Packed
    <3>2. v = c
      BY <3>1 DEF Kept
    <3> QED  BY <1>1, <1>3, <2>2, <3>2
  <2>3. CASE c # <<>> /\ q # Last(c)
    <3>1. ~LogLanded(c)
      BY <2>3 DEF q
    <3>2. ~WebLanded(c)
      BY <2>3, <3>1, LandsAlike
    <3>3. Replaced(c, q, v)
      BY <1>2, <2>3, <3>2 DEF Kept
    <3> QED  BY <1>1, <1>3, <2>3, <3>3 DEF Replaced
  <2> QED  BY <2>1, <2>2, <2>3
<1>7. v = e
  <2>1. \A i \in 1..Len(v) : v[i] = e[i]
    <3> SUFFICES ASSUME NEW i \in 1..Len(v) PROVE v[i] = e[i]
      OBVIOUS
    <3>1. i \in 1..b \/ i = b + 1
      BY <1>3, <1>6
    <3> QED  BY <1>5, <1>6, <3>1
  <2> QED  BY <1>2, <1>5, <1>6, <2>1, SamePoints
<1>8. Same(v, e)
  BY <1>2, <1>7, SameItself
<1> QED  BY <1>8 DEF v, e, h, q

LEMMA MergedEarly ==
  ASSUME NEW c \in Seq(Points), NEW p \in Seq(Points), p # <<>>,
         c # <<>> => /\ Early(Last(c)) /\ IsLog(c)
                     /\ p[1] = Last(c) \/ (Last(c).x < p[1].x /\ ~LogLanded(c)),
         IsLog(Goes(c, p))
  PROVE  Same(WebAddAll(c, p), Goes(c, p))
<1> DEFINE n == Len(p)
           f == WebAdding(c, p)
           h == Goes(c, p)
           b == IF c = <<>> THEN 0 ELSE Len(c) - 1
           G == {k \in 0..n : k = 0 \/ Same(f[k], SubSeq(h, 1, b + k))}
<1>1. n \in Nat \ {0} /\ b \in Nat /\ \A k \in 1..n : p[k] \in Points
  BY LastTyped
<1>2. h \in Seq(Points) /\ Len(h) = b + n /\ \A k \in 1..n : h[b + k] = p[k]
  <2>1. CASE c = <<>>
    BY <1>1, <2>1 DEF Goes
  <2>2. CASE c # <<>>
    <3> DEFINE g == Front(c)
    <3>1. g \in Seq(Points) /\ Len(g) = b /\ h = g \o p
      BY <2>2, LastTyped DEF Goes
    <3> HIDE DEF g, h, b
    <3> QED  BY <3>1, Joined
  <2> QED  BY <2>1, <2>2
<1>3. f[0] = c /\ \A k \in 1..n : f[k] = WebAdd(f[k - 1], p[k])
  BY AddingIs
<1>4. \A k \in 0..n : f[k] \in Seq(Points)
  BY AddingTyped
<1>5. Same(WebAdd(c, p[1]), SubSeq(h, 1, b + 1))
  BY BeginsSame
<1> HIDE DEF n, f, h, b
<1>6. 0 \in G
  BY <1>1
<1>7. ASSUME NEW k \in 0..n, k # n, k \in G PROVE k + 1 \in G
  <2>1. k + 1 \in 1..n /\ k + 1 \in 0..n /\ (k + 1) - 1 = k /\ k \in Nat /\ k < n
    BY <1>1, <1>7
  <2>2. f[k + 1] = WebAdd(f[k], p[k + 1]) /\ p[k + 1] \in Points
    BY <1>1, <1>3, <2>1
  <2>3. CASE k = 0
    <3>1. Same(f[1], SubSeq(h, 1, b + 1))
      BY <1>3, <1>5, <2>2, <2>3
    <3>2. k + 1 = 1
      BY <2>3
    <3> QED  BY <2>1, <3>1, <3>2
  <2>4. CASE k # 0
    <3> DEFINE e == SubSeq(h, 1, b + k)
               g == SubSeq(h, 1, b + (k + 1))
    <3>1. Same(f[k], e)
      BY <1>7, <2>4
    <3>2. b + k \in 0..Len(h) /\ b + (k + 1) \in 0..Len(h) /\ b + k >= 1
      BY <1>1, <1>2, <2>1, <2>4
    <3>3. /\ e \in Seq(Points) /\ Len(e) = b + k
          /\ g \in Seq(Points) /\ Len(g) = b + (k + 1) /\ IsLog(g)
      BY <1>2, <3>2, BeginningIsBehind DEF h
    <3>4. /\ \A i \in 1..b + k : e[i] = h[i]
          /\ \A i \in 1..b + (k + 1) : g[i] = h[i]
      BY <1>1, <1>2, <2>1, <3>2
    <3> HIDE DEF e, g
    <3>5. Appended(e, p[k + 1], g)
      <4>1. Len(g) = Len(e) + 1
        BY <1>1, <2>1, <3>3
      <4>2. g[Len(e) + 1] = p[k + 1]
        <5>1. Len(e) + 1 = b + (k + 1) /\ b + (k + 1) \in 1..b + (k + 1)
          BY <1>1, <2>1, <3>3
        <5> QED  BY <1>2, <2>1, <3>4, <5>1
      <4>3. \A i \in 1..Len(e) : g[i] = e[i]
        <5>1. \A i \in 1..Len(e) : i \in 1..b + k /\ i \in 1..b + (k + 1)
          BY <1>1, <2>1, <3>3
        <5> QED  BY <3>4, <5>1
      <4> QED  BY <4>1, <4>2, <4>3 DEF Appended
    <3>6. e # <<>>
      BY <3>2, <3>3
    <3>7. Same(WebAdd(f[k], p[k + 1]), g)
      BY <1>4, <2>1, <2>2, <3>1, <3>3, <3>5, <3>6, StaysSame
    <3> QED  BY <2>1, <2>2, <3>7 DEF g
  <2> QED  BY <2>3, <2>4
<1>8. n \in G
  <2>1. n \in 0..n /\ n \in Nat
    BY <1>1
  <2> HIDE DEF G
  <2> QED  BY <1>6, <1>7, <2>1, Upward
<1>9. SubSeq(h, 1, b + n) = h
  BY <1>1, <1>2
<1>10. Same(f[n], h)
  BY <1>1, <1>8, <1>9
<1> QED  BY <1>10 DEF WebAddAll, f, n, h

LEMMA MergedLate ==
  ASSUME NEW c \in Seq(Points), NEW p \in Seq(Points), c # <<>>, ~Early(Last(c)),
         NEW d \in Seq(Points), d # <<>>, Last(c).x <= Last(d).x,
         \A i \in DOMAIN p : Last(c).x <= p[i].x /\ p[i].x <= Last(d).x
  PROVE  /\ WebAddAll(c, p) # <<>> /\ ~Early(Last(WebAddAll(c, p)))
         /\ Last(WebAddAll(c, p)).x <= Last(d).x /\ EarlyAgree(WebAddAll(c, p), c)
<1> DEFINE n == Len(p)
           f == WebAdding(c, p)
           Fits(w) == /\ w # <<>> /\ ~Early(Last(w)) /\ Last(w).x <= Last(d).x
                      /\ EarlyAgree(w, c)
           G == {k \in 0..n : Fits(f[k])}
<1>1. n \in Nat /\ \A k \in 1..n : p[k] \in Points /\ k \in DOMAIN p
  OBVIOUS
<1>2. f[0] = c /\ \A k \in 1..n : f[k] = WebAdd(f[k - 1], p[k])
  BY AddingIs
<1>3. \A k \in 0..n : f[k] \in Seq(Points)
  BY AddingTyped
<1> HIDE DEF n, f
<1>4. 0 \in G
  <2>1. EarlyAgree(c, c)
    BY DEF EarlyAgree
  <2> QED  BY <1>1, <1>2, <2>1
<1>5. ASSUME NEW k \in 0..n, k # n, k \in G PROVE k + 1 \in G
  <2> DEFINE w == f[k]
             q == p[k + 1]
             v == f[k + 1]
  <2>1. k + 1 \in 1..n /\ k + 1 \in 0..n /\ (k + 1) - 1 = k
    BY <1>1, <1>5
  <2>2. v = WebAdd(w, q) /\ q \in Points /\ w \in Seq(Points) /\ Fits(w)
    BY <1>1, <1>2, <1>3, <1>5, <2>1
  <2>3. Last(c).x <= q.x /\ q.x <= Last(d).x
    BY <1>1, <2>1
  <2> HIDE DEF w, q, v
  <2>4. ~Early(q)
    <3>1. Last(c) \in Points
      BY LastTyped
    <3> QED  BY <2>2, <2>3, <3>1, LaterIsLate
  <2>5. /\ v \in Seq(Points) /\ v # <<>> /\ Last(v) = q
        /\ Kept(w, q, v) \/ Appended(w, q, v) \/ Replaced(w, q, v)
    BY <2>2, WebAddTyped
  <2>6. EarlyAgree(v, c)
    <3>1. CASE Kept(w, q, v)
      BY <2>2, <3>1 DEF Kept
    <3>2. CASE Appended(w, q, v) \/ Replaced(w, q, v)
      <4>1. EarlyAgree(w, v)
        BY <2>2, <2>4, <2>5, <3>2, LateAppended
      <4>2. EarlyAgree(v, w)
        BY <4>1 DEF EarlyAgree
      <4> QED  BY <2>2, <4>2, EarlyAgreeOn
    <3> QED  BY <2>5, <3>1, <3>2
  <2>7. Fits(v)
    BY <2>3, <2>4, <2>5, <2>6
  <2> QED  BY <2>1, <2>7 DEF v
<1>6. n \in G
  <2>1. n \in 0..n
    BY <1>1
  <2> HIDE DEF G
  <2> QED  BY <1>1, <1>4, <1>5, <2>1, Upward
<1>7. Fits(f[n])
  BY <1>6
<1> QED  BY <1>7 DEF WebAddAll, f, n

\* fetch_history: the chart with an answer that fits it shows the log.
LEMMA MergedShows ==
  ASSUME NEW c \in Seq(Points), NEW p \in Seq(Points), NEW d \in Seq(Points), IsLog(d),
         c # <<>> => Shows(c, d), GoesOn(c, p, d), WebAddAll(c, p) # <<>>
  PROVE  Shows(WebAddAll(c, p), d)
<1> DEFINE w == WebAddAll(c, p)
           h == Goes(c, p)
<1>1. CASE c = <<>> \/ Early(Last(c))
  <2>1. /\ IsLog(h) /\ Behind(h, d)
        /\ c # <<>> => /\ p # <<>>
                       /\ p[1] = Last(c) \/ (Last(c).x < p[1].x /\ ~LogLanded(c))
    BY <1>1, Zenon DEF GoesOn
  <2>2. c # <<>> => Early(Last(c)) /\ IsLog(c)
    BY <1>1 DEF Shows
  <2>3. p # <<>>
    <3>1. CASE c = <<>> /\ p = <<>>
      <4>1. WebAdding(c, p)[0] = c /\ Len(p) = 0
        BY <3>1, AddingIs
      <4> QED  BY <3>1, <4>1 DEF WebAddAll
    <3> QED  BY <2>1, <3>1
  <2>4. Same(w, h)
    BY <2>1, <2>2, <2>3, MergedEarly
  <2>5. h \in Seq(Points) /\ w \in Seq(Points)
    BY GoesTyped, AddAllTyped
  <2> HIDE DEF w, h
  <2>6. h # <<>>
    <3>1. CASE c = <<>>
      BY <2>3, <3>1 DEF h, Goes
    <3>2. CASE c # <<>>
      <4>1. /\ Front(c) \in Seq(Points) /\ Len(Front(c)) \in Nat /\ Len(p) \in Nat \ {0}
        BY <2>3, <3>2, LastTyped
      <4>2. Len(h) = Len(Front(c)) + Len(p)
        BY <3>2, <4>1, Joined DEF h, Goes
      <4> QED  BY <2>5, <4>1, <4>2
    <3> QED  BY <3>1, <3>2
  <2>7. CASE Early(Last(h))
    <3>1. w = h
      BY <2>4, <2>7 DEF Same
    <3>2. Shows(w, d)
      BY <2>1, <2>5, <2>6, <3>1, BehindIsShown
    <3> QED  BY <3>2 DEF w
  <2>8. CASE ~Early(Last(h))
    <3>1. w # <<>> /\ Last(w) = Last(h) /\ EarlyAgree(w, h)
      BY <2>4 DEF Same
    <3>2. EarlyAgree(h, d)
      BY <2>1, <2>5, <2>6, <2>8, BehindAgrees
    <3>3. d # <<>> /\ Last(h).x <= Last(d).x
      BY <2>1, <2>5, <2>6, BehindLast
    <3>4. EarlyAgree(w, d)
      BY <3>1, <3>2, EarlyAgreeOn
    <3>5. Shows(w, d)
      BY <2>8, <3>1, <3>3, <3>4 DEF Shows
    <3> QED  BY <3>5 DEF w
  <2> QED  BY <2>7, <2>8
<1>2. CASE ~(c = <<>> \/ Early(Last(c)))
  <2>1. d # <<>> /\ \A i \in DOMAIN p : Last(c).x <= p[i].x /\ p[i].x <= Last(d).x
    BY <1>2, Zenon DEF GoesOn
  <2>2. Last(c).x <= Last(d).x /\ EarlyAgree(c, d)
    BY <1>2 DEF Shows
  <2>3. /\ w # <<>> /\ ~Early(Last(w))
        /\ Last(w).x <= Last(d).x /\ EarlyAgree(w, c)
    BY <1>2, <2>1, <2>2, MergedLate
  <2> HIDE DEF w
  <2>4. EarlyAgree(w, d)
    BY <2>2, <2>3, EarlyAgreeOn
  <2>5. Shows(w, d)
    BY <2>1, <2>3, <2>4 DEF Shows
  <2> QED  BY <2>5 DEF w
<1> QED  BY <1>1, <1>2

(***************************************************************************)
(* The invariant.                                                          *)
(***************************************************************************)
LogInv ==
  /\ ~late => IsLog(data) /\ \A i \in DOMAIN data : data[i].x <= seconds
  /\ run = 0 => data = <<>>
  /\ active \/ begin = "counted" \/ tick # NoTick => run # 0

\* What a run that is begun finds: no log but what a late tick has made, and no tick
\* that could be taken for one of its own.
BeginInv ==
  /\ begin # "no" => ~active
  /\ begin # "no" /\ ~late => data = <<>>
  /\ begin = "cleared" => runs < MaxRuns
  /\ begin = "counted" /\ tick # NoTick => tick.of # run
  /\ tick.of \in 0..runs

\* No run is numbered twice, and there is no run before the first.
RunsInv ==
  /\ runs \in 0..MaxRuns /\ run \in 0..runs /\ shown \in 0..runs /\ version \in 0..runs
  /\ answer.run \in 0..runs /\ (answer.run = 0 => answer.data = <<>>)
  /\ ~mixed /\ shown = 0 => chart = <<>>

\* The log is one that a chart can be compared to.
Whole == ~late /\ begin # "cleared"

ChartInv == Whole /\ ~mixed /\ shown = run /\ chart # <<>> => Shows(chart, data)

\* What the request says of the chart stays true until the answer is used, but for
\* a return to the backend.
AskInv ==
  fpc \in {"asked", "paged", "answered"} =>
    /\ cver = -1 \/ cver = req.version
    /\ req.from = IF chart = <<>> THEN 0 ELSE Last(chart).x

\* A run that is counted in the middle of an answer is not the one it is of.
PagedInv == fpc = "paged" /\ answer.run = run => answer.version = version

AnswerInv ==
  Whole /\ fpc \in {"paged", "answered"} /\ answer.run = run =>
    /\ req.version # answer.version => IsLog(answer.data) /\ Behind(answer.data, data)
    /\ req.version = answer.version /\ ~mixed /\ shown = run => GoesOn(chart, answer.data, data)

IInv == /\ TypeOK /\ LogInv /\ BeginInv /\ RunsInv
        /\ ChartInv /\ AskInv /\ PagedInv /\ AnswerInv

LEMMA ShownIsTheLog ==
  ASSUME NEW c \in Seq(Points), NEW d \in Seq(Points), IsLog(d), c # <<>>, Shows(c, d)
  PROVE  LET before(s) == {i \in DOMAIN s : Early(s[i]) /\ s[i].x < Last(c).x}
         IN before(c) = before(d) /\ \A i \in before(c) : c[i] = d[i]
<1> DEFINE B(s) == {i \in DOMAIN s : Early(s[i]) /\ s[i].x < Last(c).x}
<1>1. /\ Len(c) \in Nat \ {0} /\ DOMAIN c = 1..Len(c) /\ Last(c) = c[Len(c)]
      /\ Len(c) \in DOMAIN c /\ Last(c) \in Points /\ Last(c).x \in Nat
      /\ Len(d) \in Nat /\ DOMAIN d = 1..Len(d)
      /\ \A i \in DOMAIN c : c[i].x \in Nat
      /\ \A i \in DOMAIN d : d[i].x \in Nat
  BY LastTyped, PointsTyped
<1>2. \A i \in DOMAIN c : i \in B(c) => i \in DOMAIN d /\ c[i] = d[i]
  <2>1. CASE Early(Last(c))
    <3>1. IsLog(c) /\ Behind(c, d)
      BY <2>1 DEF Shows
    <3> SUFFICES ASSUME NEW i \in DOMAIN c, c[i].x < Last(c).x PROVE i \in DOMAIN d /\ c[i] = d[i]
      OBVIOUS
    <3>2. i # Len(c)
      BY <1>1
    <3>3. i < Len(c) /\ Len(c) <= Len(d)
      BY <1>1, <3>1, <3>2 DEF Behind
    <3> QED  BY <1>1, <3>1, <3>3 DEF Behind
  <2>2. CASE ~Early(Last(c))
    BY <2>2 DEF Shows, EarlyAgree
  <2> QED  BY <2>1, <2>2
<1>3. \A i \in DOMAIN d : i \in B(d) => i \in DOMAIN c /\ c[i] = d[i]
  <2>1. CASE Early(Last(c))
    <3>1. IsLog(c) /\ Behind(c, d) /\ Len(c) \in DOMAIN d /\ Last(c).x <= d[Len(c)].x
      BY <2>1, BehindLast DEF Shows
    <3> SUFFICES ASSUME NEW i \in DOMAIN d, d[i].x < Last(c).x PROVE i \in DOMAIN c /\ c[i] = d[i]
      OBVIOUS
    <3>2. i # Len(c)
      BY <1>1, <3>1
    <3>3. ~(Len(c) < i)
      <4>1. Len(c) < i => d[Len(c)].x < d[i].x
        BY <3>1 DEF IsLog
      <4> QED  BY <1>1, <3>1, <4>1
    <3>4. i < Len(c) /\ i \in DOMAIN c
      BY <1>1, <3>2, <3>3
    <3> QED  BY <3>1, <3>4 DEF Behind
  <2>2. CASE ~Early(Last(c))
    BY <2>2 DEF Shows, EarlyAgree
  <2> QED  BY <2>1, <2>2
<1>4. B(c) = B(d)
  BY <1>2, <1>3
<1>5. \A i \in B(c) : c[i] = d[i]
  BY <1>2
<1> QED  BY <1>4, <1>5

LEMMA IInvShows == IInv => ChartOK
<1> SUFFICES ASSUME IInv PROVE ChartIsTheLog
  BY DEF IInv, ChartOK
<1>1. chart \in Seq(Points) /\ data \in Seq(Points)
  BY DEF IInv, TypeOK
<1>2. CASE Whole /\ ~mixed /\ shown = run /\ chart # <<>>
  <2>1. Shows(chart, data) /\ IsLog(data)
    BY <1>2 DEF IInv, ChartInv, LogInv, Whole
  <2> QED  BY <1>1, <1>2, <2>1, ShownIsTheLog, Zenon DEF ChartIsTheLog
<1>3. CASE ~(Whole /\ ~mixed /\ shown = run /\ chart # <<>>)
  BY <1>3, Zenon DEF ChartIsTheLog, Whole
<1> QED  BY <1>2, <1>3

LEMMA NoTickTyped == NoTick \in [x : 0..MaxTime, of : 0..MaxRuns] /\ NoTick.of = 0
BY Bounds DEF NoTick

LEMMA IInvAtFirst == Init => IInv
<1> SUFFICES ASSUME Init PROVE IInv
  OBVIOUS
<1>1. /\ data = <<>> /\ version = 0 /\ active = FALSE /\ seconds = 0
      /\ chart = <<>> /\ cver = -1 /\ fpc = "idle"
      /\ req = [version |-> -1, from |-> 0] /\ answer.version = 0 /\ answer.data = <<>>
      /\ answer.run = 0 /\ run = 0 /\ shown = 0 /\ mixed = FALSE /\ runs = 0
      /\ begin = "no" /\ tick = NoTick /\ tick.of = 0 /\ late = FALSE
  BY DEF Init, NoRequest, NoAnswer, NoTick
<1>2. TypeOK
  <2>1. <<>> \in Seq(Points) /\ Len(<<>>) = 0
    OBVIOUS
  <2>2. req \in [version : -1..MaxRuns, from : 0..MaxTime]
    BY <1>1, Bounds
  <2>3. data \in Seq(Points) /\ chart \in Seq(Points) /\ answer.data \in Seq(Points)
    BY <1>1, <2>1, Zenon
  <2>4. Len(data) <= MaxPoints /\ Len(answer.data) <= MaxChunk
    BY <1>1, <2>1, Bounds
  <2>5. /\ version \in 0..MaxRuns /\ seconds \in 0..MaxTime /\ cver \in -1..MaxRuns
        /\ answer.version \in 0..MaxRuns /\ run \in 0..MaxRuns /\ shown \in 0..MaxRuns
    BY <1>1, Bounds
  <2>6. /\ active \in BOOLEAN /\ mixed \in BOOLEAN
        /\ fpc \in {"idle", "ask", "asked", "paged", "answered"}
        /\ begin \in {"no", "cleared", "counted"} /\ late \in BOOLEAN
    BY <1>1, Zenon
  <2>7. tick \in [x : 0..MaxTime, of : 0..MaxRuns]
    BY <1>1, NoTickTyped, Zenon
  <2> QED  BY <2>2, <2>3, <2>4, <2>5, <2>6, <2>7, Zenon DEF TypeOK
<1>3. LogInv /\ BeginInv
  BY <1>1 DEF LogInv, BeginInv, IsLog
<1>4. RunsInv
  BY <1>1, Bounds DEF RunsInv
<1>5. ChartInv /\ AskInv /\ PagedInv /\ AnswerInv
  BY <1>1 DEF ChartInv, AskInv, PagedInv, AnswerInv
<1> QED  BY <1>2, <1>3, <1>4, <1>5 DEF IInv

\* What the steps use of the state.
LEMMA StateTyped ==
  ASSUME IInv
  PROVE  /\ data \in Seq(Points) /\ Len(data) <= MaxPoints
         /\ chart \in Seq(Points) /\ answer.data \in Seq(Points) /\ Len(answer.data) <= MaxChunk
         /\ version \in 0..MaxRuns /\ active \in BOOLEAN /\ seconds \in 0..MaxTime
         /\ begin \in {"no", "cleared", "counted"} /\ late \in BOOLEAN
         /\ tick \in [x : 0..MaxTime, of : 0..MaxRuns]
         /\ cver \in -1..MaxRuns /\ fpc \in {"idle", "ask", "asked", "paged", "answered"}
         /\ req \in [version : -1..MaxRuns, from : 0..MaxTime] /\ answer.version \in 0..MaxRuns
         /\ run \in 0..MaxRuns /\ shown \in 0..MaxRuns /\ mixed \in BOOLEAN
BY Zenon DEF IInv, TypeOK

LEMMA ClearLogKeeps == ASSUME IInv, ClearLog PROVE IInv'
<1>1. /\ ~active /\ begin' = "cleared" /\ runs < MaxRuns /\ data' = <<>> /\ late' = FALSE
      /\ version' = version /\ active' = active /\ seconds' = seconds /\ tick' = tick
      /\ run' = run /\ runs' = runs
      /\ chart' = chart /\ cver' = cver /\ shown' = shown /\ mixed' = mixed
      /\ fpc' = fpc /\ req' = req /\ answer' = answer
  BY DEF ClearLog, webVars, callVars
<1>2. TypeOK'
  <2>1. data' \in Seq(Points) /\ Len(data') <= MaxPoints
    BY <1>1, Bounds
  <2>2. begin' \in {"no", "cleared", "counted"} /\ late' \in BOOLEAN
    BY <1>1, Zenon
  <2> QED  BY <1>1, <2>1, <2>2, StateTyped, Zenon DEF TypeOK
<1>3. LogInv' /\ BeginInv'
  BY <1>1 DEF IInv, LogInv, BeginInv, IsLog
<1>4. RunsInv' /\ AskInv' /\ PagedInv'
  BY <1>1, Zenon DEF IInv, RunsInv, AskInv, PagedInv
<1>5. ChartInv' /\ AnswerInv'
  BY <1>1 DEF ChartInv, AnswerInv, Whole
<1> QED  BY <1>2, <1>3, <1>4, <1>5 DEF IInv

LEMMA CountRunKeeps == ASSUME IInv, CountRun PROVE IInv'
<1> USE Bounds
<1>1. /\ begin = "cleared" /\ begin' = "counted"
      /\ version' = version + 1 /\ runs' = runs + 1 /\ run' = runs + 1 /\ seconds' = 0
      /\ data' = data /\ active' = active /\ tick' = tick /\ late' = late
      /\ chart' = chart /\ cver' = cver /\ shown' = shown /\ mixed' = mixed
      /\ fpc' = fpc /\ req' = req /\ answer' = answer
  BY DEF CountRun, webVars, callVars
<1>2. /\ runs \in 0..MaxRuns /\ run \in 0..runs /\ shown \in 0..runs /\ version \in 0..runs
      /\ answer.run \in 0..runs /\ (answer.run = 0 => answer.data = <<>>)
      /\ (~mixed /\ shown = 0 => chart = <<>>)
      /\ runs < MaxRuns /\ tick.of \in 0..runs /\ ~active /\ (~late => data = <<>>)
  BY <1>1 DEF IInv, RunsInv, BeginInv
<1>3. TypeOK'
  <2>1. version' \in 0..MaxRuns /\ run' \in 0..MaxRuns /\ seconds' \in 0..MaxTime
    BY <1>1, <1>2
  <2>2. begin' \in {"no", "cleared", "counted"}
    BY <1>1, Zenon
  <2> QED  BY <1>1, <2>1, <2>2, StateTyped, Zenon DEF TypeOK
<1>4. LogInv' /\ BeginInv'
  BY <1>1, <1>2 DEF LogInv, BeginInv, IsLog
<1>5. RunsInv'
  BY <1>1, <1>2 DEF RunsInv
<1>6. shown' # run' /\ answer'.run # run'
  BY <1>1, <1>2
<1>7. ChartInv' /\ PagedInv' /\ AnswerInv'
  BY <1>6 DEF ChartInv, PagedInv, AnswerInv
<1>8. AskInv'
  BY <1>1 DEF IInv, AskInv
<1> QED  BY <1>3, <1>4, <1>5, <1>7, <1>8 DEF IInv

\* What a log that goes on makes of the chart and of an answer.
LEMMA GoingOnKeeps ==
  ASSUME IInv, Whole, data' \in Seq(Points), IsLog(data'), Behind(data, data'),
         UNCHANGED <<webVars, callVars, run>>
  PROVE  ChartInv' /\ AnswerInv'
<1>1. /\ chart' = chart /\ cver' = cver /\ shown' = shown /\ mixed' = mixed
      /\ fpc' = fpc /\ req' = req /\ answer' = answer /\ run' = run
  BY DEF webVars, callVars
<1>2. data \in Seq(Points) /\ IsLog(data)
  BY StateTyped DEF IInv, LogInv, Whole
<1>3. ChartInv'
  <2> SUFFICES ASSUME ~mixed, shown = run, chart # <<>> PROVE Shows(chart, data')
    BY <1>1, Zenon DEF ChartInv
  <2>1. Shows(chart, data) /\ chart \in Seq(Points)
    BY StateTyped DEF IInv, ChartInv
  <2> QED  BY <1>2, <2>1, ShowsOn
<1>4. AnswerInv'
  <2> SUFFICES ASSUME fpc \in {"paged", "answered"}, answer.run = run
               PROVE  /\ req.version # answer.version
                           => IsLog(answer.data) /\ Behind(answer.data, data')
                      /\ req.version = answer.version /\ ~mixed /\ shown = run
                           => GoesOn(chart, answer.data, data')
    BY <1>1, Zenon DEF AnswerInv
  <2>1. /\ req.version # answer.version
             => IsLog(answer.data) /\ Behind(answer.data, data)
        /\ req.version = answer.version /\ ~mixed /\ shown = run
             => GoesOn(chart, answer.data, data)
    BY Zenon DEF IInv, AnswerInv
  <2>2. answer.data \in Seq(Points) /\ chart \in Seq(Points)
    BY StateTyped
  <2>3. ASSUME req.version # answer.version
        PROVE  IsLog(answer.data) /\ Behind(answer.data, data')
    BY <1>2, <2>1, <2>2, <2>3, BehindOn
  <2>4. ASSUME req.version = answer.version, ~mixed, shown = run
        PROVE  GoesOn(chart, answer.data, data')
    BY <1>2, <2>1, <2>2, <2>4, GoesOnOn
  <2> QED  BY <2>3, <2>4
<1> QED  BY <1>3, <1>4

LEMMA FirstPointKeeps == ASSUME IInv, FirstPoint PROVE IInv'
<1> USE Bounds
<1>1. /\ begin = "counted" /\ begin' = "no" /\ active' = TRUE
      /\ version' = version /\ seconds' = seconds /\ tick' = tick /\ late' = late
      /\ run' = run /\ runs' = runs
      /\ chart' = chart /\ cver' = cver /\ shown' = shown /\ mixed' = mixed
      /\ fpc' = fpc /\ req' = req /\ answer' = answer
  BY DEF FirstPoint, webVars, callVars
<1>2. PICK y \in Temps : data' = LogAdd(data, [x |-> 0, y |-> y])
  BY DEF FirstPoint
<1> DEFINE p == [x |-> 0, y |-> y]
<1>3. data \in Seq(Points) /\ Len(data) <= MaxPoints /\ seconds \in Nat
  BY StateTyped
<1>4. p \in Points /\ p.x = 0 /\ data' = LogAdd(data, p)
  BY <1>2 DEF Points
<1> HIDE DEF p
<1>5. data' \in Seq(Points) /\ Len(data') <= MaxPoints
  BY <1>3, <1>4, LogAddTyped
<1>6. ASSUME ~late
      PROVE  IsLog(data') /\ Behind(data, data') /\ \A i \in DOMAIN data' : data'[i].x <= 0
  <2>1. data = <<>> /\ IsLog(data) /\ \A i \in DOMAIN data : data[i].x < p.x
    BY <1>1, <1>6 DEF IInv, LogInv, BeginInv
  <2> QED  BY <1>3, <1>4, <2>1, LogGoesOn
<1>7. TypeOK'
  <2>1. begin' \in {"no", "cleared", "counted"} /\ active' \in BOOLEAN
    BY <1>1, Zenon
  <2> QED  BY <1>1, <1>5, <2>1, StateTyped, Zenon DEF TypeOK
<1>8. LogInv'
  <2>1. run # 0
    BY <1>1 DEF IInv, LogInv
  <2>2. ~late => \A i \in DOMAIN data' : data'[i].x <= seconds
    <3>1. \A i \in DOMAIN data' : data'[i].x \in Nat
      BY <1>5, PointsTyped
    <3> QED  BY <1>3, <1>6, <3>1
  <2> QED  BY <1>1, <1>6, <2>1, <2>2, Zenon DEF LogInv
<1>9. BeginInv'
  BY <1>1 DEF IInv, BeginInv
<1>10. RunsInv' /\ AskInv' /\ PagedInv'
  BY <1>1, Zenon DEF IInv, RunsInv, AskInv, PagedInv
<1>11. ChartInv' /\ AnswerInv'
  <2>1. CASE late
    BY <1>1, <2>1, Zenon DEF ChartInv, AnswerInv, Whole
  <2>2. CASE ~late
    <3>1. Whole /\ UNCHANGED <<webVars, callVars, run>>
      BY <1>1, <2>2 DEF Whole, webVars, callVars
    <3> QED  BY <1>5, <1>6, <2>2, <3>1, GoingOnKeeps
  <2> QED  BY <2>1, <2>2
<1> QED  BY <1>7, <1>8, <1>9, <1>10, <1>11 DEF IInv

LEMMA TickReadsKeeps == ASSUME IInv, TickReads PROVE IInv'
<1> USE Bounds
<1>1. /\ active /\ seconds < MaxTime /\ tick' = [x |-> seconds + 1, of |-> run]
      /\ data' = data /\ version' = version /\ active' = active /\ seconds' = seconds
      /\ begin' = begin /\ late' = late /\ run' = run /\ runs' = runs
      /\ chart' = chart /\ cver' = cver /\ shown' = shown /\ mixed' = mixed
      /\ fpc' = fpc /\ req' = req /\ answer' = answer
  BY DEF TickReads, webVars, callVars
<1>2. tick' \in [x : 0..MaxTime, of : 0..MaxRuns] /\ tick'.of = run
  <2>1. seconds \in 0..MaxTime /\ run \in 0..MaxRuns
    BY StateTyped
  <2>2. seconds + 1 \in 0..MaxTime
    BY <1>1, <2>1
  <2> QED  BY <1>1, <2>1, <2>2
<1>3. TypeOK'
  BY <1>1, <1>2, StateTyped, Zenon DEF TypeOK
<1>4. LogInv'
  BY <1>1, Zenon DEF IInv, LogInv
<1>5. BeginInv'
  <2>1. run \in 0..runs
    BY DEF IInv, RunsInv
  <2> QED  BY <1>1, <1>2, <2>1 DEF IInv, BeginInv
<1>6. RunsInv' /\ ChartInv' /\ AskInv' /\ PagedInv' /\ AnswerInv'
  BY <1>1, Zenon DEF IInv, RunsInv, ChartInv, AskInv, PagedInv, AnswerInv, Whole
<1> QED  BY <1>3, <1>4, <1>5, <1>6 DEF IInv

\* A tick of this run finds its log; what another records makes it late.
LEMMA RecordKeeps == ASSUME IInv, Record PROVE IInv'
<1> USE Bounds
<1>1. /\ tick # NoTick /\ tick' = NoTick
      /\ version' = version /\ active' = active /\ begin' = begin
      /\ run' = run /\ runs' = runs
      /\ chart' = chart /\ cver' = cver /\ shown' = shown /\ mixed' = mixed
      /\ fpc' = fpc /\ req' = req /\ answer' = answer
  BY DEF Record, webVars, callVars
<1>2. PICK x \in {tick.x} \cup {t \in {MaxTime} : tick.of # run}, y \in Temps :
         IF x > seconds
         THEN /\ data' = LogAdd(data, [x |-> x, y |-> y]) /\ seconds' = x
              /\ late' = (late \/ begin = "cleared" \/ tick.of # run)
         ELSE UNCHANGED <<data, seconds, late>>
  BY DEF Record
<1>3. data \in Seq(Points) /\ Len(data) <= MaxPoints /\ seconds \in 0..MaxTime /\ x \in 0..MaxTime
  <2>1. tick.x \in 0..MaxTime
    BY StateTyped
  <2> QED  BY <2>1, StateTyped
<1>4. run # 0 /\ NoTick \in [x : 0..MaxTime, of : 0..MaxRuns] /\ NoTick.of = 0
  BY <1>1, NoTickTyped DEF IInv, LogInv
<1>5. runs \in Nat
  BY DEF IInv, RunsInv
<1>6. RunsInv' /\ AskInv' /\ PagedInv'
  BY <1>1, Zenon DEF IInv, RunsInv, AskInv, PagedInv
<1>7. CASE ~(x > seconds)
  <2>1. data' = data /\ seconds' = seconds /\ late' = late
    BY <1>2, <1>7
  <2>2. TypeOK'
    BY <1>1, <1>4, <2>1, StateTyped, Zenon DEF TypeOK
  <2>3. LogInv'
    BY <1>1, <2>1, Zenon DEF IInv, LogInv
  <2>4. BeginInv'
    BY <1>1, <1>4, <1>5, <2>1 DEF IInv, BeginInv
  <2>5. ChartInv' /\ AnswerInv'
    BY <1>1, <2>1, Zenon DEF IInv, ChartInv, AnswerInv, Whole
  <2> QED  BY <1>6, <2>2, <2>3, <2>4, <2>5 DEF IInv
<1>8. CASE x > seconds
  <2> DEFINE p == [x |-> x, y |-> y]
  <2>1. /\ seconds' = x /\ late' = (late \/ begin = "cleared" \/ tick.of # run)
        /\ p \in Points /\ p.x = x /\ data' = LogAdd(data, p)
    BY <1>2, <1>3, <1>8 DEF Points
  <2> HIDE DEF p
  <2>2. data' \in Seq(Points) /\ Len(data') <= MaxPoints
    BY <1>3, <2>1, LogAddTyped
  <2>3. late' \in BOOLEAN
    BY <2>1, Zenon
  <2>4. TypeOK'
    BY <1>1, <1>3, <1>4, <2>1, <2>2, <2>3, StateTyped, Zenon DEF TypeOK
  <2>5. ASSUME ~late' PROVE ~late /\ Whole /\ begin = "no"
    <3>1. ~late /\ begin # "cleared" /\ tick.of = run
      BY <2>1, <2>5, Zenon
    <3>2. begin # "counted"
      BY <1>1, <3>1 DEF IInv, BeginInv
    <3> QED  BY <3>1, <3>2, StateTyped DEF Whole
  <2>6. ASSUME ~late'
        PROVE  /\ IsLog(data') /\ Behind(data, data')
               /\ \A i \in DOMAIN data' : data'[i].x <= seconds'
    <3>1. IsLog(data) /\ \A i \in DOMAIN data : data[i].x <= seconds
      BY <2>5, <2>6 DEF IInv, LogInv
    <3>2. \A i \in DOMAIN data : data[i].x \in Nat
      BY <1>3, PointsTyped
    <3>3. \A i \in DOMAIN data : data[i].x < p.x
      BY <1>3, <1>8, <2>1, <3>1, <3>2
    <3> QED  BY <1>3, <2>1, <3>1, <3>3, LogGoesOn
  <2>7. LogInv'
    BY <1>1, <1>4, <2>6, Zenon DEF LogInv
  <2>8. BeginInv'
    <3>1. ~late' => begin = "no"
      BY <2>5
    <3> QED  BY <1>1, <1>4, <1>5, <3>1 DEF IInv, BeginInv
  <2>9. ChartInv' /\ AnswerInv'
    <3>1. CASE late'
      BY <3>1, Zenon DEF ChartInv, AnswerInv, Whole
    <3>2. CASE ~late'
      <4>1. Whole /\ UNCHANGED <<webVars, callVars, run>>
        BY <1>1, <2>5, <3>2 DEF webVars, callVars
      <4> QED  BY <2>2, <2>6, <3>2, <4>1, GoingOnKeeps
    <3> QED  BY <3>1, <3>2
  <2> QED  BY <1>6, <2>4, <2>7, <2>8, <2>9 DEF IInv
<1> QED  BY <1>7, <1>8

LEMMA StopRunKeeps == ASSUME IInv, StopRun PROVE IInv'
<1>1. /\ active' = FALSE
      /\ data' = data /\ seconds' = seconds /\ version' = version /\ run' = run /\ runs' = runs
      /\ begin' = begin /\ tick' = tick /\ late' = late
      /\ chart' = chart /\ cver' = cver /\ shown' = shown /\ mixed' = mixed
      /\ fpc' = fpc /\ req' = req /\ answer' = answer
  BY DEF StopRun, webVars, callVars
<1>2. TypeOK'
  BY <1>1, StateTyped, Zenon DEF TypeOK
<1>3. LogInv' /\ BeginInv'
  BY <1>1, Zenon DEF IInv, LogInv, BeginInv
<1>4. RunsInv' /\ ChartInv' /\ AskInv' /\ PagedInv' /\ AnswerInv'
  BY <1>1, Zenon DEF IInv, RunsInv, ChartInv, AskInv, PagedInv, AnswerInv, Whole
<1> QED  BY <1>2, <1>3, <1>4 DEF IInv

LEMMA RebootKeeps == ASSUME IInv, Reboot PROVE IInv'
<1> USE Bounds
<1>1. /\ data' = <<>> /\ version' = 0 /\ active' = FALSE /\ seconds' = 0 /\ run' = 0
      /\ fpc' = "idle" /\ req' = [version |-> -1, from |-> 0]
      /\ answer'.version = 0 /\ answer'.data = <<>> /\ answer'.run = 0
      /\ begin' = "no" /\ tick' = NoTick /\ late' = FALSE /\ runs' = runs
      /\ chart' = chart /\ cver' = cver /\ shown' = shown /\ mixed' = mixed
  BY DEF Reboot, webVars, NoRequest, NoAnswer
<1>2. TypeOK'
  <2>1. /\ data' \in Seq(Points) /\ Len(data') <= MaxPoints
        /\ answer'.data \in Seq(Points) /\ Len(answer'.data) <= MaxChunk
    BY <1>1
  <2>2. /\ version' \in 0..MaxRuns /\ seconds' \in 0..MaxTime /\ run' \in 0..MaxRuns
        /\ answer'.version \in 0..MaxRuns
    BY <1>1
  <2>3. req' \in [version : -1..MaxRuns, from : 0..MaxTime]
    BY <1>1
  <2>4. active' \in BOOLEAN /\ late' \in BOOLEAN /\ begin' \in {"no", "cleared", "counted"}
        /\ fpc' \in {"idle", "ask", "asked", "paged", "answered"}
    BY <1>1, Zenon
  <2>5. tick' \in [x : 0..MaxTime, of : 0..MaxRuns]
    BY <1>1, NoTickTyped, Zenon
  <2> QED  BY <1>1, <2>1, <2>2, <2>3, <2>4, <2>5, StateTyped, Zenon DEF TypeOK
<1>3. LogInv' /\ BeginInv'
  <2>1. runs \in Nat
    BY DEF IInv, RunsInv
  <2> QED  BY <1>1, <2>1, NoTickTyped DEF LogInv, BeginInv, IsLog
<1>4. RunsInv'
  BY <1>1 DEF IInv, RunsInv
<1>5. ChartInv'
  BY <1>1 DEF IInv, RunsInv, ChartInv
<1>6. AskInv' /\ PagedInv' /\ AnswerInv'
  BY <1>1 DEF AskInv, PagedInv, AnswerInv
<1> QED  BY <1>2, <1>3, <1>4, <1>5, <1>6 DEF IInv

\* The version that a client knows is that of the log, or it gets the log from the
\* beginning.
LEMMA AnswerKeeps == ASSUME IInv, Answer PROVE IInv'
<1> USE Bounds
<1>1. /\ fpc = "asked" /\ fpc' = "paged"
      /\ data' = data /\ version' = version /\ active' = active /\ seconds' = seconds
      /\ run' = run /\ runs' = runs
      /\ begin' = begin /\ tick' = tick /\ late' = late
      /\ chart' = chart /\ cver' = cver /\ shown' = shown /\ mixed' = mixed /\ req' = req
      /\ answer'.version = version /\ answer'.data = Page(req.version, req.from)
      /\ answer'.run = run
  BY DEF Answer, logVars, webVars
<1>2. /\ data \in Seq(Points) /\ chart \in Seq(Points)
      /\ version \in 0..MaxRuns /\ run \in 0..MaxRuns
      /\ req.version \in -1..MaxRuns /\ req.from \in 0..MaxTime /\ req.from \in Nat
  <2>1. req.version \in -1..MaxRuns /\ req.from \in 0..MaxTime
    BY StateTyped
  <2> QED  BY <2>1, StateTyped
<1> DEFINE skip == Skipped(req.version, req.from)
           n == IF skip + MaxChunk < Len(data) THEN skip + MaxChunk ELSE Len(data)
           p == SubSeq(data, skip + 1, n)
<1>3. skip \in 0..Len(data)
  BY <1>2, SkippedTyped
<1>4. answer'.data = p
  BY <1>1 DEF Page
<1>5. /\ skip \in 0..Len(data) /\ n \in 0..Len(data) /\ skip <= n /\ n <= skip + MaxChunk
      /\ (skip < Len(data) => skip < n)
      /\ Len(data) \in Nat
  <2>1. skip \in 0..Len(data) /\ Len(data) \in Nat
    BY <1>2, <1>3
  <2> HIDE DEF skip
  <2> QED  BY <2>1
<1>6. p \in Seq(Points) /\ Len(p) <= MaxChunk /\ (data = <<>> => p = <<>>)
  <2> HIDE DEF skip, n
  <2>1. p \in Seq(Points) /\ Len(p) = n - skip
    BY <1>2, <1>5
  <2>2. Len(p) <= MaxChunk
    BY <1>5, <2>1
  <2>3. data = <<>> => Len(p) = 0
    BY <1>5, <2>1
  <2> HIDE DEF p
  <2> QED  BY <2>1, <2>2, <2>3
<1>7. ~late /\ req.version # version => IsLog(p) /\ Behind(p, data)
  <2> SUFFICES ASSUME ~late, req.version # version PROVE IsLog(p) /\ Behind(p, data)
    OBVIOUS
  <2>1. skip = 0
    BY Zenon DEF Skipped
  <2>2. p = SubSeq(data, 1, n) /\ IsLog(data)
    BY <2>1 DEF IInv, LogInv
  <2> HIDE DEF n, p
  <2> QED  BY <1>2, <1>5, <2>2, BeginningIsBehind
<1>8. Whole /\ req.version = version /\ ~mixed /\ shown = run => GoesOn(chart, p, data)
  <2> SUFFICES ASSUME Whole, req.version = version, ~mixed, shown = run
               PROVE  GoesOn(chart, p, data)
    OBVIOUS
  <2>1. IsLog(data)
    BY DEF IInv, LogInv, Whole
  <2>2. chart # <<>> => Shows(chart, data)
    BY DEF IInv, ChartInv
  <2>3. req.from = IF chart = <<>> THEN 0 ELSE Last(chart).x
    BY <1>1 DEF IInv, AskInv
  <2>4. \A i \in DOMAIN data : data[i].x < req.from <=> i <= skip
    BY <1>2, <2>1, SkippedAre
  <2> HIDE DEF skip, n
  <2> QED  BY <1>2, <1>5, <2>1, <2>2, <2>3, <2>4, PageGoesOn
<1> HIDE DEF p
<1>9. TypeOK'
  <2>1. fpc' \in {"idle", "ask", "asked", "paged", "answered"}
    BY <1>1, Zenon
  <2> QED  BY <1>1, <1>2, <1>4, <1>6, <2>1, StateTyped, Zenon DEF TypeOK
<1>10. LogInv' /\ BeginInv'
  BY <1>1, Zenon DEF IInv, LogInv, BeginInv
<1>11. RunsInv'
  <2>1. run = 0 => p = <<>>
    BY <1>6 DEF IInv, LogInv
  <2> QED  BY <1>1, <1>4, <2>1, Zenon DEF IInv, RunsInv
<1>12. ChartInv'
  BY <1>1, Zenon DEF IInv, ChartInv, Whole
<1>13. AskInv' /\ PagedInv'
  BY <1>1 DEF IInv, AskInv, PagedInv
<1>14. AnswerInv'
  <2>1. Whole' <=> Whole
    BY <1>1, Zenon DEF Whole
  <2>2. Whole => ~late
    BY Zenon DEF Whole
  <2> QED  BY <1>1, <1>4, <1>7, <1>8, <2>1, <2>2, Zenon DEF AnswerInv
<1> QED  BY <1>9, <1>10, <1>11, <1>12, <1>13, <1>14 DEF IInv

LEMMA FillKeeps == ASSUME IInv, Fill PROVE IInv'
<1>1. /\ fpc = "paged" /\ fpc' = "answered"
      /\ answer'.version = version /\ answer'.data = answer.data /\ answer'.run = answer.run
      /\ data' = data /\ version' = version /\ active' = active /\ seconds' = seconds
      /\ run' = run /\ runs' = runs
      /\ begin' = begin /\ tick' = tick /\ late' = late
      /\ chart' = chart /\ cver' = cver /\ shown' = shown /\ mixed' = mixed /\ req' = req
  BY DEF Fill, logVars, webVars
<1>2. TypeOK'
  <2>1. fpc' \in {"idle", "ask", "asked", "paged", "answered"}
    BY <1>1, Zenon
  <2> QED  BY <1>1, <2>1, StateTyped, Zenon DEF TypeOK
<1>3. LogInv' /\ BeginInv' /\ RunsInv' /\ ChartInv'
  BY <1>1, Zenon DEF IInv, LogInv, BeginInv, RunsInv, ChartInv, Whole
<1>4. AskInv' /\ PagedInv'
  BY <1>1 DEF IInv, AskInv, PagedInv
<1>5. AnswerInv'
  <2>1. answer.run = run => answer.version = version
    BY <1>1 DEF IInv, PagedInv
  <2> QED  BY <1>1, <2>1, Zenon DEF IInv, AnswerInv, Whole
<1> QED  BY <1>2, <1>3, <1>4, <1>5 DEF IInv

LEMMA AskKeeps == ASSUME IInv, Ask PROVE IInv'
<1> USE Bounds
<1>1. /\ fpc' = "asked" /\ answer' = answer
      /\ req' = [version |-> cver, from |-> IF chart = <<>> THEN 0 ELSE Last(chart).x]
      /\ data' = data /\ version' = version /\ active' = active /\ seconds' = seconds
      /\ run' = run /\ runs' = runs
      /\ begin' = begin /\ tick' = tick /\ late' = late
      /\ chart' = chart /\ cver' = cver /\ shown' = shown /\ mixed' = mixed
  BY DEF Ask, logVars, webVars
<1>2. TypeOK'
  <2>1. chart # <<>> => Last(chart).x \in 0..MaxTime
    BY StateTyped, LastTyped, PointsTyped
  <2>2. (IF chart = <<>> THEN 0 ELSE Last(chart).x) \in 0..MaxTime
    BY <2>1
  <2>3. req' \in [version : -1..MaxRuns, from : 0..MaxTime]
    BY <1>1, <2>2, StateTyped
  <2>4. fpc' \in {"idle", "ask", "asked", "paged", "answered"}
    BY <1>1, Zenon
  <2> QED  BY <1>1, <2>3, <2>4, StateTyped, Zenon DEF TypeOK
<1>3. LogInv' /\ BeginInv' /\ RunsInv' /\ ChartInv'
  BY <1>1, Zenon DEF IInv, LogInv, BeginInv, RunsInv, ChartInv, Whole
<1>4. AskInv'
  BY <1>1 DEF AskInv
<1>5. PagedInv' /\ AnswerInv'
  BY <1>1 DEF PagedInv, AnswerInv
<1> QED  BY <1>2, <1>3, <1>4, <1>5 DEF IInv

\* What both ways of using an answer do to the call.
LEMMA CallIsDone ==
  ASSUME Again, Done
  PROVE  /\ fpc' \in {"idle", "ask"}
         /\ req' \in [version : -1..MaxRuns, from : 0..MaxTime]
         /\ answer'.version = 0 /\ answer'.data = <<>> /\ answer'.run = 0
         /\ answer'.version \in 0..MaxRuns /\ answer'.data \in Seq(Points)
         /\ Len(answer'.data) <= MaxChunk
<1>1. answer'.version = 0 /\ answer'.data = <<>> /\ answer'.run = 0
  BY DEF Done, NoAnswer
<1>2. req' \in [version : -1..MaxRuns, from : 0..MaxTime]
  BY Bounds DEF Done, NoRequest
<1>3. fpc' \in {"idle", "ask"}
  BY DEF Again
<1>4. answer'.data \in Seq(Points) /\ Len(answer'.data) <= MaxChunk /\ answer'.version \in 0..MaxRuns
  BY <1>1, Bounds
<1> QED  BY <1>1, <1>2, <1>3, <1>4

\* An answer that is of another version than was asked for has the log from the
\* beginning.
LEMMA ReplaceKeeps == ASSUME IInv, Replace PROVE IInv'
<1>1. /\ fpc = "answered"
      /\ cver' = answer.version /\ chart' = answer.data /\ shown' = answer.run
      /\ mixed' = (req.version = answer.version)
      /\ data' = data /\ version' = version /\ active' = active /\ seconds' = seconds
      /\ run' = run /\ runs' = runs
      /\ begin' = begin /\ tick' = tick /\ late' = late
  BY DEF Replace, logVars
<1>2. /\ fpc' \in {"idle", "ask"}
      /\ req' \in [version : -1..MaxRuns, from : 0..MaxTime]
      /\ answer'.version = 0 /\ answer'.data = <<>> /\ answer'.run = 0
      /\ answer'.version \in 0..MaxRuns /\ answer'.data \in Seq(Points)
      /\ Len(answer'.data) <= MaxChunk
  <2>1. Again /\ Done
    BY DEF Replace
  <2> QED  BY <2>1, CallIsDone
<1>3. /\ runs \in 0..MaxRuns /\ run \in 0..runs /\ version \in 0..runs
      /\ answer.run \in 0..runs /\ (answer.run = 0 => answer.data = <<>>)
  BY DEF IInv, RunsInv
<1>4. TypeOK'
  <2>1. cver' \in -1..MaxRuns /\ shown' \in 0..MaxRuns
    <3>1. answer.version \in 0..MaxRuns
      BY StateTyped
    <3> QED  BY <1>1, <1>3, <3>1, Bounds
  <2>2. mixed' \in BOOLEAN /\ fpc' \in {"idle", "ask", "asked", "paged", "answered"}
    BY <1>1, <1>2, Zenon
  <2> QED  BY <1>1, <1>2, <2>1, <2>2, StateTyped, Zenon DEF TypeOK
<1>5. LogInv' /\ BeginInv'
  BY <1>1, Zenon DEF IInv, LogInv, BeginInv
<1>6. RunsInv'
  BY <1>1, <1>2, <1>3 DEF RunsInv
<1>7. ChartInv'
  <2> SUFFICES ASSUME Whole, ~mixed', shown' = run', chart' # <<>>
               PROVE  Shows(answer.data, data)
    BY <1>1, Zenon DEF ChartInv, Whole
  <2>1. IsLog(answer.data) /\ Behind(answer.data, data)
    BY <1>1, Zenon DEF IInv, AnswerInv
  <2>2. answer.data \in Seq(Points) /\ data \in Seq(Points) /\ IsLog(data)
    BY StateTyped DEF IInv, LogInv, Whole
  <2> QED  BY <1>1, <2>1, <2>2, BehindIsShown
<1>8. AskInv' /\ PagedInv' /\ AnswerInv'
  BY <1>2 DEF AskInv, PagedInv, AnswerInv
<1> QED  BY <1>4, <1>5, <1>6, <1>7, <1>8 DEF IInv

LEMMA MergeKeeps == ASSUME IInv, Merge PROVE IInv'
<1>1. /\ fpc = "answered" /\ answer.version = cver
      /\ cver' = cver /\ shown' = shown
      /\ chart' = WebAddAll(chart, answer.data)
      /\ mixed' = (mixed \/ answer.run # shown)
      /\ data' = data /\ version' = version /\ active' = active /\ seconds' = seconds
      /\ run' = run /\ runs' = runs
      /\ begin' = begin /\ tick' = tick /\ late' = late
  BY DEF Merge, logVars
<1>2. /\ fpc' \in {"idle", "ask"}
      /\ req' \in [version : -1..MaxRuns, from : 0..MaxTime]
      /\ answer'.version = 0 /\ answer'.data = <<>> /\ answer'.run = 0
      /\ answer'.version \in 0..MaxRuns /\ answer'.data \in Seq(Points)
      /\ Len(answer'.data) <= MaxChunk
  <2>1. Again /\ Done
    BY DEF Merge
  <2> QED  BY <2>1, CallIsDone
<1>3. /\ runs \in 0..MaxRuns /\ run \in 0..runs /\ shown \in 0..runs /\ version \in 0..runs
      /\ (answer.run = 0 => answer.data = <<>>)
      /\ (~mixed /\ shown = 0 => chart = <<>>)
  BY DEF IInv, RunsInv
<1>4. /\ answer.data \in Seq(Points) /\ chart \in Seq(Points) /\ data \in Seq(Points)
  BY StateTyped
<1>5. chart' \in Seq(Points)
  BY <1>1, <1>4, AddAllTyped
<1>6. req.version = answer.version
  <2>1. cver = -1 \/ cver = req.version
    BY <1>1 DEF IInv, AskInv
  <2>2. answer.version \in 0..MaxRuns
    BY StateTyped
  <2> QED  BY <1>1, <2>1, <2>2, Bounds
<1>7. ~mixed' => ~mixed /\ answer.run = shown
  BY <1>1, Zenon
<1>8. TypeOK'
  <2>1. mixed' \in BOOLEAN /\ fpc' \in {"idle", "ask", "asked", "paged", "answered"}
    BY <1>1, <1>2, StateTyped, Zenon
  <2> QED  BY <1>1, <1>2, <1>5, <2>1, StateTyped, Zenon DEF TypeOK
<1>9. LogInv' /\ BeginInv'
  BY <1>1, Zenon DEF IInv, LogInv, BeginInv
<1>10. RunsInv'
  <2>1. ASSUME ~mixed', shown' = 0 PROVE chart' = <<>>
    <3>1. chart = <<>> /\ answer.data = <<>> /\ Len(answer.data) = 0
      BY <1>1, <1>3, <1>7, <2>1
    <3>2. WebAdding(chart, answer.data)[0] = chart
      BY <1>4, AddingIs
    <3> QED  BY <1>1, <3>1, <3>2 DEF WebAddAll
  <2>2. answer'.run \in 0..runs
    BY <1>2, <1>3, Bounds
  <2> QED  BY <1>1, <1>2, <1>3, <2>1, <2>2, Zenon DEF RunsInv
<1>11. ChartInv'
  <2> SUFFICES ASSUME Whole, ~mixed', shown' = run', chart' # <<>>
               PROVE  Shows(WebAddAll(chart, answer.data), data)
    BY <1>1, Zenon DEF ChartInv, Whole
  <2>1. ~mixed /\ answer.run = run /\ shown = run
    BY <1>1, <1>7
  <2>2. GoesOn(chart, answer.data, data)
    BY <1>1, <1>6, <2>1, Zenon DEF IInv, AnswerInv
  <2>3. chart # <<>> => Shows(chart, data)
    BY <2>1 DEF IInv, ChartInv
  <2>4. WebAddAll(chart, answer.data) # <<>>
    BY <1>1
  <2>5. IsLog(data)
    BY DEF IInv, LogInv, Whole
  <2> QED  BY <1>4, <2>2, <2>3, <2>4, <2>5, MergedShows
<1>12. AskInv' /\ PagedInv' /\ AnswerInv'
  BY <1>2 DEF AskInv, PagedInv, AnswerInv
<1> QED  BY <1>8, <1>9, <1>10, <1>11, <1>12 DEF IInv

LEMMA FailKeeps == ASSUME IInv, Fail PROVE IInv'
<1>1. /\ fpc' = "idle"
      /\ answer'.version = 0 /\ answer'.data = <<>> /\ answer'.run = 0
      /\ data' = data /\ version' = version /\ active' = active /\ seconds' = seconds
      /\ run' = run /\ runs' = runs
      /\ begin' = begin /\ tick' = tick /\ late' = late
      /\ chart' = chart /\ cver' = cver /\ shown' = shown /\ mixed' = mixed
  BY DEF Fail, Done, NoAnswer, logVars, webVars
<1>2. TypeOK'
  <2>1. req' \in [version : -1..MaxRuns, from : 0..MaxTime]
    BY Bounds DEF Fail, Done, NoRequest
  <2>2. /\ answer'.version \in 0..MaxRuns /\ answer'.data \in Seq(Points)
        /\ Len(answer'.data) <= MaxChunk
    BY <1>1, Bounds
  <2>3. fpc' \in {"idle", "ask", "asked", "paged", "answered"}
    BY <1>1, Zenon
  <2> QED  BY <1>1, <2>1, <2>2, <2>3, StateTyped, Zenon DEF TypeOK
<1>3. LogInv' /\ BeginInv' /\ ChartInv'
  BY <1>1, Zenon DEF IInv, LogInv, BeginInv, ChartInv, Whole
<1>4. RunsInv'
  BY <1>1 DEF IInv, RunsInv
<1>5. AskInv' /\ PagedInv' /\ AnswerInv'
  BY <1>1 DEF AskInv, PagedInv, AnswerInv
<1> QED  BY <1>2, <1>3, <1>4, <1>5 DEF IInv

LEMMA AttachKeeps == ASSUME IInv, Attach PROVE IInv'
<1>1. /\ cver' = -1 /\ fpc' = fpc /\ req' = req /\ answer' = answer
      /\ data' = data /\ version' = version /\ active' = active /\ seconds' = seconds
      /\ run' = run /\ runs' = runs
      /\ begin' = begin /\ tick' = tick /\ late' = late
      /\ chart' = chart /\ shown' = shown /\ mixed' = mixed
  BY DEF Attach, logVars, callVars
<1>2. cver' \in -1..MaxRuns
  BY <1>1, Bounds
<1>3. TypeOK'
  BY <1>1, <1>2, StateTyped, Zenon DEF TypeOK
<1>4. LogInv' /\ BeginInv' /\ RunsInv' /\ ChartInv' /\ PagedInv' /\ AnswerInv'
  BY <1>1, Zenon DEF IInv, LogInv, BeginInv, RunsInv, ChartInv, PagedInv, AnswerInv, Whole
<1>5. AskInv'
  BY <1>1 DEF IInv, AskInv
<1> QED  BY <1>3, <1>4, <1>5 DEF IInv

LEMMA StutterKeeps == ASSUME IInv, UNCHANGED vars PROVE IInv'
<1>1. /\ cver' = cver /\ fpc' = fpc /\ req' = req /\ answer' = answer
      /\ data' = data /\ version' = version /\ active' = active /\ seconds' = seconds
      /\ run' = run /\ runs' = runs
      /\ begin' = begin /\ tick' = tick /\ late' = late
      /\ chart' = chart /\ shown' = shown /\ mixed' = mixed
  BY DEF vars, logVars, webVars, callVars
<1>2. TypeOK'
  BY <1>1, StateTyped, Zenon DEF TypeOK
<1>3. LogInv' /\ BeginInv' /\ RunsInv' /\ ChartInv'
  BY <1>1, Zenon DEF IInv, LogInv, BeginInv, RunsInv, ChartInv, Whole
<1>4. AskInv' /\ PagedInv' /\ AnswerInv'
  BY <1>1, Zenon DEF IInv, AskInv, PagedInv, AnswerInv, Whole
<1> QED  BY <1>2, <1>3, <1>4 DEF IInv

\* get_history and fetch_history: whatever the pages, the moments of the answers, the
\* runs and the restarts, a chart that is not put together from answers that do not
\* fit is the device's log up to its last point, if no late tick has spoilt that (and
\* the state keeps its types).
THEOREM ChartIsRight == Spec => []ChartOK
<1>1. Init => IInv
  BY IInvAtFirst
<1>2. IInv /\ [Next]_vars => IInv'
  <2> SUFFICES ASSUME IInv, [Next]_vars PROVE IInv'
    OBVIOUS
  <2>1. CASE ClearLog
    BY <2>1, ClearLogKeeps
  <2>2. CASE CountRun
    BY <2>2, CountRunKeeps
  <2>3. CASE FirstPoint
    BY <2>3, FirstPointKeeps
  <2>4. CASE TickReads
    BY <2>4, TickReadsKeeps
  <2>5. CASE Record
    BY <2>5, RecordKeeps
  <2>6. CASE StopRun
    BY <2>6, StopRunKeeps
  <2>7. CASE Reboot
    BY <2>7, RebootKeeps
  <2>8. CASE Answer
    BY <2>8, AnswerKeeps
  <2>9. CASE Fill
    BY <2>9, FillKeeps
  <2>10. CASE Ask
    BY <2>10, AskKeeps
  <2>11. CASE Replace
    BY <2>11, ReplaceKeeps
  <2>12. CASE Merge
    BY <2>12, MergeKeeps
  <2>13. CASE Fail
    BY <2>13, FailKeeps
  <2>14. CASE Attach
    BY <2>14, AttachKeeps
  <2>15. CASE UNCHANGED vars
    BY <2>15, StutterKeeps
  <2> QED  BY <2>1, <2>2, <2>3, <2>4, <2>5, <2>6, <2>7, <2>8,
            <2>9, <2>10, <2>11, <2>12, <2>13, <2>14, <2>15, Zenon DEF Next
<1>3. IInv => ChartOK
  BY IInvShows
<1> QED  BY <1>1, <1>2, <1>3, PTL DEF Spec

(***************************************************************************)
(* Which charts are left out.                                              *)
(***************************************************************************)

\* Before the first fault runs are told apart by their versions, the version that a
\* client knows is that of its chart, and that in an answer the one of its points.
Undisturbed ==
  faults = 0 =>
    /\ version = runs /\ run = runs /\ ~mixed
    /\ cver = -1 \/ cver = shown
    /\ fpc \in {"asked", "paged", "answered"} => cver = req.version
    /\ fpc \in {"paged", "answered"} => answer.version = answer.run
    /\ fpc = "paged" => answer.version = version

VersionsInv ==
  version \in Nat /\ runs \in Nat /\ answer.version \in Nat /\ faults \in Nat /\ Undisturbed

LEMMA VersionsAtFirst == Init => VersionsInv
BY DEF Init, NoRequest, NoAnswer, VersionsInv, Undisturbed

LEMMA VersionsKept == ASSUME VersionsInv, [Next]_vars PROVE VersionsInv'
<1>1. CASE CountRun
  <2>1. /\ runs' = runs + 1 /\ run' = runs + 1 /\ version' = version + 1
        /\ cver' = cver /\ shown' = shown /\ mixed' = mixed
        /\ fpc' = fpc /\ req' = req /\ answer' = answer
        /\ faults' = (IF fpc = "paged" THEN faults + 1 ELSE faults)
    BY <1>1 DEF CountRun, Costs, webVars, callVars
  <2>2. CASE fpc = "paged"
    BY <2>1, <2>2 DEF VersionsInv, Undisturbed
  <2>3. CASE fpc # "paged"
    BY <2>1, <2>3 DEF VersionsInv, Undisturbed
  <2> QED  BY <2>2, <2>3
<1>2. CASE FirstPoint \/ TickReads \/ Record \/ StopRun \/ UNCHANGED vars
  <2>1. /\ runs' = runs /\ run' = run /\ version' = version
        /\ cver' = cver /\ shown' = shown /\ mixed' = mixed
        /\ fpc' = fpc /\ req' = req /\ answer' = answer /\ faults' = faults
    BY <1>2 DEF FirstPoint, TickReads, Record, StopRun, vars, logVars, webVars, callVars
  <2> QED  BY <2>1, Zenon DEF VersionsInv, Undisturbed
<1>3. CASE Reboot \/ Fail \/ Attach
  <2>1. faults' = faults + 1 /\ runs' = runs
    BY <1>3 DEF Reboot, Fail, Attach, logVars
  <2>2. version' \in Nat /\ answer'.version \in Nat
    BY <1>3 DEF VersionsInv, Reboot, Fail, Attach, Done, NoAnswer, logVars, callVars
  <2> QED  BY <2>1, <2>2 DEF VersionsInv, Undisturbed
<1>4. CASE Answer
  <2>1. /\ runs' = runs /\ run' = run /\ version' = version
        /\ cver' = cver /\ shown' = shown /\ mixed' = mixed
        /\ fpc = "asked" /\ fpc' = "paged" /\ req' = req /\ faults' = faults
        /\ answer'.version = version /\ answer'.run = run
    BY <1>4 DEF Answer, logVars, webVars
  <2> QED  BY <2>1 DEF VersionsInv, Undisturbed
<1>5. CASE Ask
  <2>1. /\ runs' = runs /\ run' = run /\ version' = version
        /\ cver' = cver /\ shown' = shown /\ mixed' = mixed
        /\ fpc' = "asked" /\ req'.version = cver /\ answer' = answer /\ faults' = faults
    BY <1>5 DEF Ask, logVars, webVars
  <2> QED  BY <2>1 DEF VersionsInv, Undisturbed
<1>6. CASE Replace
  <2>1. /\ runs' = runs /\ run' = run /\ version' = version /\ faults' = faults
        /\ fpc = "answered" /\ answer.version # cver
        /\ cver' = answer.version /\ shown' = answer.run
        /\ mixed' = (req.version = answer.version)
        /\ fpc' \in {"idle", "ask"} /\ answer'.version = 0
    BY <1>6 DEF Replace, Again, Done, NoAnswer, logVars
  <2>2. faults = 0 => ~mixed' /\ cver' = shown'
    BY <2>1, Zenon DEF VersionsInv, Undisturbed
  <2>3. fpc' # "asked" /\ fpc' # "paged" /\ fpc' # "answered" /\ answer'.version \in Nat
    BY <2>1
  <2> QED  BY <2>1, <2>2, <2>3, Zenon DEF VersionsInv, Undisturbed
<1>7. CASE Merge
  <2>1. /\ runs' = runs /\ run' = run /\ version' = version /\ faults' = faults
        /\ fpc = "answered" /\ answer.version = cver
        /\ cver' = cver /\ shown' = shown
        /\ mixed' = (mixed \/ answer.run # shown)
        /\ fpc' \in {"idle", "ask"} /\ answer'.version = 0
    BY <1>7 DEF Merge, Again, Done, NoAnswer, logVars
  <2>2. cver # -1
    BY <2>1 DEF VersionsInv
  <2>3. faults = 0 => ~mixed' /\ cver' = shown'
    BY <2>1, <2>2, Zenon DEF VersionsInv, Undisturbed
  <2>4. fpc' # "asked" /\ fpc' # "paged" /\ fpc' # "answered" /\ answer'.version \in Nat
    BY <2>1
  <2> QED  BY <2>1, <2>3, <2>4, Zenon DEF VersionsInv, Undisturbed
<1>8. CASE ClearLog
  <2>1. /\ runs' = runs /\ run' = run /\ version' = version
        /\ cver' = cver /\ shown' = shown /\ mixed' = mixed
        /\ fpc' = fpc /\ req' = req /\ answer' = answer
        /\ faults' = faults \/ faults' = faults + 1
    BY <1>8 DEF ClearLog, Costs, webVars, callVars
  <2> QED  BY <2>1 DEF VersionsInv, Undisturbed
<1>9. CASE Fill
  <2>1. /\ runs' = runs /\ run' = run /\ version' = version
        /\ cver' = cver /\ shown' = shown /\ mixed' = mixed
        /\ fpc = "paged" /\ fpc' = "answered" /\ req' = req /\ faults' = faults
        /\ answer'.version = version /\ answer'.run = answer.run
    BY <1>9 DEF Fill, logVars, webVars
  <2> QED  BY <2>1 DEF VersionsInv, Undisturbed
<1> QED  BY <1>1, <1>2, <1>3, <1>4, <1>5, <1>6, <1>7, <1>8, <1>9 DEF Next

\* history_version and client_history_version: as long as the device does not
\* restart, no call fails, the user stays, and no run begins in the middle of a tick or
\* of an answer, every answer fits the chart it is put to.
THEOREM AnswersFit == Spec => [](faults = 0 => ~mixed)
<1>1. Init => VersionsInv
  BY VersionsAtFirst
<1>2. VersionsInv /\ [Next]_vars => VersionsInv'
  BY VersionsKept
<1>3. VersionsInv => (faults = 0 => ~mixed)
  BY DEF VersionsInv, Undisturbed
<1> QED  BY <1>1, <1>2, <1>3, PTL DEF Spec
=============================================================================
