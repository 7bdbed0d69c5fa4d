---------------------------- MODULE ChartProofs ----------------------------
(***************************************************************************)
(* Each chart is the picture of its controls, whatever the order of its    *)
(* answers, for any channel, stock and number of colour slots; the lines   *)
(* of the track record are whole and its arrows stand on their calls.      *)
(***************************************************************************)
EXTENDS TrackRecordChart, StockPage, PagesProofs, FiniteSetTheorems
-----------------------------------------------------------------------------
(* Days *)

\* Days have a first one.
LEMMA FirstDayIsFirst ==
  ASSUME NEW S \in SUBSET Nat, S # {}
  PROVE  FirstDay(S) \in S /\ \A e \in S : FirstDay(S) <= e
  BY LeastOf DEF FirstDay

\* A finite set of days has a last one: otherwise a smallest set without one would
\* have a smaller one.
LEMMA LastDayIsLast ==
  ASSUME NEW S \in SUBSET Nat, IsFiniteSet(S), S # {}
  PROVE  LastDay(S) \in S /\ \A e \in S : e <= LastDay(S)
<1> DEFINE R == StrictSubsetOrdering(S)
           Endless == {T \in SUBSET S : T # {} /\ \A d \in T : \E e \in T : e > d}
<1>1. IsWellFoundedOn(R, SUBSET S)
  BY FS_StrictSubsetOrderingWellFounded, FS_FiniteSubsetsOfFinite
<1>2. Endless = {}
  <2> SUFFICES ASSUME Endless # {} PROVE FALSE
    OBVIOUS
  <2>1. PICK T \in Endless : \A U \in Endless : ~(<<U, T>> \in R)
    <3> HIDE DEF R
    <3>1. Endless \subseteq SUBSET S
      OBVIOUS
    <3> HIDE DEF Endless
    <3> QED
      BY <1>1, <3>1, WFMin
  <2>2. PICK d \in T : TRUE
    OBVIOUS
  <2> DEFINE U == T \ {d}
  <2>3. U \in SUBSET S /\ U # {}
    <3>1. PICK e \in T : e > d
      BY <2>2
    <3> QED
      BY <2>2, <3>1
  <2>4. ASSUME NEW x \in U
        PROVE  \E y \in U : y > x
    <3>1. PICK y \in T : y > x
      OBVIOUS
    <3>2. CASE y # d
      BY <3>1, <3>2
    <3>3. CASE y = d
      <4>1. PICK z \in T : z > d
        BY <2>2
      <4> QED
        BY <3>1, <3>3, <4>1
    <3> QED
      BY <3>2, <3>3
  <2>5. U \in Endless
    BY <2>3, <2>4
  <2>6. <<U, T>> \in R
    BY <2>2 DEF StrictSubsetOrdering
  <2> QED
    BY <2>1, <2>5, <2>6
<1>3. \E d \in S : \A e \in S : e <= d
  BY <1>2
<1> QED
  BY <1>3 DEF LastDay

\* Two days make at least two, and two at least are two different ones.
LEMMA TwoOrMore ==
  ASSUME NEW S, IsFiniteSet(S)
  PROVE  Cardinality(S) >= 2 <=> \E x, y \in S : x # y
<1>1. ASSUME NEW x \in S, NEW y \in S, x # y
      PROVE  Cardinality(S) >= 2
  <2>1. IsFiniteSet({x}) /\ Cardinality({x}) = 1
    BY FS_Singleton
  <2>2. {x} \cup {y} \in SUBSET S /\ Cardinality({x} \cup {y}) = 2
    BY <1>1, <2>1, FS_AddElement
  <2> QED
    BY <2>2, FS_Subset, FS_CardinalityType
<1>2. ASSUME Cardinality(S) >= 2
      PROVE  \E x, y \in S : x # y
  <2>1. PICK x : x \in S
    BY <1>2, FS_EmptySet
  <2>2. S # {x}
    BY <1>2, FS_Singleton
  <2> QED
    BY <2>1, <2>2
<1> QED
  BY <1>1, <1>2
-----------------------------------------------------------------------------
(* The runs of a window *)

\* The runs of a window lie end to end: each begins where the one before it ended, so
\* that every day from the window's start on lies in one of them.
EndToEnd(runs, start) ==
  /\ \A r \in runs : /\ r.from \in Nat /\ start <= r.from
                     /\ r.to \in Nat
                     /\ \A q \in runs : /\ q.from > r.from => r.to # NoDay /\ r.to <= q.from
                                        /\ q.from = r.from => q = r
  /\ \A d \in Nat : d >= start => \E r \in runs : Within(r, d)

LEMMA RunsLieEndToEnd ==
  ASSUME NEW calls, DOMAIN calls \subseteq TrDays, NEW start \in Nat
  PROVE  EndToEnd(BuildRuns(calls, start), start)
<1> DEFINE turns == Transitions(calls)
           before == {d \in turns : d <= start}
           within == turns \ before
           later(from) == {d \in within : d > from}
           End(from) == IF later(from) = {} THEN NoDay ELSE FirstDay(later(from))
           first == [state |-> IF before = {} THEN "idle" ELSE calls[LastDay(before)],
                     from |-> start, to |-> End(start),
                     opened_at |-> IF before = {} THEN NoDay ELSE LastDay(before)]
           run(d) == [state |-> calls[d], from |-> d, to |-> End(d), opened_at |-> d]
           runs == BuildRuns(calls, start)
<1>1. runs = {first} \cup {run(d) : d \in within}
  BY DEF BuildRuns
<1>2. within \subseteq Nat /\ \A d \in within : d > start
  <2>1. \A T \in SUBSET Nat : \A d \in T \ {e \in T : e <= start} : d \in Nat /\ d > start
    OBVIOUS
  <2>2. turns \in SUBSET Nat
    BY TrackRecordAssumption DEF Transitions
  <2> QED
    BY <2>1, <2>2, Zenon
<1>3. \A from \in Nat : /\ End(from) \in Nat
                        /\ End(from) # NoDay => End(from) > from
                        /\ \A d \in within : d > from => End(from) # NoDay /\ End(from) <= d
  <2> SUFFICES ASSUME NEW from \in Nat
               PROVE  /\ End(from) \in Nat
                      /\ End(from) # NoDay => End(from) > from
                      /\ \A d \in within : d > from => End(from) # NoDay /\ End(from) <= d
    OBVIOUS
  <2>1. CASE later(from) = {}
    BY <2>1 DEF NoDay
  <2>2. CASE later(from) # {}
    <3>1. later(from) \in SUBSET Nat
      BY <1>2
    <3>2. FirstDay(later(from)) \in later(from) /\ \A e \in later(from) : FirstDay(later(from)) <= e
      BY <2>2, <3>1, FirstDayIsFirst
    <3>3. FirstDay(later(from)) \in within /\ FirstDay(later(from)) > from
      BY <3>2
    <3> QED
      BY <1>2, <2>2, <3>2, <3>3 DEF NoDay
  <2> QED
    BY <2>1, <2>2
<1> HIDE DEF turns, before, within, later, End
<1>4. \A r \in runs : \/ r = first /\ r.from = start /\ r.to = End(start)
                      \/ \E d \in within : r = run(d) /\ r.from = d /\ r.to = End(d)
  BY <1>1
<1>5. ASSUME NEW r \in runs
      PROVE  /\ r.from \in Nat /\ start <= r.from
             /\ r.to \in Nat
             /\ \A q \in runs : /\ q.from > r.from => r.to # NoDay /\ r.to <= q.from
                                /\ q.from = r.from => q = r
  <2>1. r.from \in Nat /\ start <= r.from /\ r.to = End(r.from) /\ r.to \in Nat
    BY <1>2, <1>3, <1>4
  <2>2. ASSUME NEW q \in runs
        PROVE  /\ q.from > r.from => r.to # NoDay /\ r.to <= q.from
               /\ q.from = r.from => q = r
    <3>1. q.from > r.from => q.from \in within
      BY <1>2, <1>4, <2>1
    <3>2. q.from = r.from => q = r
      <4> HIDE DEF first, run, runs
      <4> QED
        BY <1>2, <1>4
    <3> QED
      BY <1>3, <2>1, <3>1, <3>2
  <2> QED
    BY <2>1, <2>2
<1>6. ASSUME NEW d \in Nat, d >= start
      PROVE  \E r \in runs : Within(r, d)
  <2> DEFINE begun == {start} \cup {e \in within : e <= d}
             from == LastDay(begun)
  <2>1. begun \in SUBSET Nat /\ IsFiniteSet(begun)
    <3>1. begun \in SUBSET Nat /\ \A e \in begun : e <= d
      BY <1>2, <1>6
    <3> QED
      BY <3>1, FS_BoundedSetOfNaturals
  <2>2. from \in begun /\ \A e \in begun : e <= from
    BY <2>1, LastDayIsLast
  <2> HIDE DEF from
  <2>3. from \in Nat /\ from <= d /\ (from = start \/ from \in within)
    BY <1>2, <1>6, <2>2
  <2>4. End(from) # NoDay => d < End(from)
    <3>1. CASE later(from) # {}
      <4>1. later(from) \in SUBSET Nat
        BY <1>2 DEF later
      <4>2. FirstDay(later(from)) \in later(from)
        BY <3>1, <4>1, FirstDayIsFirst
      <4>3. End(from) \in within /\ End(from) > from
        BY <3>1, <4>2 DEF End, later
      <4>4. End(from) \in Nat
        BY <1>2, <4>3
      <4>5. ~(End(from) <= d)
        BY <2>2, <2>3, <4>3, <4>4
      <4> QED
        BY <4>4, <4>5
    <3> QED
      BY <3>1 DEF End
  <2>5. \E r \in runs : r.from = from /\ r.to = End(from)
    <3>1. first \in runs /\ first.from = start /\ first.to = End(start)
      BY <1>1
    <3>2. ASSUME from \in within
          PROVE  run(from) \in runs /\ run(from).from = from /\ run(from).to = End(from)
      BY <1>1, <3>2
    <3> QED
      BY <2>3, <3>1, <3>2
  <2> QED
    BY <2>3, <2>4, <2>5 DEF Within
<1> QED
  BY <1>5, <1>6 DEF EndToEnd

\* A day lies in one run only.
LEMMA OneRunADay ==
  ASSUME NEW runs, NEW start \in Nat, EndToEnd(runs, start),
         NEW r \in runs, NEW q \in runs, NEW d \in Nat, Within(r, d), Within(q, d)
  PROVE  r = q
<1>1. r.from \in Nat /\ q.from \in Nat /\ r.to \in Nat /\ q.to \in Nat
  BY DEF EndToEnd
<1>2. ~(q.from > r.from)
  BY <1>1 DEF EndToEnd, Within
<1>3. ~(r.from > q.from)
  BY <1>1 DEF EndToEnd, Within
<1> QED
  BY <1>1, <1>2, <1>3 DEF EndToEnd

\* What a run borrows from is the whole line before it.
LEMMA CarriedIsEarlier ==
  ASSUME NEW start \in Nat, NEW runs, EndToEnd(runs, start), NEW run \in runs,
         NEW points \in SUBSET {d \in Nat : d >= start}
  PROVE  Carried(points, runs, run) = {p \in points : p < run.from}
<1>1. run.from \in Nat
  BY DEF EndToEnd
<1>2. ASSUME NEW p \in Carried(points, runs, run)
      PROVE  p \in points /\ p < run.from
  <2>1. PICK q \in runs : q.from < run.from /\ p \in points /\ Within(q, p)
    BY DEF Carried, OwnPoints
  <2>2. q.from \in Nat /\ q.to # NoDay /\ q.to <= run.from /\ q.to \in Nat
    BY <1>1, <2>1 DEF EndToEnd
  <2> QED
    BY <1>1, <2>1, <2>2 DEF Within
<1>3. ASSUME NEW p \in points, p < run.from
      PROVE  p \in Carried(points, runs, run)
  <2>1. p \in Nat /\ p >= start
    OBVIOUS
  <2>2. PICK q \in runs : Within(q, p)
    BY <2>1 DEF EndToEnd
  <2>3. q.from \in Nat /\ q.from < run.from
    BY <1>1, <1>3, <2>1, <2>2 DEF EndToEnd, Within
  <2> QED
    BY <2>2, <2>3 DEF Carried, OwnPoints
<1> QED
  BY <1>2, <1>3
-----------------------------------------------------------------------------
(* The lines *)

\* The bars of a window, cut along runs that lie end to end: what a run's line is made of.
Bridge(points, run) ==
  LET earlier == {p \in points : p < run.from} IN IF earlier = {} THEN {} ELSE {LastDay(earlier)}
LineOf(points, run) ==
  [run |-> run, own |-> OwnPoints(points, run), points |-> Bridge(points, run) \cup OwnPoints(points, run)]

LEMMA LinesOfRuns ==
  ASSUME NEW start \in Nat, NEW runs, EndToEnd(runs, start),
         NEW points \in SUBSET {d \in Nat : d >= start}
  PROVE  SplitRuns(points, runs) =
           {s \in {LineOf(points, run) : run \in runs} : Cardinality(s.points) >= 2}
<1> DEFINE old(run) ==
             LET own == OwnPoints(points, run)
                 earlier == Carried(points, runs, run)
                 bridge == IF earlier = {} THEN {} ELSE {LastDay(earlier)} IN
             [run |-> run, own |-> own, points |-> bridge \cup own]
<1>1. \A run \in runs : old(run) = LineOf(points, run)
  <2> SUFFICES ASSUME NEW run \in runs PROVE old(run) = LineOf(points, run)
    OBVIOUS
  <2>1. Carried(points, runs, run) = {p \in points : p < run.from}
    BY CarriedIsEarlier
  <2>2. (IF Carried(points, runs, run) = {} THEN {} ELSE {LastDay(Carried(points, runs, run))})
          = Bridge(points, run)
    BY <2>1 DEF Bridge
  <2> QED
    BY <2>2 DEF LineOf
<1>2. SplitRuns(points, runs) = {s \in {old(run) : run \in runs} : Cardinality(s.points) >= 2}
  BY Zenon DEF SplitRuns
<1> HIDE DEF old
<1>3. {old(run) : run \in runs} = {LineOf(points, run) : run \in runs}
  BY <1>1
<1> QED
  BY <1>2, <1>3, Zenon

\* A bar before the run is followed by the line's bridge, the last of them.
LEMMA BridgeIsLast ==
  ASSUME NEW points \in SUBSET Nat, IsFiniteSet(points), NEW run, run.from \in Nat,
         NEW p \in points, p < run.from
  PROVE  \E b \in points : /\ Bridge(points, run) = {b} /\ b < run.from
                           /\ \A e \in points : e < run.from => e <= b
<1> DEFINE earlier == {e \in points : e < run.from}
<1>1. earlier \in SUBSET Nat /\ IsFiniteSet(earlier) /\ earlier # {}
  <2>1. earlier \in SUBSET points /\ p \in earlier
    OBVIOUS
  <2> QED
    BY <2>1, FS_Subset
<1>2. LastDay(earlier) \in earlier /\ \A e \in earlier : e <= LastDay(earlier)
  BY <1>1, LastDayIsLast
<1> QED
  BY <1>1, <1>2 DEF Bridge

\* Everything a line is made of is a bar of the window, before the run's end.
LEMMA LineShape ==
  ASSUME NEW start \in Nat, NEW runs, EndToEnd(runs, start), NEW run \in runs,
         NEW points \in SUBSET {d \in Nat : d >= start}, IsFiniteSet(points)
  PROVE  LET line == LineOf(points, run) IN
         /\ line.run = run /\ line.own = OwnPoints(points, run)
         /\ line.points \subseteq points /\ IsFiniteSet(line.points)
         /\ \A p \in line.points : p \in line.own \/ p < run.from
         /\ line.own \subseteq line.points
         /\ \A p \in line.own : p >= run.from
         /\ \A p \in points : p < run.from =>
              \E b \in line.points : /\ b < run.from
                                     /\ \A e \in points : e < run.from => e <= b
                                     /\ \A e \in line.points : e = b \/ e \in line.own
<1>0. points \in SUBSET Nat /\ run.from \in Nat
  BY DEF EndToEnd
<1> DEFINE line == LineOf(points, run)
<1>1. /\ line.run = run /\ line.own = OwnPoints(points, run)
      /\ line.points = Bridge(points, run) \cup OwnPoints(points, run)
  BY DEF LineOf
<1>2. OwnPoints(points, run) \subseteq points /\ \A p \in OwnPoints(points, run) : p >= run.from
  BY <1>0 DEF OwnPoints, Within
<1>3. Bridge(points, run) \subseteq {p \in points : p < run.from}
  <2>1. CASE Bridge(points, run) = {}
    BY <2>1
  <2>2. CASE \E p \in points : p < run.from
    BY <1>0, <2>2, BridgeIsLast
  <2> QED
    BY <2>1, <2>2 DEF Bridge
<1> HIDE DEF line
<1>4. line.points \subseteq points /\ IsFiniteSet(line.points)
  <2>1. line.points \in SUBSET points
    BY <1>1, <1>2, <1>3
  <2> QED
    BY <2>1, FS_Subset
<1>5. ASSUME NEW p \in points, p < run.from
      PROVE  \E b \in line.points : /\ b < run.from
                                    /\ \A e \in points : e < run.from => e <= b
                                    /\ \A e \in line.points : e = b \/ e \in line.own
  <2>1. PICK b \in points : /\ Bridge(points, run) = {b} /\ b < run.from
                            /\ \A e \in points : e < run.from => e <= b
    BY <1>0, <1>5, BridgeIsLast
  <2> QED
    BY <1>1, <2>1
<1>6. /\ \A p \in line.points : p \in line.own \/ p < run.from
      /\ line.own \subseteq line.points
      /\ \A p \in line.own : p >= run.from
  BY <1>1, <1>2, <1>3
<1> QED
  BY <1>1, <1>4, <1>5, <1>6 DEF line

\* The lines that runs make of at least two bars: every bar is on one of them, none is
\* owned by two, and where one ends the next begins.
LEMMA LinesAreWhole ==
  ASSUME NEW start \in Nat, NEW runs, EndToEnd(runs, start),
         NEW points \in SUBSET {d \in Nat : d >= start}, IsFiniteSet(points)
  PROVE  LET segments == SplitRuns(points, runs) IN
         /\ Cardinality(points) >= 2 => UNION {s.points : s \in segments} = points
         /\ \A s, t \in segments : s # t =>
              /\ s.own \cap t.own = {}
              /\ s.run.from < t.run.from => s.points \cap t.points \subseteq {LastDay(s.points)}
              /\ (s.run.from < t.run.from /\ ~\E u \in segments : s.run.from < u.run.from /\ u.run.from < t.run.from)
                   => FirstDay(t.points) = LastDay(s.points)
<1> DEFINE segments == SplitRuns(points, runs)
           line(run) == LineOf(points, run)
<1>0. points \in SUBSET Nat /\ \A run \in runs : run.from \in Nat /\ run.to \in Nat
  BY DEF EndToEnd
<1>1. \A s : s \in segments <=> \E run \in runs : s = line(run) /\ Cardinality(s.points) >= 2
  <2>1. segments = {s \in {line(run) : run \in runs} : Cardinality(s.points) >= 2}
    BY LinesOfRuns
  <2> HIDE DEF segments, line
  <2> QED
    BY <2>1
<1> HIDE DEF segments
<1>2. ASSUME NEW run \in runs, NEW x \in line(run).points, NEW y \in line(run).points, x # y
      PROVE  line(run) \in segments
  BY <1>1, <1>2, LineShape, TwoOrMore
<1>3. ASSUME NEW s \in segments
      PROVE  /\ s.run \in runs /\ s = line(s.run) /\ s.own = OwnPoints(points, s.run)
             /\ s.points \subseteq points /\ s.points \in SUBSET Nat /\ IsFiniteSet(s.points)
             /\ \A p \in s.points : p \in s.own \/ p < s.run.from
             /\ s.own \subseteq s.points
             /\ \A p \in s.own : p >= s.run.from
             /\ \A p \in points : p < s.run.from =>
                  \E b \in s.points : /\ b < s.run.from
                                      /\ \A e \in points : e < s.run.from => e <= b
                                      /\ \A e \in s.points : e = b \/ e \in s.own
             /\ \E x, y \in s.points : x # y
  <2>1. PICK run \in runs : s = line(run) /\ Cardinality(s.points) >= 2
    BY <1>1
  <2>2. s.run = run /\ s.points \subseteq points /\ IsFiniteSet(s.points)
    <3>1. /\ line(run).run = run /\ line(run).points \subseteq points
          /\ IsFiniteSet(line(run).points)
      BY LineShape
    <3> HIDE DEF line
    <3> QED
      BY <2>1, <3>1
  <2>3. \E x, y \in s.points : x # y
    BY <2>1, <2>2, TwoOrMore
  <2>4. /\ s.own = OwnPoints(points, run) /\ s.own \subseteq s.points
        /\ \A p \in s.points : p \in s.own \/ p < run.from
        /\ \A p \in s.own : p >= run.from
    BY <2>1, LineShape
  <2>5. ASSUME NEW p \in points, p < run.from
        PROVE  \E b \in s.points : /\ b < run.from
                                   /\ \A e \in points : e < run.from => e <= b
                                   /\ \A e \in s.points : e = b \/ e \in s.own
    BY <2>1, <2>5, LineShape
  <2> HIDE DEF line
  <2> QED
    BY <1>0, <2>1, <2>2, <2>3, <2>4, <2>5
<1>4. Cardinality(points) >= 2 => UNION {s.points : s \in segments} = points
  <2> SUFFICES ASSUME Cardinality(points) >= 2
               PROVE  UNION {s.points : s \in segments} = points
    OBVIOUS
  <2>1. ASSUME NEW s \in segments
        PROVE  s.points \subseteq points
    BY <1>3, LineShape
  <2>2. ASSUME NEW d \in points
        PROVE  \E s \in segments : d \in s.points
    <3>1. PICK r \in runs : Within(r, d)
      BY <1>0 DEF EndToEnd
    <3>2. d \in line(r).own /\ d \in line(r).points
      BY <3>1, LineShape DEF OwnPoints
    <3>3. CASE \E x \in line(r).points : x # d
      BY <1>2, <3>2, <3>3
    <3>4. CASE \A x \in line(r).points : x = d
      <4>1. \A p \in points : p >= r.from
        <5>1. \A p \in points : ~(p < r.from)
          BY <1>0, <3>2, <3>4, LineShape
        <5> QED
          BY <1>0, <5>1
      <4> DEFINE others == points \ {d}
                 next == FirstDay(others)
      <4>2. next \in others /\ \A e \in others : next <= e
        <5>1. others \in SUBSET Nat /\ others # {}
          BY <1>0, TwoOrMore
        <5> QED
          BY <5>1, FirstDayIsFirst
      <4> HIDE DEF next
      <4>3. r.to # NoDay /\ \A e \in others : e >= r.to
        <5>1. \A e \in others : ~Within(r, e)
          BY <3>4, LineShape DEF OwnPoints
        <5> QED
          BY <1>0, <4>1, <4>2, <5>1 DEF Within
      <4>4. d < r.to
        BY <3>1, <4>3 DEF Within
      <4>5. PICK q \in runs : Within(q, next)
        BY <1>0, <4>2 DEF EndToEnd
      <4>6. r.from < q.from
        <5>1. q # r
          BY <3>4, <4>2, <4>5, LineShape DEF OwnPoints
        <5>2. ~(q.from < r.from)
          <6> SUFFICES ASSUME q.from < r.from
                       PROVE  FALSE
            OBVIOUS
          <6>1. q.to # NoDay /\ q.to <= r.from
            BY <1>0 DEF EndToEnd
          <6>2. next < q.to
            BY <4>5, <6>1 DEF Within
          <6> QED
            BY <1>0, <4>1, <4>2, <6>1, <6>2
        <5> QED
          BY <1>0, <5>1, <5>2 DEF EndToEnd
      <4>7. d < q.from
        <5>1. r.to <= q.from
          BY <4>6 DEF EndToEnd
        <5> QED
          BY <1>0, <4>4, <5>1
      <4>8. PICK b \in line(q).points : b < q.from /\ \A e \in points : e < q.from => e <= b
        BY <4>7, LineShape
      <4>9. b = d
        <5>1. q.from <= next
          BY <4>5 DEF Within
        <5>2. b \in points
          BY <4>8, LineShape
        <5> QED
          BY <1>0, <4>2, <4>8, <5>1, <5>2
      <4>10. next \in line(q).points
        BY <4>2, <4>5, LineShape DEF OwnPoints
      <4> QED
        BY <1>2, <4>2, <4>8, <4>9, <4>10
    <3> QED
      BY <3>3, <3>4
  <2> QED
    BY <2>1, <2>2
<1>5. ASSUME NEW s \in segments, NEW t \in segments, s # t
      PROVE  s.own \cap t.own = {}
  <2> SUFFICES ASSUME NEW d \in s.own \cap t.own
               PROVE  FALSE
    OBVIOUS
  <2>1. d \in Nat /\ Within(s.run, d) /\ Within(t.run, d)
    BY <1>0, <1>3 DEF OwnPoints
  <2>2. s.run = t.run
    BY <1>3, <2>1, OneRunADay
  <2> QED
    BY <1>3, <1>5, <2>2
<1>6. ASSUME NEW s \in segments, NEW t \in segments, s.run.from < t.run.from
      PROVE  \E b \in t.points :
               /\ b < t.run.from
               /\ \A e \in points : e < t.run.from => e <= b
               /\ \A e \in t.points : e = b \/ e >= t.run.from
               /\ \A e \in s.points : e <= b
  <2>1. ASSUME NEW e \in s.points
        PROVE  e \in points /\ e < t.run.from
    <3>1. s.run.to # NoDay /\ s.run.to <= t.run.from
      BY <1>3, <1>6 DEF EndToEnd
    <3>2. e \in points /\ (e \in s.own \/ e < s.run.from)
      BY <1>3
    <3>3. e \in s.own => e < s.run.to
      BY <1>3, <3>1 DEF OwnPoints, Within
    <3> QED
      BY <1>0, <1>3, <1>6, <3>1, <3>2, <3>3
  <2>2. PICK x \in s.points : TRUE
    BY <1>3
  <2>3. t = line(t.run) /\ t.run \in runs /\ x \in points /\ x < t.run.from
    BY <1>3, <2>1, <2>2
  <2>4. PICK b \in t.points : /\ b < t.run.from
                              /\ \A e \in points : e < t.run.from => e <= b
                              /\ \A e \in t.points : e = b \/ e \in t.own
    BY <1>3, <2>3
  <2>5. \A e \in t.own : e >= t.run.from
    BY <1>3, <2>3
  <2> QED
    BY <2>1, <2>4, <2>5
\* Where two lines meet is the last bar of the earlier one.
<1>7. ASSUME NEW s \in segments, NEW t \in segments, s.run.from < t.run.from,
             NEW d \in s.points, \A e \in s.points : e <= d
      PROVE  LastDay(s.points) = d
  <2>1. s.points \in SUBSET Nat /\ IsFiniteSet(s.points)
    BY <1>0, <1>3
  <2>2. LastDay(s.points) \in s.points /\ \A e \in s.points : e <= LastDay(s.points)
    BY <2>1, LastDayIsLast
  <2> QED
    BY <1>7, <2>1, <2>2
<1>8. ASSUME NEW s \in segments, NEW t \in segments, s.run.from < t.run.from
      PROVE  s.points \cap t.points \subseteq {LastDay(s.points)}
  <2> SUFFICES ASSUME NEW d \in s.points \cap t.points
               PROVE  d = LastDay(s.points)
    OBVIOUS
  <2>1. PICK b \in t.points : /\ b < t.run.from
                              /\ \A e \in t.points : e = b \/ e >= t.run.from
                              /\ \A e \in s.points : e <= b
    BY <1>6, <1>8
  <2>2. b \in Nat /\ d \in Nat /\ t.run.from \in Nat
    BY <1>0, <1>3
  <2>3. d = b
    BY <2>1, <2>2
  <2> QED
    BY <1>7, <1>8, <2>1, <2>3
<1>9. ASSUME NEW s \in segments, NEW t \in segments, s.run.from < t.run.from,
             ~\E u \in segments : s.run.from < u.run.from /\ u.run.from < t.run.from
      PROVE  FirstDay(t.points) = LastDay(s.points)
  <2>0. s.run \in runs /\ t.run \in runs /\ s.run.from \in Nat /\ t.run.from \in Nat
    BY <1>0, <1>3
  <2>1. PICK b \in t.points : /\ b < t.run.from
                              /\ \A e \in points : e < t.run.from => e <= b
                              /\ \A e \in t.points : e = b \/ e >= t.run.from
                              /\ \A e \in s.points : e <= b
    BY <1>6, <1>9
  <2>2. b \in points /\ b \in Nat
    BY <1>0, <1>3
  <2>3. FirstDay(t.points) = b
    <3>1. t.points \in SUBSET Nat
      BY <1>0, <1>3
    <3>2. FirstDay(t.points) \in t.points /\ FirstDay(t.points) <= b
      BY <3>1, FirstDayIsFirst
    <3> QED
      BY <2>0, <2>1, <2>2, <3>1, <3>2
  <2>4. b \in s.points
    <3>1. PICK q \in runs : Within(q, b)
      BY <2>2 DEF EndToEnd
    <3>2. q.from \in Nat /\ q.from <= b /\ q.from < t.run.from
      BY <1>0, <2>0, <2>1, <2>2, <3>1 DEF Within
    <3>3. b \in line(q).own /\ b \in line(q).points
      BY <2>2, <3>1, LineShape DEF OwnPoints
    <3>4. ~(s.run.from < q.from)
      <4> SUFFICES ASSUME s.run.from < q.from
                   PROVE  FALSE
        OBVIOUS
      <4>1. s.run.to # NoDay /\ s.run.to <= q.from /\ s.run.to \in Nat
        BY <1>0, <2>0 DEF EndToEnd
      <4>2. PICK x \in s.points : TRUE
        BY <1>3
      <4>3. x \in points /\ (x \in s.own \/ x < s.run.from)
        BY <1>3
      <4>4. x < q.from
        <5>1. x \in s.own => x < s.run.to
          BY <1>3, <4>1 DEF OwnPoints, Within
        <5>2. x \in Nat /\ s.run.from \in Nat
          BY <1>0, <2>0, <4>3 DEF EndToEnd
        <5> QED
          BY <3>2, <4>1, <4>3, <5>1, <5>2
      <4>5. PICK c \in line(q).points : c < q.from
        BY <4>3, <4>4, LineShape
      <4>6. c # b
        BY <2>2, <3>2, <4>5
      <4>7. line(q) \in segments /\ line(q).run = q
        BY <1>2, <3>3, <4>5, <4>6, LineShape
      <4> QED
        BY <1>9, <3>2, <4>7
    <3>5. ~(q.from < s.run.from)
      <4> SUFFICES ASSUME q.from < s.run.from
                   PROVE  FALSE
        OBVIOUS
      <4>1. b < s.run.from
        <5>1. q.to # NoDay /\ q.to <= s.run.from /\ q.to \in Nat
          BY <1>0, <2>0 DEF EndToEnd
        <5> QED
          BY <2>0, <2>2, <3>1, <5>1 DEF Within
      <4>2. PICK c \in s.points : \A e \in s.points : e = c \/ e \in s.own
        BY <1>3, <2>2, <4>1
      <4>3. PICK x \in s.own : x \in s.points
        BY <1>3, <4>2
      <4>4. x \in Nat /\ x >= s.run.from /\ x <= b
        BY <1>3, <2>1, <4>3
      <4> QED
        BY <2>0, <2>2, <4>1, <4>4
    <3>6. q = s.run
      BY <2>0, <3>2, <3>4, <3>5 DEF EndToEnd
    <3> QED
      BY <1>3, <3>3, <3>6
  <2> QED
    BY <1>7, <1>9, <2>1, <2>3, <2>4
<1> QED
  BY <1>4, <1>5, <1>8, <1>9 DEF segments
-----------------------------------------------------------------------------
(* A stock *)

\* The window of a stock, and the series of it that is drawn: with positive closes
\* every bar has a point.
LEMMA WindowOfStock ==
  ASSUME NEW item, IsStock(item)
  PROVE  LET closes == ClipToWindow(item.closes, item.start)
             window == DOMAIN closes IN
         /\ item.start \in Nat
         /\ window \in SUBSET {d \in Nat : d >= item.start} /\ IsFiniteSet(window)
         /\ ToIndexedSeries(closes) = window
         /\ EndToEnd(RunsOf(item), item.start)
<1> DEFINE closes == ClipToWindow(item.closes, item.start)
           window == DOMAIN closes
<1>1. item.start \in Nat /\ window = {e \in DOMAIN item.closes : e >= item.start}
  BY TrackRecordAssumption DEF IsStock, ClipToWindow
<1>2. window \in SUBSET TrDays /\ TrDays \in SUBSET Nat
  BY <1>1, TrackRecordAssumption DEF IsStock
<1>3. window \in SUBSET {d \in Nat : d >= item.start} /\ IsFiniteSet(window)
  <2>1. IsFiniteSet(window)
    BY <1>2, TrackRecordAssumption, FS_Subset
  <2> QED
    BY <1>1, <1>2, <2>1
<1>4. ToIndexedSeries(closes) = window
  <2>1. CASE window = {}
    BY <2>1 DEF ToIndexedSeries
  <2>2. CASE window # {}
    <3>1. FirstDay(window) \in window
      BY <1>2, <2>2, FirstDayIsFirst
    <3>2. closes[FirstDay(window)] \in Nat \ {0}
      BY <3>1 DEF IsStock, ClipToWindow
    <3>3. BaselineOf(closes) = closes[FirstDay(window)]
      BY <2>2, <3>2 DEF BaselineOf
    <3> QED
      BY <3>2, <3>3 DEF ToIndexedSeries
  <2> QED
    BY <2>1, <2>2
<1>5. EndToEnd(RunsOf(item), item.start)
  BY <1>1, RunsLieEndToEnd DEF RunsOf, IsStock
<1> QED
  BY <1>1, <1>3, <1>4, <1>5

\* For every stock the api may give, the price view's line is whole.
THEOREM EveryLineIsWhole == TrackRecordTypeOK => LineIsWhole
<1> SUFFICES ASSUME IsStock(trInput)
             PROVE  LineIsWhole
  BY DEF TrackRecordTypeOK
<1> DEFINE window == DOMAIN ClipToWindow(trInput.closes, trInput.start)
<1>1. /\ trInput.start \in Nat
      /\ window \in SUBSET {d \in Nat : d >= trInput.start} /\ IsFiniteSet(window)
      /\ EndToEnd(RunsOf(trInput), trInput.start)
  BY WindowOfStock
<1>2. PriceSegments(trInput) = SplitRuns(window, RunsOf(trInput))
  BY WindowOfStock DEF PriceSegments
<1> HIDE DEF window
<1>3. LET segments == SplitRuns(window, RunsOf(trInput)) IN
      /\ Cardinality(window) >= 2 => UNION {s.points : s \in segments} = window
      /\ \A s, t \in segments : s # t =>
           /\ s.own \cap t.own = {}
           /\ s.run.from < t.run.from => s.points \cap t.points \subseteq {LastDay(s.points)}
           /\ (s.run.from < t.run.from /\ ~\E u \in segments : s.run.from < u.run.from /\ u.run.from < t.run.from)
                => FirstDay(t.points) = LastDay(s.points)
  BY <1>1, LinesAreWhole
<1> QED
  BY <1>2, <1>3, Zenon DEF LineIsWhole, window

\* What can be drawn has a line, in either view.
LEMMA DrawableHasLine ==
  ASSUME NEW item, IsStock(item), NEW view, DrawableIn(view, item)
  PROVE  Segments(view, item) # {}
<1>1. CASE view = "price"
  <2> DEFINE window == DOMAIN ClipToWindow(item.closes, item.start)
  <2>1. Cardinality(window) >= 2
    BY <1>1 DEF DrawableIn
  <2>2. UNION {s.points : s \in PriceSegments(item)} = window /\ IsFiniteSet(window)
    <3>1. PriceSegments(item) = SplitRuns(window, RunsOf(item))
      BY WindowOfStock DEF PriceSegments
    <3>2. /\ item.start \in Nat /\ EndToEnd(RunsOf(item), item.start)
          /\ window \in SUBSET {d \in Nat : d >= item.start} /\ IsFiniteSet(window)
      BY WindowOfStock
    <3> HIDE DEF window
    <3> QED
      BY <2>1, <3>1, <3>2, LinesAreWhole
  <2>3. window # {}
    BY <2>1, <2>2, FS_EmptySet
  <2> QED
    BY <1>1, <2>2, <2>3 DEF Segments
<1>2. CASE view # "price"
  BY <1>2 DEF DrawableIn, Segments
<1> QED
  BY <1>1, <1>2

\* A segment of either view belongs to one run, and owns days within it.
LEMMA SegmentShape ==
  ASSUME NEW item, IsStock(item), NEW view, NEW s \in Segments(view, item)
  PROVE  /\ s.run \in RunsOf(item)
         /\ s.own \subseteq s.points /\ s.own \in SUBSET Nat
         /\ \A d \in s.own : Within(s.run, d)
         /\ \A t \in Segments(view, item) : t.run = s.run => t = s
<1> DEFINE window == DOMAIN ClipToWindow(item.closes, item.start)
<1>1. CASE view = "price"
  <2>1. Segments(view, item) \subseteq {LineOf(window, run) : run \in RunsOf(item)}
    BY <1>1, WindowOfStock, LinesOfRuns DEF Segments, PriceSegments
  <2>2. ASSUME NEW run \in RunsOf(item)
        PROVE  /\ LineOf(window, run).run = run
               /\ LineOf(window, run).own \subseteq LineOf(window, run).points
               /\ LineOf(window, run).own \in SUBSET Nat
               /\ \A d \in LineOf(window, run).own : Within(run, d)
    BY WindowOfStock DEF LineOf, OwnPoints
  <2> HIDE DEF window
  <2> QED
    BY <2>1, <2>2
<1>2. CASE view # "price"
  <2> DEFINE Days(run) == {p.time : p \in ToExcessSeries(item.closes, item.bench, run)}
             piece(run) == [run |-> run, own |-> Days(run), points |-> Days(run)]
  <2>1. Segments(view, item) \subseteq {piece(run) : run \in RunsOf(item)}
    BY <1>2 DEF Segments, PositionSegments
  <2>2. ASSUME NEW run
        PROVE  Days(run) \in SUBSET Nat /\ \A d \in Days(run) : Within(run, d)
    <3>1. DOMAIN item.closes \subseteq Nat
      BY TrackRecordAssumption DEF IsStock
    <3>2. ASSUME NEW p \in ToExcessSeries(item.closes, item.bench, run)
          PROVE  p.time \in DOMAIN item.closes /\ Within(run, p.time)
      <4> DEFINE days == {d \in DOMAIN item.closes \cap DOMAIN item.bench :
                            Within(run, d) /\ item.bench[d] > 0}
                 after(series) == {d \in DOMAIN series : d >= run.opened_at}
                 value(d) == (IF run.state = "sell" THEN -1 ELSE 1)
                             * (item.closes[d] * item.bench[FirstDay(after(item.bench))]
                                - item.bench[d] * item.closes[FirstDay(after(item.closes))])
      <4>1. ToExcessSeries(item.closes, item.bench, run)
              \subseteq {[time |-> d, value |-> value(d)] : d \in days}
        BY Zenon DEF ToExcessSeries
      <4> HIDE DEF value, days
      <4>2. p.time \in days
        BY <4>1
      <4> QED
        BY <4>2 DEF days
    <3> QED
      BY <3>1, <3>2
  <2> HIDE DEF Days
  <2> QED
    BY <2>1, <2>2
<1> QED
  BY <1>1, <1>2

\* An arrow stands on the first bar of its own segment that is not before its call.
LEMMA ArrowShape ==
  ASSUME NEW item, IsStock(item), NEW view, NEW p \in Placed(view, item)
  PROVE  \E s \in Segments(view, item) :
           /\ p.marker \in MarkersOf(item) /\ Within(s.run, p.marker)
           /\ p = [marker |-> p.marker, time |-> FirstDay({d \in s.own : d >= p.marker})]
           /\ p.time \in s.own /\ p.time >= p.marker
<1>1. PICK s \in Segments(view, item), m \in MarkersOf(item) :
        /\ Within(s.run, m) /\ \E d \in s.own : d >= m
        /\ p = [marker |-> m, time |-> FirstDay({d \in s.own : d >= m})]
  BY DEF Placed, SnapMarkers
<1> DEFINE onOrAfter == {d \in s.own : d >= m}
<1>2. onOrAfter \in SUBSET Nat /\ onOrAfter # {}
  BY <1>1, SegmentShape
<1>3. FirstDay(onOrAfter) \in onOrAfter
  BY <1>2, FirstDayIsFirst
<1>4. p.marker = m /\ p.time = FirstDay(onOrAfter)
  BY <1>1
<1> QED
  BY <1>1, <1>3, <1>4

\* A bar is owned by one segment.
LEMMA OneOwner ==
  ASSUME NEW item, IsStock(item), NEW view, NEW s \in Segments(view, item),
         NEW t \in Segments(view, item), NEW d \in Nat, d \in s.own \/ Within(s.run, d),
         d \in t.own \/ Within(t.run, d)
  PROVE  s = t
<1>1. item.start \in Nat /\ EndToEnd(RunsOf(item), item.start)
  BY WindowOfStock
<1>2. s.run \in RunsOf(item) /\ t.run \in RunsOf(item) /\ Within(s.run, d) /\ Within(t.run, d)
  BY SegmentShape
<1>3. s.run = t.run
  BY <1>1, <1>2, OneRunADay
<1> QED
  BY <1>3, SegmentShape

\* The calls within a run say the same: the first one that did not would be a turn, and
\* end the run.
LEMMA OneStanceARun ==
  ASSUME NEW item, IsStock(item), NEW run \in RunsOf(item),
         NEW m \in MarkersOf(item), NEW n \in MarkersOf(item), m < n,
         Within(run, m), Within(run, n)
  PROVE  item.calls[m] = item.calls[n]
<1> DEFINE calls == item.calls
           others == {d \in DOMAIN calls : d > m /\ calls[d] # calls[m]}
           x == FirstDay(others)
           before == {e \in DOMAIN calls : e < x}
<1> SUFFICES ASSUME calls[m] # calls[n]
             PROVE  FALSE
  OBVIOUS
<1>1. /\ DOMAIN calls \in SUBSET Nat /\ IsFiniteSet(DOMAIN calls) /\ NoDay \notin DOMAIN calls
      /\ item.start \in Nat
      /\ m \in DOMAIN calls /\ m > item.start /\ n \in DOMAIN calls
  <2>1. DOMAIN calls \in SUBSET TrDays /\ IsFiniteSet(TrDays) /\ TrDays \in SUBSET (Nat \ {NoDay})
    BY TrackRecordAssumption DEF IsStock
  <2>2. IsFiniteSet(DOMAIN calls)
    BY <2>1, FS_Subset
  <2> QED
    BY <2>1, <2>2, TrackRecordAssumption DEF MarkersOf, Markers, IsStock
<1>2. x \in others /\ x <= n
  <2>1. others \in SUBSET Nat /\ n \in others
    BY <1>1
  <2> HIDE DEF others
  <2> QED
    BY <2>1, FirstDayIsFirst
<1>3. LastDay(before) \in before /\ m <= LastDay(before)
  <2>1. before \in SUBSET Nat /\ m \in before /\ IsFiniteSet(before)
    BY <1>1, <1>2, FS_Subset
  <2> HIDE DEF before
  <2> QED
    BY <2>1, LastDayIsLast
<1>4. calls[LastDay(before)] = calls[m]
  <2>1. LastDay(before) \in Nat /\ LastDay(before) < x /\ LastDay(before) \in DOMAIN calls
    BY <1>1, <1>3
  <2>2. LastDay(before) \notin others
    <3>1. others \in SUBSET Nat
      BY <1>1
    <3>2. \A e \in others : x <= e
      BY <1>2, <3>1, FirstDayIsFirst
    <3>3. x \in Nat
      BY <1>2, <3>1
    <3> HIDE DEF others, x, before
    <3> QED
      BY <2>1, <3>1, <3>2, <3>3
  <2> DEFINE y == LastDay(before)
  <2>3. y \in DOMAIN calls /\ y \in Nat /\ m \in Nat /\ m <= y /\ y \notin others
    BY <1>1, <1>3, <2>1, <2>2
  <2> HIDE DEF y
  <2>4. calls[y] = calls[m]
    BY <2>3
  <2> QED
    BY <2>4 DEF y
<1>5. x \in Transitions(calls)
  <2>1. x \in DOMAIN calls /\ calls[LastDay(before)] # calls[x]
    BY <1>2, <1>4
  <2>2. Transitions(calls) =
          {d \in DOMAIN calls :
             {e \in DOMAIN calls : e < d} # {} =>
               calls[LastDay({e \in DOMAIN calls : e < d})] # calls[d]}
    BY Zenon DEF Transitions
  <2> HIDE DEF x
  <2> QED
    BY <2>1, <2>2
<1> DEFINE start == item.start
           turns == Transitions(calls)
           carried == {d \in turns : d <= start}
           End(from) == IF {d \in turns \ carried : d > from} = {} THEN NoDay
                        ELSE FirstDay({d \in turns \ carried : d > from})
           first == [state |-> IF carried = {} THEN "idle" ELSE calls[LastDay(carried)],
                     from |-> start, to |-> End(start),
                     opened_at |-> IF carried = {} THEN NoDay ELSE LastDay(carried)]
           opened(d) == [state |-> calls[d], from |-> d, to |-> End(d), opened_at |-> d]
<1>6. RunsOf(item) = {first} \cup {opened(d) : d \in turns \ carried}
  BY DEF RunsOf, BuildRuns
<1>7. EndToEnd(RunsOf(item), start)
  BY WindowOfStock
<1>8. x \in Nat /\ m < x
  BY <1>1, <1>2
<1>9. x \in turns \ carried
  <2> HIDE DEF x
  <2> QED
    BY <1>1, <1>5, <1>8
<1>10. opened(x) \in RunsOf(item) /\ opened(x).from = x
  <2> HIDE DEF x, turns, carried, End, first
  <2> QED
    BY <1>6, <1>9
<1> DEFINE next == opened(x)
<1>11. next \in RunsOf(item) /\ next.from = x
  BY <1>10
<1> HIDE DEF next, x
<1>12. run.from \in Nat /\ run.to \in Nat /\ run.from <= m
  BY <1>7 DEF EndToEnd, Within
<1>13. run.to # NoDay /\ run.to <= x
  BY <1>1, <1>7, <1>8, <1>11, <1>12 DEF EndToEnd
<1> QED
  BY <1>1, <1>2, <1>8, <1>12, <1>13 DEF Within

\* For every stock the api may give, the arrows of both views find their calls: the title
\* under an arrow's bar is its call's, or that of a later one that says the same.
THEOREM EveryArrowFindsItsCall == TrackRecordTypeOK => ArrowsFindTheirCall
<1> SUFFICES ASSUME IsStock(trInput)
             PROVE  ArrowsFindTheirCall
  BY DEF TrackRecordTypeOK
<1> DEFINE window == DOMAIN ClipToWindow(trInput.closes, trInput.start)
           runs == RunsOf(trInput)
<1>1. /\ trInput.start \in Nat
      /\ window \in SUBSET {d \in Nat : d >= trInput.start} /\ IsFiniteSet(window)
      /\ EndToEnd(runs, trInput.start)
      /\ PriceSegments(trInput) = SplitRuns(window, runs)
  BY WindowOfStock DEF PriceSegments
<1>2. \A m \in MarkersOf(trInput) : m \in Nat /\ m >= trInput.start
  <2>1. MarkersOf(trInput) = {d \in DOMAIN trInput.calls : d > trInput.start}
    BY DEF MarkersOf, Markers
  <2>2. DOMAIN trInput.calls \subseteq Nat
    BY TrackRecordAssumption DEF IsStock
  <2> QED
    BY <1>1, <2>1, <2>2
<1>3. ASSUME NEW view \in Views, NEW p \in Placed(view, trInput)
      PROVE  LET row == TooltipRow(view, trInput, p.time) IN
             /\ p.time >= p.marker
             /\ row.shown
             /\ row.title \in p.marker .. p.time
             /\ row.title \in DOMAIN trInput.calls
             /\ trInput.calls[row.title] = trInput.calls[p.marker]
             /\ ~\E s \in Segments(view, trInput) : \E d \in s.own : p.marker <= d /\ d < row.title
             /\ \A q \in Placed(view, trInput) : q.marker = p.marker => q = p
  <2>1. PICK s \in Segments(view, trInput) :
           /\ p.marker \in MarkersOf(trInput) /\ Within(s.run, p.marker)
           /\ p = [marker |-> p.marker, time |-> FirstDay({d \in s.own : d >= p.marker})]
           /\ p.time \in s.own /\ p.time >= p.marker
    BY ArrowShape
  <2>2. p.time \in s.points /\ s.own \in SUBSET Nat
    BY <2>1, SegmentShape
  <2>4. ASSUME NEW q \in Placed(view, trInput), q.marker = p.marker
        PROVE  q = p
    <3>1. PICK t \in Segments(view, trInput) :
             /\ Within(t.run, q.marker)
             /\ q = [marker |-> q.marker, time |-> FirstDay({d \in t.own : d >= q.marker})]
      BY ArrowShape
    <3>2. t = s
      BY <1>2, <2>1, <2>4, <3>1, OneOwner
    <3> QED
      BY <2>1, <2>4, <3>1, <3>2
  <2> DEFINE titled == TitledOn(view, trInput, p.time)
             title == LastDay(titled)
  <2>5. p.marker \in titled
    BY DEF TitledOn
  <2>6. ASSUME NEW c \in titled
        PROVE  c \in MarkersOf(trInput) /\ Within(s.run, c) /\ c <= p.time
    <3>1. PICK q \in Placed(view, trInput) : q.time = p.time /\ q.marker = c
      BY DEF TitledOn
    <3>2. PICK t \in Segments(view, trInput) :
             /\ q.marker \in MarkersOf(trInput) /\ Within(t.run, q.marker)
             /\ q.time \in t.own /\ q.time >= q.marker
      BY ArrowShape
    <3>3. t = s
      BY <2>1, <2>2, <3>1, <3>2, OneOwner
    <3> QED
      BY <1>2, <2>1, <2>2, <3>1, <3>2, <3>3
  <2>7. title \in titled /\ p.marker <= title
    <3>1. titled \in SUBSET MarkersOf(trInput)
      BY <2>6
    <3>2. MarkersOf(trInput) \in SUBSET TrDays
      BY DEF MarkersOf, Markers, IsStock
    <3>3. titled \in SUBSET Nat /\ IsFiniteSet(titled)
      BY <1>2, <3>1, <3>2, TrackRecordAssumption, FS_Subset
    <3> HIDE DEF titled
    <3> QED
      BY <2>5, <3>3, LastDayIsLast
  <2> HIDE DEF titled, title
  <2>8. /\ title \in MarkersOf(trInput) /\ Within(s.run, title) /\ title <= p.time
        /\ title \in Nat /\ p.marker \in Nat /\ p.time \in Nat
    BY <1>2, <2>1, <2>2, <2>6, <2>7
  <2>9. TooltipRow(view, trInput, p.time).title = title
    BY <2>5 DEF TooltipRow, titled, title
  <2>10. TooltipRow(view, trInput, p.time).shown
    BY <2>2 DEF TooltipRow
  <2>11. trInput.calls[title] = trInput.calls[p.marker]
    <3>1. CASE title = p.marker
      BY <3>1
    <3>2. CASE p.marker < title
      <4>1. s.run \in RunsOf(trInput)
        BY SegmentShape
      <4> QED
        BY <2>1, <2>8, <3>2, <4>1, OneStanceARun
    <3> QED
      BY <2>7, <2>8, <3>1, <3>2
  <2>12. ASSUME NEW t \in Segments(view, trInput), NEW d \in t.own, p.marker <= d, d < title
         PROVE  FALSE
    <3>1. d \in Nat
      BY SegmentShape
    <3>2. Within(s.run, d)
      <4>1. s.run.from \in Nat /\ s.run.to \in Nat
        BY <1>1, SegmentShape DEF EndToEnd
      <4> QED
        BY <2>1, <2>8, <2>12, <3>1, <4>1 DEF Within
    <3>3. d \in s.own
      BY <3>1, <3>2, OneOwner
    <3> DEFINE onOrAfter == {e \in s.own : e >= p.marker}
    <3>4. p.time = FirstDay(onOrAfter)
      BY <2>1
    <3>5. d \in onOrAfter /\ onOrAfter \in SUBSET Nat
      BY <2>2, <2>8, <2>12, <3>1, <3>3
    <3>6. p.time <= d
      <4> HIDE DEF onOrAfter
      <4> QED
        BY <3>4, <3>5, FirstDayIsFirst
    <3> QED
      BY <2>8, <2>12, <3>1, <3>6
  <2>13. title \in p.marker .. p.time /\ title \in DOMAIN trInput.calls
    BY <2>7, <2>8 DEF MarkersOf, Markers
  <2> QED
    BY <2>1, <2>4, <2>9, <2>10, <2>11, <2>12, <2>13
<1>4. ASSUME NEW m \in MarkersOf(trInput) \ {p.marker : p \in Placed("price", trInput)}
      PROVE  \E run \in runs :
               LET own == OwnPoints(window, run) IN
               /\ Within(run, m)
               /\ (\A d \in own : d < m) \/ own = {FirstDay(window)}
  <2>1. PICK run \in runs : Within(run, m)
    BY <1>1, <1>2 DEF EndToEnd
  <2> DEFINE own == OwnPoints(window, run)
             line == LineOf(window, run)
  <2>2. own \subseteq window /\ own \in SUBSET Nat /\ window \in SUBSET Nat
    BY <1>1 DEF OwnPoints
  <2>3. ASSUME NEW d \in own, ~(d < m)
        PROVE  own = {FirstDay(window)}
    <3>1. line \notin Segments("price", trInput)
      <4> SUFFICES ASSUME line \in Segments("price", trInput)
                   PROVE  FALSE
        OBVIOUS
      <4>1. line.run = run /\ line.own = own
        BY DEF LineOf
      <4>2. d >= m
        BY <1>2, <2>2, <2>3
      <4>3. [marker |-> m, time |-> FirstDay({e \in line.own : e >= m})] \in Placed("price", trInput)
        <5> HIDE DEF line, own
        <5>1. Within(line.run, m) /\ \E e \in line.own : e >= m
          BY <2>1, <2>3, <4>1, <4>2
        <5>2. [marker |-> m, time |-> FirstDay({e \in line.own : e >= m})]
                \in SnapMarkers(line, MarkersOf(trInput))
          BY <5>1, Zenon DEF SnapMarkers
        <5> QED
          BY <5>2, Zenon DEF Placed
      <4> QED
        BY <4>3
    <3>2. ~(Cardinality(line.points) >= 2)
      <4>1. PriceSegments(trInput) =
              {s \in {LineOf(window, r) : r \in runs} : Cardinality(s.points) >= 2}
        <5> HIDE DEF window, runs
        <5> QED
          BY <1>1, LinesOfRuns
      <4> QED
        BY <3>1, <4>1 DEF Segments
    <3>3. /\ line.own = own /\ line.points \subseteq window /\ IsFiniteSet(line.points)
          /\ own \subseteq line.points
          /\ \A p \in own : p >= run.from
          /\ \A p \in window : p < run.from => \E b \in line.points : b < run.from
      <4> HIDE DEF window, runs, own
      <4> QED
        BY <1>1, LineShape DEF own
    <3>4. \A x \in line.points : x = d
      <4> HIDE DEF line, own
      <4> QED
        BY <2>3, <3>2, <3>3, TwoOrMore
    <3>5. own = {d}
      BY <2>3, <3>3, <3>4
    <3>6. \A p \in window : ~(p < run.from)
      <4>1. d \in Nat /\ d >= run.from /\ run.from \in Nat
        BY <1>1, <2>2, <2>3, <3>3 DEF EndToEnd
      <4> QED
        BY <3>3, <3>4, <4>1
    <3>7. \A p \in window : d <= p
      <4>0. run.from \in Nat /\ run.to \in Nat /\ d \in Nat
        BY <1>1, <2>2, <2>3 DEF EndToEnd
      <4> SUFFICES ASSUME NEW p \in window, p < d
                   PROVE  FALSE
        BY <2>2, <4>0
      <4>1. Within(run, p)
        BY <2>2, <2>3, <3>6, <4>0 DEF OwnPoints, Within
      <4>2. p \in own
        BY <4>1 DEF OwnPoints
      <4> QED
        BY <2>2, <3>5, <4>0, <4>2
    <3>8. FirstDay(window) = d
      <4>1. d \in window
        BY <2>2, <2>3
      <4>2. FirstDay(window) \in window /\ FirstDay(window) <= d
        BY <2>2, <4>1, FirstDayIsFirst
      <4> QED
        BY <2>2, <3>7, <4>1, <4>2
    <3> QED
      BY <3>5, <3>8
  <2> QED
    BY <2>1, <2>3
<1> QED
  BY <1>3, <1>4, Zenon DEF ArrowsFindTheirCall
-----------------------------------------------------------------------------
(* The colour slots *)

\* Once touched, the selection has one entry per slot.
SlotsAreSlots ==
  tcSlots.touched => tcSlots.at = [i \in 1..TcSlotCount |-> tcSlots.at[i]]

\* A click moves no other ticker to another slot.
LEMMA ToggledKeeps ==
  ASSUME NEW at, at = [i \in 1..TcSlotCount |-> at[i]], NEW ticker
  PROVE  /\ Toggled(at, ticker) = [i \in 1..TcSlotCount |-> Toggled(at, ticker)[i]]
         /\ \A u \in SelectedIn(at) \cap SelectedIn(Toggled(at, ticker)) :
              SlotOf(at, u) = SlotOf(Toggled(at, ticker), u)
<1>1. CASE Toggled(at, ticker) = at
  BY <1>1
<1>2. CASE Toggled(at, ticker) = Remove(at, ticker) /\ SlotOf(at, ticker) # {}
  BY <1>2 DEF Remove, SelectedIn, SlotOf
<1>3. CASE /\ SlotOf(at, ticker) = {} /\ SlotOf(at, NoTicker) # {}
           /\ Toggled(at, ticker) = [at EXCEPT ![FirstDay(SlotOf(at, NoTicker))] = ticker]
  <2>1. PICK free \in 1..TcSlotCount :
          at[free] = NoTicker /\ Toggled(at, ticker) = [at EXCEPT ![free] = ticker]
    <3>1. SlotOf(at, NoTicker) \in SUBSET Nat
      BY DEF SlotOf
    <3>2. FirstDay(SlotOf(at, NoTicker)) \in SlotOf(at, NoTicker)
      BY <1>3, <3>1, FirstDayIsFirst
    <3> QED
      BY <1>3, <3>2 DEF SlotOf
  <2>2. \A i \in 1..TcSlotCount : Toggled(at, ticker)[i] = IF i = free THEN ticker ELSE at[i]
    BY <2>1
  <2>3. Toggled(at, ticker) = [i \in 1..TcSlotCount |-> Toggled(at, ticker)[i]]
    BY <2>1
  <2>4. ASSUME NEW u \in SelectedIn(at)
        PROVE  SlotOf(at, u) = SlotOf(Toggled(at, ticker), u)
    <3>1. u # NoTicker /\ u # ticker
      BY <1>3, <2>4 DEF SelectedIn, SlotOf
    <3> QED
      BY <2>1, <2>2, <3>1 DEF SlotOf
  <2> QED
    BY <2>3, <2>4
<1> QED
  BY <1>1, <1>2, <1>3, ChartAssumption DEF Toggled

LEMMA TcInitially ==
  ASSUME TcInit
  PROVE  SlotsAreSlots
  BY DEF TcInit, SlotsAreSlots, Untouched

\* Every step but a click and a tab keeps what was selected.
LEMMA TcSteps ==
  ASSUME [TcNext]_tcVars
  PROVE  \/ UNCHANGED tcSlots
         \/ ~tcTab /\ tcSlots' = tcSlots
         \/ ~tcTab' /\ tcSlots' = Untouched
         \/ \E ticker \in PickerTickers \cup LiveChips : ToggleTicker(ticker)
  BY DEF TcNext, TrackRecordFetched, TrackRecordFails, TrackRecordRevalidates, WorldChanges,
     SetRange, SetView, SetLogScale, SetTheme, ClickTicker, ClickShowTable, LeaveTab, ShowTab,
     tcVars, tcState

LEMMA EffectiveShape ==
  ASSUME SlotsAreSlots
  PROVE  effectiveSlots = [i \in 1..TcSlotCount |-> effectiveSlots[i]]
  BY DEF SlotsAreSlots, effectiveSlots, EffectiveSlots

LEMMA TcStep ==
  ASSUME SlotsAreSlots, [TcNext]_tcVars
  PROVE  SlotsAreSlots'
<1>1. CASE UNCHANGED tcSlots
  BY <1>1 DEF SlotsAreSlots
<1>2. CASE tcSlots' = Untouched
  BY <1>2 DEF SlotsAreSlots, Untouched
<1>3. CASE \E ticker \in PickerTickers \cup LiveChips : ToggleTicker(ticker)
  BY <1>3, EffectiveShape, ToggledKeeps DEF ToggleTicker, SlotsAreSlots
<1> QED
  BY <1>1, <1>2, <1>3, TcSteps

LEMMA ColoursStep ==
  ASSUME SlotsAreSlots, [TcNext]_tcVars
  PROVE  [tcTab /\ tcTab' /\ tcSlots'.touched =>
            \A ticker \in selected \cap SelectedIn(tcSlots'.at) :
              SlotOf(effectiveSlots, ticker) = SlotOf(tcSlots'.at, ticker)]_tcVars
<1> SUFFICES ASSUME tcTab, tcTab', tcSlots'.touched,
                    NEW u \in selected \cap SelectedIn(tcSlots'.at)
             PROVE  SlotOf(effectiveSlots, u) = SlotOf(tcSlots'.at, u)
  OBVIOUS
<1>1. CASE UNCHANGED tcSlots
  BY <1>1 DEF effectiveSlots, EffectiveSlots
<1>2. CASE tcSlots' = Untouched
  BY <1>2 DEF Untouched
<1>3. CASE \E ticker \in PickerTickers \cup LiveChips : ToggleTicker(ticker)
  <2>1. PICK ticker : ToggleTicker(ticker)
    BY <1>3
  <2>2. tcSlots'.at = Toggled(effectiveSlots, ticker)
    BY <2>1 DEF ToggleTicker
  <2>3. effectiveSlots = [i \in 1..TcSlotCount |-> effectiveSlots[i]]
    BY EffectiveShape
  <2>4. u \in SelectedIn(effectiveSlots) \cap SelectedIn(Toggled(effectiveSlots, ticker))
    BY <2>2 DEF selected
  <2>5. SlotOf(effectiveSlots, u) = SlotOf(Toggled(effectiveSlots, ticker), u)
    BY <2>3, <2>4, ToggledKeeps
  <2> QED
    BY <2>2, <2>5
<1> QED
  BY <1>1, <1>2, <1>3, TcSteps

\* A ticker that stays selected keeps its colour, for any number of slots and any
\* tickers, from the first click on.
THEOREM ColoursStay == TcSpec => ColoursAreStable
  BY TcInitially, TcStep, ColoursStep, PTL DEF TcSpec, ColoursAreStable

\* What the effect reports opens the table once.
LEMMA ReportOpensOnce ==
  ASSUME tcShowTable \in BOOLEAN, NEW data, NEW view, Notify(data, view)
  PROVE  /\ tcShowTable' \in BOOLEAN
         /\ ~tcShowTable /\ tcShowTable' => tcReported # "empty"
<1>1. CASE UNCHANGED <<tcReported, tcShowTable>>
  BY <1>1
<1> DEFINE empty == Empty(view, data)
           now == IF empty THEN "empty" ELSE "drawn"
<1>2. CASE tcReported # now /\ tcShowTable' = (tcShowTable \/ empty)
  <2> empty \in BOOLEAN
    BY DEF Empty
  <2> HIDE DEF empty
  <2>1. CASE empty = TRUE
    BY <1>2, <2>1
  <2>2. CASE empty = FALSE
    BY <1>2, <2>2
  <2> QED
    BY <2>1, <2>2
<1> QED
  BY <1>1, <1>2 DEF Notify

\* The table is open or closed.
TableKnown == tcShowTable \in BOOLEAN

LEMMA TableStep ==
  ASSUME TableKnown, [TcNext]_tcVars
  PROVE  /\ TableKnown'
         /\ ~tcShowTable /\ tcShowTable' => ClickShowTable \/ tcReported # "empty"
<1> USE DEF TableKnown
<1>1. CASE UNCHANGED tcShowTable
  BY <1>1
<1>2. CASE ClickShowTable
  BY <1>2 DEF ClickShowTable
<1>3. CASE Flush
  BY <1>3, ReportOpensOnce DEF Flush
<1> QED
  BY <1>1, <1>2, <1>3
     DEF TcNext, TrackRecordFetched, TrackRecordFails, TrackRecordRevalidates, WorldChanges,
     SetRange, SetView, SetLogScale, SetTheme, ClickTicker, ToggleTicker, LeaveTab, ShowTab, tcVars

\* Whatever was fetched, chosen and clicked, only a chart that was not known to be empty
\* opens the table.
THEOREM ClosedTableStays == TcSpec => TableStaysClosed
<1>1. TcInit => TableKnown
  BY DEF TcInit, TableKnown
<1>2. ASSUME TableKnown, [TcNext]_tcVars
      PROVE  [~tcShowTable /\ tcShowTable' => ClickShowTable \/ tcReported # "empty"]_tcVars
  BY <1>2, TableStep
<1>3. ASSUME TableKnown, [TcNext]_tcVars
      PROVE  TableKnown'
  BY <1>3, TableStep
<1> QED
  BY <1>1, <1>2, <1>3, PTL DEF TcSpec, TableStaysClosed

\* The chart is what the effect would build now.
ChartIsBuilt ==
  /\ tcLog \in BOOLEAN
  /\ tcChart = Build(tcData, effectiveSlots, tcView, tcDark, tcLog)

LEMMA FlushBuilds ==
  ASSUME ChartIsBuilt, Flush, tcLog' \in BOOLEAN,
         tcLog' # tcLog => tcView = "price"
  PROVE  ChartIsBuilt'
<1> DEFINE built == tcData.loaded /\ tcData.tickers # <<>>
<1>1. EffectiveSlots(tcSlots', tcData') = effectiveSlots'
  BY DEF effectiveSlots
<1>2. CASE tcChart' = Build(tcData', effectiveSlots', tcView', tcDark', tcLog')
  BY <1>2 DEF ChartIsBuilt
<1>3. CASE /\ UNCHANGED <<tcData, tcDark, tcView, effectiveSlots>>
           /\ tcLog' # tcLog /\ tcChart.built
           /\ tcChart' = [tcChart EXCEPT !.log = tcLog']
  <2>1. tcChart = [built |-> TRUE, dark |-> tcDark, log |-> tcView = "price" /\ tcLog,
                   lines |-> Lines(tcView, tcData, effectiveSlots)] /\ built
    BY <1>3 DEF ChartIsBuilt, Build, NoChart
  <2>2. tcChart' = [built |-> TRUE, dark |-> tcDark, log |-> tcLog',
                    lines |-> Lines(tcView, tcData, effectiveSlots)]
    BY <1>3, <2>1
  <2>3. (tcView = "price" /\ tcLog') = tcLog'
    BY <1>3
  <2>4. Build(tcData, effectiveSlots, tcView, tcDark, tcLog') = tcChart'
    <3> HIDE DEF built
    <3> QED
      BY <2>1, <2>2, <2>3 DEF Build, built
  <2> QED
    BY <1>3, <2>4 DEF ChartIsBuilt
<1>4. CASE /\ UNCHANGED <<tcData, tcDark, tcView, effectiveSlots, tcChart>>
           /\ tcLog' = tcLog \/ ~tcChart.built
  <2>1. CASE tcLog' = tcLog
    BY <1>4, <2>1 DEF ChartIsBuilt
  <2>2. CASE ~tcChart.built
    <3>1. ~built
      BY <2>2 DEF ChartIsBuilt, Build
    <3> QED
      BY <1>4, <3>1 DEF ChartIsBuilt, Build
  <2> QED
    BY <1>4, <2>1, <2>2
<1> QED
  BY <1>1, <1>2, <1>3, <1>4 DEF Flush

LEMMA BuiltInitially ==
  ASSUME TcInit
  PROVE  ChartIsBuilt
  BY DEF TcInit, ChartIsBuilt, Build, NoData, NoChart

LEMMA BuiltStep ==
  ASSUME ChartIsBuilt, [TcNext]_tcVars
  PROVE  ChartIsBuilt'
<1>1. CASE TrackRecordFails \/ TrackRecordRevalidates \/ WorldChanges \/ ClickShowTable
           \/ UNCHANGED tcVars
  BY <1>1 DEF ChartIsBuilt, TrackRecordFails, TrackRecordRevalidates, WorldChanges,
     ClickShowTable, tcVars, tcState, effectiveSlots
<1>2. CASE LeaveTab
  BY <1>2 DEF LeaveTab, ChartIsBuilt, Build, NoData
<1>3. CASE TrackRecordFetched \/ SetRange \/ SetView \/ SetTheme \/ ClickTicker \/ ShowTab
  <2>1. Flush /\ tcLog' = tcLog
    BY <1>3 DEF TrackRecordFetched, SetRange, SetView, SetTheme, ClickTicker, ToggleTicker,
       ShowTab, tcState
  <2> QED
    BY <2>1, FlushBuilds DEF ChartIsBuilt
<1>4. CASE SetLogScale
  <2>1. Flush /\ tcView = "price" /\ tcLog' \in BOOLEAN
    BY <1>4 DEF SetLogScale, ScaleShown
  <2> QED
    BY <2>1, FlushBuilds
<1> QED
  BY <1>1, <1>2, <1>3, <1>4 DEF TcNext

\* What was built is of what is chosen.
LEMMA BuiltIsChosen ==
  ASSUME ChartIsBuilt
  PROVE  LinesAreChosen
<1>1. CASE tcChart = NoChart
  BY <1>1 DEF NoChart, LinesAreChosen
<1>2. CASE tcChart = [built |-> TRUE, dark |-> tcDark, log |-> tcView = "price" /\ tcLog,
                      lines |-> Lines(tcView, tcData, effectiveSlots)]
  <2>1. ASSUME NEW line \in Lines(tcView, tcData, effectiveSlots)
        PROVE  effectiveSlots[line.slot] = line.ticker /\ line.view = tcView
    <3> DEFINE first(t) == CHOOSE i \in SlotOf(effectiveSlots, t) : TRUE
    <3>1. PICK t \in SelectedIn(effectiveSlots) :
          \E s \in SegmentsIn[tcView][tcData.world][t][WindowStart(tcData)] :
            line = [ticker |-> t, slot |-> first(t), view |-> tcView,
                    from |-> s.run.from, state |-> s.run.state]
      BY <2>1, Zenon DEF Lines
    <3> HIDE DEF first
    <3>2. PICK from, state : line = [ticker |-> t, slot |-> first(t), view |-> tcView,
                                     from |-> from, state |-> state]
      BY <3>1, Zenon
    <3>3. line.ticker = t /\ line.view = tcView /\ line.slot = first(t)
      BY <3>2
    <3>4. SlotOf(effectiveSlots, t) # {}
      BY DEF SelectedIn, SlotOf
    <3>5. line.slot \in SlotOf(effectiveSlots, t)
      BY <3>3, <3>4, Zenon DEF first
    <3> QED
      BY <3>3, <3>5 DEF SlotOf
  <2> QED
    BY <1>2, <2>1 DEF LinesAreChosen
<1> QED
  BY <1>1, <1>2 DEF ChartIsBuilt, Build

-----------------------------------------------------------------------------
(* The chart agrees with its controls *)

\* The tickers of an answer are ranked by what the api knew when it gave it.
RankedIn(n) == {TcWorlds[n].rank[i] : i \in DOMAIN TcWorlds[n].rank}
AnswerIsRanked ==
  /\ tcWorld \in DOMAIN TcWorlds
  /\ tcView \in Views
  /\ tcData.loaded => /\ tcData.world \in DOMAIN TcWorlds
                      /\ tcData.tickers \in Seq(RankedIn(tcData.world))

LEMMA FirstOfRanked ==
  ASSUME NEW S, NEW s \in Seq(S), NEW n \in Nat
  PROVE  SubSeq(s, 1, IF Len(s) < n THEN Len(s) ELSE n) \in Seq(S)
<1>1. CASE Len(s) < n
  BY <1>1
<1>2. CASE ~(Len(s) < n)
  BY <1>2
<1> QED
  BY <1>1, <1>2

LEMMA SelectionIsRanked ==
  ASSUME NEW n \in DOMAIN TcWorlds, NEW requested
  PROVE  ResolveSelection(n, requested) \in Seq(RankedIn(n))
<1> DEFINE ranked == TcWorlds[n].rank
           wanted == Kept(ranked, {i \in DOMAIN ranked : ranked[i] \in requested})
<1>1. ranked \in Seq(RankedIn(n))
  BY ChartAssumption DEF RankedIn
<1> HIDE DEF ranked
<1>2. wanted \in Seq(RankedIn(n))
  BY <1>1, KeptIsThose
<1> HIDE DEF wanted
<1>3. ResolveSelection(n, requested) =
        IF wanted # <<>> THEN SubSeq(wanted, 1, IF Len(wanted) < TcSlotCount THEN Len(wanted) ELSE TcSlotCount)
        ELSE SubSeq(ranked, 1, IF Len(ranked) < TcDefaultN THEN Len(ranked) ELSE TcDefaultN)
  BY Zenon DEF ResolveSelection, ranked, wanted
<1> QED
  BY <1>1, <1>2, <1>3, FirstOfRanked, ChartAssumption

LEMMA RankedInitially ==
  ASSUME TcInit
  PROVE  AnswerIsRanked
  BY ChartAssumption DEF TcInit, AnswerIsRanked, NoData, Views

\* Any answer is, of whatever the api knew.
LEMMA AnyAnswerIsRanked ==
  ASSUME AnswerIsRanked, UNCHANGED <<tcWorld, tcView>>, NEW n \in DOMAIN TcWorlds,
         NEW range, NEW requested, tcData' = Answer(n, range, requested)
  PROVE  AnswerIsRanked'
<1>1. /\ tcData'.loaded /\ tcData'.world = n
      /\ tcData'.tickers = ResolveSelection(n, requested)
  BY DEF Answer
<1> QED
  BY <1>1, SelectionIsRanked DEF AnswerIsRanked

LEMMA RankedStep ==
  ASSUME AnswerIsRanked, [TcNext]_tcVars
  PROVE  AnswerIsRanked'
<1>1. CASE TrackRecordFetched
  BY <1>1, AnyAnswerIsRanked DEF AnswerIsRanked, TrackRecordFetched, tcState
<1>2. CASE LeaveTab
  BY <1>2 DEF LeaveTab, AnswerIsRanked, NoData, Views
<1>3. CASE WorldChanges \/ SetView
  BY <1>3 DEF WorldChanges, SetView, AnswerIsRanked, tcState
<1>4. CASE UNCHANGED <<tcWorld, tcView, tcData>>
  BY <1>4 DEF AnswerIsRanked
<1>5. CASE SetRange \/ ClickTicker \/ ShowTab
  <2>1. UNCHANGED <<tcWorld, tcView>> /\ \E range, slots : ShowKey(range, slots)
    BY <1>5 DEF SetRange, ClickTicker, ToggleTicker, ShowTab, tcState
  <2>2. PICK range, slots : ShowKey(range, slots)
    BY <2>1
  <2>3. CASE tcData' = tcData
    BY <1>4, <2>1, <2>3
  <2>4. CASE \E n \in DOMAIN TcWorlds : tcData' = Answer(n, range, Requested(slots))
    BY <2>1, <2>4, AnyAnswerIsRanked
  <2> QED
    BY <2>2, <2>3, <2>4 DEF ShowKey
<1> QED
  BY <1>1, <1>2, <1>3, <1>4, <1>5
     DEF TcNext, TrackRecordFails, TrackRecordRevalidates, SetLogScale, SetTheme,
     ClickShowTable, tcVars, tcState

LEMMA WindowStarts ==
  ASSUME AnswerIsRanked, tcData.loaded
  PROVE  WindowStart(tcData) \in TrDays
<1> DEFINE items == TcWorlds[tcData.world].item
           called == UNION {DOMAIN items[tcData.tickers[i]].calls : i \in DOMAIN tcData.tickers}
<1>1. \A t \in RankedIn(tcData.world) : DOMAIN items[t].calls \subseteq TrDays
  <2> SUFFICES ASSUME NEW t \in RankedIn(tcData.world)
               PROVE  DOMAIN items[t].calls \subseteq TrDays
    OBVIOUS
  <2>1. t \in DOMAIN items
    BY ChartAssumption DEF AnswerIsRanked, RankedIn
  <2>2. IsStock(ItemOf(TcWorlds[tcData.world], t, TcYear))
    BY <2>1, ChartAssumption DEF AnswerIsRanked
  <2> QED
    BY <2>2 DEF IsStock, ItemOf
<1>2. called \in SUBSET TrDays
  BY <1>1 DEF AnswerIsRanked
<1>3. CASE called # {}
  <2>1. FirstDay(called) \in called
    BY <1>2, <1>3, FirstDayIsFirst, TrackRecordAssumption
  <2> HIDE DEF called
  <2>2. WindowStart(tcData) \in {FirstDay(called), TcYear}
    BY DEF WindowStart, called
  <2> QED
    BY <1>2, <2>1, <2>2, ChartAssumption
<1>4. CASE called = {}
  BY <1>4, ChartAssumption DEF WindowStart
<1> QED
  BY <1>3, <1>4

\* A ticker that can be drawn has a segment to draw.
LEMMA DrawableIsDrawn ==
  ASSUME AnswerIsRanked, tcData.loaded, NEW t, Drawable(tcView, tcData, t)
  PROVE  SegmentsIn[tcView][tcData.world][t][WindowStart(tcData)] # {}
<1> DEFINE n == tcData.world
           start == WindowStart(tcData)
           item == ItemOf(TcWorlds[n], t, start)
<1>1. n \in DOMAIN TcWorlds /\ t \in RankedIn(n) /\ start \in TrDays
  BY WindowStarts DEF AnswerIsRanked, Drawable, Has
<1>2. t \in Tickers /\ tcView \in Views
  BY <1>1 DEF AnswerIsRanked, RankedIn, Tickers
<1>3. IsStock(item)
  BY <1>1, ChartAssumption DEF RankedIn
<1>5. DrawableIn(tcView, item)
  <2>1. CanBeDrawn[tcView][n][t][start]
    BY DEF Drawable
  <2>2. CanBeDrawn[tcView][n][t][start] = DrawableIn(tcView, item)
    BY <1>1, <1>2 DEF CanBeDrawn, InEveryPicture
  <2> QED
    BY <2>1, <2>2
<1>6. SegmentsIn[tcView][n][t][start] = Segments(tcView, item)
  BY <1>1, <1>2 DEF SegmentsIn, InEveryPicture
<1> QED
  BY <1>3, <1>5, <1>6, DrawableHasLine

\* The lines are of what is chosen, and everything chosen that can be drawn has one.
LEMMA ChartIsThePicture ==
  ASSUME ChartIsBuilt, AnswerIsRanked
  PROVE  ChartAgrees
<1> SUFFICES ASSUME tcTab, tcData.loaded
             PROVE  /\ LinesAreChosen
                    /\ \A ticker \in selected : Drawable(tcView, tcData, ticker) =>
                         \E line \in tcChart.lines : line.ticker = ticker
  BY DEF ChartAgrees
<1>1. LinesAreChosen
  BY BuiltIsChosen
<1>2. ASSUME NEW t \in selected, Drawable(tcView, tcData, t)
      PROVE  \E line \in tcChart.lines : line.ticker = t
  <2>1. tcData.tickers # <<>>
    BY <1>2 DEF Drawable, Has
  <2>2. tcChart.lines = Lines(tcView, tcData, effectiveSlots)
    BY <2>1 DEF ChartIsBuilt, Build
  <2>3. PICK s \in SegmentsIn[tcView][tcData.world][t][WindowStart(tcData)] : TRUE
    BY <1>2, DrawableIsDrawn
  <2> DEFINE line == [ticker |-> t, slot |-> CHOOSE i \in SlotOf(effectiveSlots, t) : TRUE,
                      view |-> tcView, from |-> s.run.from, state |-> s.run.state]
  <2>4. line \in Lines(tcView, tcData, effectiveSlots)
    <3> DEFINE of(u) ==
          {[ticker |-> u, slot |-> CHOOSE i \in SlotOf(effectiveSlots, u) : TRUE, view |-> tcView,
            from |-> p.run.from, state |-> p.run.state] :
             p \in SegmentsIn[tcView][tcData.world][u][WindowStart(tcData)]}
    <3>1. line \in of(t)
      BY <2>3
    <3>2. t \in {u \in SelectedIn(effectiveSlots) : Drawable(tcView, tcData, u)}
      BY <1>2 DEF selected
    <3>3. Lines(tcView, tcData, effectiveSlots) =
            UNION {of(u) : u \in {w \in SelectedIn(effectiveSlots) : Drawable(tcView, tcData, w)}}
      BY Zenon DEF Lines
    <3> HIDE DEF of, line
    <3> QED
      BY <3>1, <3>2, <3>3
  <2> QED
    BY <2>2, <2>4
<1> QED
  BY <1>1, <1>2

\* The picture agrees with the controls, for any channel, number of slots and answers.
THEOREM PictureAgrees == TcSpec => []ChartAgrees
  BY BuiltInitially, BuiltStep, RankedInitially, RankedStep, ChartIsThePicture, PTL DEF TcSpec

-----------------------------------------------------------------------------
(* The price chart of the stock page *)

\* The rows that pass the filters are rows of the answer.
LEMMA FilteredRows ==
  ASSUME NEW rows \in Seq(SpRow), NEW stance, NEW channel
  PROVE  /\ FilterStances(rows, stance, channel) \in Seq(SpRow)
         /\ rows = <<>> => FilterStances(rows, stance, channel) = <<>>
<1> DEFINE at == {i \in DOMAIN rows : /\ stance \in {"all", rows[i].stance}
                                      /\ channel \in {"all", rows[i].channel}}
           kept == Kept(rows, at)
<1>1. /\ kept \in Seq(SpRow)
      /\ \A j \in 1..Len(kept) : \E i \in at \cap DOMAIN rows : kept[j] = rows[i]
  <2> HIDE DEF at
  <2> QED
    BY KeptIsThose
<1>2. FilterStances(rows, stance, channel) = kept
  BY Zenon DEF FilterStances
<1> HIDE DEF kept
<1>3. rows = <<>> => kept = <<>>
  <2>1. rows = <<>> => \A j \in 1..Len(kept) : FALSE
    BY <1>1
  <2> QED
    BY <1>1, <2>1
<1> QED
  BY <1>1, <1>2, <1>3

\* A stance is on the first trading day that is not before it, or on the last of all.
LEMMA SnappedDay ==
  ASSUME NEW days \in SUBSET (Nat \ {NoDate}), IsFiniteSet(days), NEW day \in Nat,
         SnapToTradingDay(day, days) # NoDate
  PROVE  LET at == SnapToTradingDay(day, days) IN
         /\ at \in days
         /\ day <= at \/ at = DayMax(days)
         /\ ~\E d \in days : day <= d /\ d < at
<1> DEFINE onOrAfter == {d \in days : d >= day}
           at == SnapToTradingDay(day, days)
<1>1. days # {} /\ days \in SUBSET Nat
  BY DEF SnapToTradingDay
<1>2. CASE onOrAfter # {}
  <2>1. at = FirstDay(onOrAfter)
    BY <1>2 DEF SnapToTradingDay, DayMin, FirstDay
  <2>2. onOrAfter \in SUBSET Nat
    BY <1>1
  <2>3. FirstDay(onOrAfter) \in onOrAfter /\ \A d \in onOrAfter : FirstDay(onOrAfter) <= d
    BY <1>2, <2>2, FirstDayIsFirst
  <2>4. at \in days /\ day <= at /\ \A d \in days : day <= d => at <= d
    BY <1>1, <2>1, <2>3
  <2> HIDE DEF at
  <2>5. ~\E d \in days : day <= d /\ d < at
    BY <1>1, <2>4
  <2> QED
    BY <2>4, <2>5 DEF at
<1>3. CASE onOrAfter = {}
  <2>1. at = DayMax(days) /\ DayMax(days) = LastDay(days)
    BY <1>3 DEF SnapToTradingDay, DayMax, LastDay
  <2>2. at \in days
    BY <1>1, <2>1, LastDayIsLast
  <2>3. ~\E d \in days : day <= d
    BY <1>1, <1>3
  <2> HIDE DEF at
  <2> QED
    BY <2>1, <2>2, <2>3 DEF at
<1> QED
  BY <1>2, <1>3

\* Without rows or trading days there is nothing to count or to find.
LEMMA NothingToCount ==
  ASSUME NEW rows \in Seq(SpRow), NEW days, rows = <<>> \/ days = {}
  PROVE  BuildStanceHistogram(rows, days) = NoStances
<1> DEFINE snapped == [i \in DOMAIN rows |-> SnapToTradingDay(rows[i].day, days)]
<1>1. {snapped[i] : i \in DOMAIN rows} \ {NoDate} = {}
  <2>1. CASE rows = <<>>
    BY <2>1
  <2>2. CASE days = {}
    BY <2>2 DEF SnapToTradingDay
  <2> QED
    BY <2>1, <2>2
<1> HIDE DEF snapped
<1>2. BuildStanceHistogram(rows, days) =
        [d \in {snapped[i] : i \in DOMAIN rows} \ {NoDate} |->
           [s \in {"buy", "neutral", "sell"} |->
              Cardinality({i \in DOMAIN rows : snapped[i] = d /\ rows[i].stance = s})]]
  BY Zenon DEF BuildStanceHistogram, snapped
<1> QED
  BY <1>1, <1>2 DEF NoStances

\* The rows and trading days that the page shows now.
spFiltered == FilterStances(RowsOfAnswer(spRows), spStance, spChannel)
spDays == TradingDays(spRange, spCandles)
spPane == HasAnyStances(spRows) /\ spRange \notin SpIntraday

\* The price chart is what its effects would make of that.
PriceChartNow ==
  [on |-> TRUE, range |-> spRange, pane |-> spPane,
   histogram |-> IF spPane THEN BuildStanceHistogram(spFiltered, spDays) ELSE NoStances,
   earnings |-> IF spEarned THEN BuildEarningsMarkerTimes(SpEarnings, spDays) ELSE {},
   cross |-> spChart.cross]

\* What is cached of a range is one of its answers.
CandlesKnown ==
  /\ spCandles \in [SpRanges -> Nat]
  /\ \A range \in SpRanges : spCandles[range] <= Len(SpBars[range])

\* The days of a range are days.
LEMMA BarsAreDays ==
  ASSUME CandlesKnown, spRange \in SpRanges
  PROVE  /\ BarsIn(spRange, spCandles) \in SUBSET (Nat \ {NoDate})
         /\ IsFiniteSet(BarsIn(spRange, spCandles))
<1>1. CASE spCandles[spRange] = 0
  BY <1>1, FS_EmptySet DEF BarsIn
<1>2. CASE spCandles[spRange] # 0
  <2>1. spCandles[spRange] \in DOMAIN SpBars[spRange]
    BY <1>2, StockAssumption DEF CandlesKnown
  <2> QED
    BY <1>2, <2>1, StockAssumption DEF BarsIn
<1> QED
  BY <1>1, <1>2

SpInv ==
  /\ spRange \in SpRanges
  /\ CandlesKnown
  /\ spRows \in 0..Len(SpStances)
  /\ spLookup = LookupOf(spFiltered, spDays)
  /\ IF BarsIn(spRange, spCandles) = {} THEN spChart = NoPriceChart ELSE spChart = PriceChartNow

LEMMA AnswerOfRows ==
  ASSUME NEW n \in 0..Len(SpStances)
  PROVE  RowsOfAnswer(n) \in Seq(SpRow)
<1>1. CASE n = 0
  BY <1>1 DEF RowsOfAnswer
<1>2. CASE n # 0
  <2>1. n \in 1..Len(SpStances)
    BY <1>2
  <2> QED
    BY <1>2, <2>1, StockAssumption DEF RowsOfAnswer
<1> QED
  BY <1>1, <1>2

LEMMA SpInitially ==
  ASSUME SpInit
  PROVE  SpInv
<1>1. /\ spRows = 0 /\ spCandles = [range \in SpRanges |-> 0] /\ spRange = "3m"
      /\ spChart = NoPriceChart
  BY DEF SpInit
<1>2. spFiltered = <<>>
  <2>1. RowsOfAnswer(spRows) = <<>>
    BY <1>1 DEF RowsOfAnswer
  <2>2. <<>> \in Seq(SpRow)
    OBVIOUS
  <2> QED
    BY <2>1, <2>2, FilteredRows DEF spFiltered
<1>3. BarsIn(spRange, spCandles) = {} /\ spDays = {}
  BY <1>1, StockAssumption DEF BarsIn, TradingDays, spDays
<1>7. CandlesKnown
  BY <1>1, StockAssumption DEF CandlesKnown
<1>4. spLookup = LookupOf(<<>>, {})
  BY DEF SpInit
<1>5. spRange \in SpRanges
  BY <1>1, StockAssumption
<1>6. spRows \in 0..Len(SpStances)
  <2>1. Len(SpStances) \in Nat
    BY StockAssumption
  <2> QED
    BY <1>1, <2>1
<1> QED
  BY <1>1, <1>2, <1>3, <1>4, <1>5, <1>6, <1>7 DEF SpInv

\* One lookup, filled again whenever what it is made of changes.
LEMMA LookupIsRefilled ==
  ASSUME SpInv, NEW chart
  PROVE  StanceEffect(chart).lookup = LookupOf(spFiltered', spDays')
<1>1. CASE ~candlesChanged /\ <<spRows, spStance, spChannel>>' = <<spRows, spStance, spChannel>>
  <2>1. spFiltered' = spFiltered /\ spDays' = spDays
    BY <1>1 DEF candlesChanged, spFiltered, spDays, TradingDays
  <2>2. StanceEffect(chart).lookup = spLookup
    BY <1>1 DEF StanceEffect
  <2> QED
    BY <2>1, <2>2 DEF SpInv
<1>2. CASE ~(~candlesChanged /\ <<spRows, spStance, spChannel>>' = <<spRows, spStance, spChannel>>)
  <2> DEFINE lookup == LookupOf(FilterStances(RowsOfAnswer(spRows'), spStance', spChannel'),
                                TradingDays(spRange', spCandles'))
  <2>1. StanceEffect(chart) =
          [chart |-> IF chart.pane THEN [chart EXCEPT !.histogram = lookup.histogram] ELSE chart,
           lookup |-> lookup]
    BY <1>2, Zenon DEF StanceEffect
  <2>2. lookup = LookupOf(spFiltered', spDays')
    BY DEF spFiltered, spDays
  <2> HIDE DEF lookup
  <2> QED
    BY <2>1, <2>2
<1> QED
  BY <1>1, <1>2

\* Without candles there is no chart.
LEMMA NoCandlesNoChart ==
  ASSUME SpInv, Effects, BarsIn(spRange', spCandles') = {}
  PROVE  spChart' = NoPriceChart
<1>1. BuildEffect = NoPriceChart
  BY DEF SpInv, BuildEffect, candlesChanged
<1>2. StanceEffect(NoPriceChart).chart = NoPriceChart
  BY DEF StanceEffect, NoPriceChart
<1>3. EarningsEffect(NoPriceChart) = NoPriceChart
  BY DEF EarningsEffect, NoPriceChart
<1>4. \A lookup : HoverEffect(NoPriceChart, lookup) = NoPriceChart
  BY DEF HoverEffect, NoPriceChart
<1> QED
  BY <1>1, <1>2, <1>3, <1>4 DEF Effects

\* The chart was rebuilt.
Rebuilt == candlesChanged \/ HasAnyStances(spRows') # HasAnyStances(spRows)

\* The effects build and fill the chart anew from what is shown now.
LEMMA ChartIsRefilled ==
  ASSUME SpInv, Effects, BarsIn(spRange', spCandles') # {}
  PROVE  spChart' = [on |-> TRUE, range |-> spRange', pane |-> spPane',
                     histogram |-> IF spPane' THEN BuildStanceHistogram(spFiltered', spDays')
                                   ELSE NoStances,
                     earnings |-> IF spEarned' THEN BuildEarningsMarkerTimes(SpEarnings, spDays') ELSE {},
                     cross |-> spChart'.cross]
<1> DEFINE Counted == BuildStanceHistogram(spFiltered, spDays)
           Marked == BuildEarningsMarkerTimes(SpEarnings, spDays)
           counted == BuildStanceHistogram(spFiltered', spDays')
           marked == BuildEarningsMarkerTimes(SpEarnings, spDays')
           Chart(h, e, c) == [on |-> TRUE, range |-> spRange', pane |-> spPane',
                              histogram |-> h, earnings |-> e, cross |-> c]
           built == BuildEffect
           filled == StanceEffect(built).chart
           earned == EarningsEffect(filled)
           hist == IF spPane' THEN counted ELSE NoStances
           earnings == IF spEarned' THEN marked ELSE {}
<1>1. CASE Rebuilt
  <2>1. built = Chart(NoStances, {}, NoVideo)
    BY <1>1 DEF BuildEffect, Rebuilt, NoPriceChart, spPane
  <2>2. filled = Chart(hist, {}, NoVideo)
    <3>1. ~(~candlesChanged /\ <<spRows, spStance, spChannel>>' = <<spRows, spStance, spChannel>>)
      BY <1>1 DEF Rebuilt
    <3>2. filled = IF built.pane THEN [built EXCEPT !.histogram = counted] ELSE built
      BY <3>1 DEF StanceEffect, LookupOf, spFiltered, spDays
    <3> HIDE DEF built, filled, counted
    <3> QED
      BY <2>1, <3>2
  <2>3. earned = Chart(hist, earnings, NoVideo)
    <3>1. earned = IF ~filled.on THEN filled ELSE [filled EXCEPT !.earnings = earnings]
      BY <1>1 DEF EarningsEffect, Rebuilt, spDays
    <3> HIDE DEF filled, hist, earnings, earned
    <3> QED
      BY <2>2, <3>1
  <2>4. \E c : spChart' = Chart(hist, earnings, c)
    <3>1. spChart' = HoverEffect(earned, StanceEffect(built).lookup)
      BY DEF Effects
    <3> HIDE DEF earned, hist, earnings, built
    <3> QED
      BY <2>3, <3>1 DEF HoverEffect
  <2> HIDE DEF hist, earnings
  <2>5. spChart' = Chart(hist, earnings, spChart'.cross)
    BY <2>4
  <2> QED
    BY <2>5 DEF hist, earnings
<1>2. CASE ~Rebuilt
  <2>0. /\ spRange' = spRange /\ spDays' = spDays /\ spPane' = spPane
        /\ BarsIn(spRange, spCandles) # {}
    BY <1>2 DEF Rebuilt, candlesChanged, spDays, TradingDays, spPane
  <2>1. built = Chart(IF spPane' THEN Counted ELSE NoStances, IF spEarned THEN Marked ELSE {}, spChart.cross)
    <3>1. built = spChart
      BY <1>2 DEF BuildEffect, Rebuilt
    <3>2. spChart = PriceChartNow
      BY <2>0 DEF SpInv
    <3> QED
      BY <2>0, <3>1, <3>2 DEF PriceChartNow
  <2>2. filled = Chart(hist, IF spEarned THEN Marked ELSE {}, spChart.cross)
    <3>1. CASE <<spRows, spStance, spChannel>>' = <<spRows, spStance, spChannel>>
      <4>1. spFiltered' = spFiltered
        BY <3>1 DEF spFiltered
      <4>2. filled = built
        BY <1>2, <3>1 DEF StanceEffect, Rebuilt
      <4> QED
        BY <2>0, <2>1, <4>1, <4>2
    <3>2. CASE <<spRows, spStance, spChannel>>' # <<spRows, spStance, spChannel>>
      <4>1. filled = IF built.pane THEN [built EXCEPT !.histogram = counted] ELSE built
        BY <3>2 DEF StanceEffect, LookupOf, spFiltered, spDays
      <4> HIDE DEF built, filled, counted, Counted, Marked
      <4> QED
        BY <2>1, <4>1
    <3> QED
      BY <3>1, <3>2
  <2>3. earned = Chart(hist, earnings, spChart.cross)
    <3>1. CASE spEarned' = spEarned
      <4>1. earned = filled
        BY <1>2, <3>1 DEF EarningsEffect, Rebuilt
      <4> QED
        BY <2>0, <2>2, <3>1, <4>1
    <3>2. CASE spEarned' # spEarned
      <4>1. earned = IF ~filled.on THEN filled ELSE [filled EXCEPT !.earnings = earnings]
        BY <3>2 DEF EarningsEffect, spDays
      <4> HIDE DEF filled, hist, earnings, earned, Marked
      <4> QED
        BY <2>2, <4>1
    <3> QED
      BY <3>1, <3>2
  <2>4. \E c : spChart' = Chart(hist, earnings, c)
    <3>1. spChart' = HoverEffect(earned, StanceEffect(built).lookup)
      BY DEF Effects
    <3> HIDE DEF earned, hist, earnings, built
    <3> QED
      BY <2>3, <3>1 DEF HoverEffect
  <2> HIDE DEF hist, earnings
  <2>5. spChart' = Chart(hist, earnings, spChart'.cross)
    BY <2>4
  <2> QED
    BY <2>5 DEF hist, earnings
<1> QED
  BY <1>1, <1>2

LEMMA EffectsKeep ==
  ASSUME SpInv, Effects, spRange' \in SpRanges, spRows' \in 0..Len(SpStances), CandlesKnown'
  PROVE  SpInv'
<1>1. spLookup' = LookupOf(spFiltered', spDays')
  BY LookupIsRefilled DEF Effects
<1>2. IF BarsIn(spRange', spCandles') = {} THEN spChart' = NoPriceChart ELSE spChart' = PriceChartNow'
  <2>1. CASE BarsIn(spRange', spCandles') = {}
    BY <2>1, NoCandlesNoChart
  <2>2. CASE BarsIn(spRange', spCandles') # {}
    BY <2>2, ChartIsRefilled DEF PriceChartNow
  <2> QED
    BY <2>1, <2>2
<1> QED
  BY <1>1, <1>2 DEF SpInv

LEMMA SpStep ==
  ASSUME SpInv, [SpNext]_spVars
  PROVE  SpInv'
<1>0. UNCHANGED spCandles => CandlesKnown'
  BY DEF SpInv, CandlesKnown
<1>1. CASE EarningsFetched \/ FilterStance \/ FilterChannel \/ HoverRow
  BY <1>0, <1>1, EffectsKeep
     DEF SpInv, EarningsFetched, FilterStance, FilterChannel, HoverRow, spState, spFetched
<1>2. CASE SelectRange
  BY <1>0, <1>2, EffectsKeep DEF SpInv, SelectRange, spFetched
<1>3. CASE StancesFetched
  <2>1. spRows' \in 0..Len(SpStances)
    BY <1>3 DEF SpInv, StancesFetched
  <2> QED
    BY <1>0, <1>3, <2>1, EffectsKeep DEF SpInv, StancesFetched, spState
<1>5. ASSUME NEW range \in SpRanges, CandlesFetched(range)
      PROVE  SpInv'
  <2>1. PICK answer \in spCandles[range]..Len(SpBars[range]) \ {0} :
          spCandles' = [spCandles EXCEPT ![range] = answer]
    BY <1>5 DEF CandlesFetched
  <2>2. CandlesKnown'
    BY <2>1, StockAssumption DEF SpInv, CandlesKnown
  <2> QED
    BY <1>5, <2>2, EffectsKeep DEF SpInv, CandlesFetched, spState
<1>4. CASE MentionsFetched \/ ClickBar \/ UNCHANGED spVars
  <2>1. UNCHANGED <<spRange, spStance, spChannel, spCandles, spRows, spEarned, spChart, spLookup>>
    BY <1>4 DEF MentionsFetched, ClickBar, spVars, spState, spFetched
  <2>2. spFiltered' = spFiltered /\ spDays' = spDays /\ spPane' = spPane
    BY <2>1 DEF spFiltered, spDays, spPane
  <2>3. PriceChartNow' = PriceChartNow
    BY <2>1, <2>2 DEF PriceChartNow
  <2> QED
    BY <1>0, <2>1, <2>2, <2>3 DEF SpInv
<1> QED
  BY <1>1, <1>2, <1>3, <1>4, <1>5 DEF SpNext

\* What the effects made of it agrees with what it is to show.
LEMMA ChartShowsNow ==
  ASSUME SpInv
  PROVE  StockChartAgrees
<1> SUFFICES ASSUME spChart.on
             PROVE  StockChartAgrees
  BY DEF StockChartAgrees
<1> DEFINE rows == spFiltered
           days == spDays
<1>1. spChart = PriceChartNow
  BY DEF SpInv, NoPriceChart
<1>2. RowsOfAnswer(spRows) \in Seq(SpRow) /\ rows \in Seq(SpRow)
  BY AnswerOfRows, FilteredRows DEF SpInv, spFiltered
<1>3. days \in SUBSET (Nat \ {NoDate}) /\ IsFiniteSet(days)
  BY BarsAreDays, FS_EmptySet DEF SpInv, spDays, TradingDays
<1>4. spChart.histogram = BuildStanceHistogram(rows, days)
  <2>1. CASE spPane
    BY <1>1, <2>1 DEF PriceChartNow
  <2>2. CASE ~spPane
    <3>1. rows = <<>> \/ days = {}
      BY <1>2, <2>2, FilteredRows DEF spPane, HasAnyStances, spFiltered, spDays, TradingDays
    <3> QED
      BY <1>1, <1>2, <2>2, <3>1, NothingToCount DEF PriceChartNow
  <2> QED
    BY <2>1, <2>2
<1>5. spChart.earnings = IF spEarned THEN BuildEarningsMarkerTimes(SpEarnings, days) ELSE {}
  BY <1>1 DEF PriceChartNow
<1> HIDE DEF rows, days
<1>6. /\ spLookup.byTime = BuildVideoDays(rows, days)
      /\ spLookup.histogram = BuildStanceHistogram(rows, days)
  BY DEF SpInv, LookupOf, rows, days
<1> DEFINE snapped == [i \in DOMAIN rows |-> SnapToTradingDay(rows[i].day, days)]
           on(day) == {i \in DOMAIN rows : SnapToTradingDay(rows[i].day, days) = day}
<1>7. ASSUME NEW day \in days, NEW s \in {"buy", "neutral", "sell"}
      PROVE  Tooltip(day)[s] = Cardinality({i \in on(day) : rows[i].stance = s})
  <2>1. BuildStanceHistogram(rows, days) =
          [d \in {snapped[i] : i \in DOMAIN rows} \ {NoDate} |->
             [t \in {"buy", "neutral", "sell"} |->
                Cardinality({i \in DOMAIN rows : snapped[i] = d /\ rows[i].stance = t})]]
    BY Zenon DEF BuildStanceHistogram
  <2>2. {i \in DOMAIN rows : snapped[i] = day /\ rows[i].stance = s} = {i \in on(day) : rows[i].stance = s}
    OBVIOUS
  <2>3. CASE day \in {snapped[i] : i \in DOMAIN rows}
    <3> HIDE DEF snapped, on
    <3>1. day \in {snapped[i] : i \in DOMAIN rows} \ {NoDate}
      BY <1>3, <2>3
    <3>2. Tooltip(day) = [t \in {"buy", "neutral", "sell"} |->
                            Cardinality({i \in DOMAIN rows : snapped[i] = day /\ rows[i].stance = t})]
      <4> DEFINE counts(d) == [t \in {"buy", "neutral", "sell"} |->
                                 Cardinality({i \in DOMAIN rows : snapped[i] = d /\ rows[i].stance = t})]
                 shown == {snapped[i] : i \in DOMAIN rows} \ {NoDate}
      <4>1. spLookup.histogram = [d \in shown |-> counts(d)] /\ day \in shown
        BY <1>6, <2>1, <3>1
      <4> HIDE DEF counts, shown
      <4>2. Tooltip(day) = counts(day)
        BY <4>1 DEF Tooltip
      <4> QED
        BY <4>2 DEF counts
    <3>3. Tooltip(day)[s] = Cardinality({i \in DOMAIN rows : snapped[i] = day /\ rows[i].stance = s})
      BY <3>2
    <3> QED
      BY <2>2, <3>3
  <2>4. CASE day \notin {snapped[i] : i \in DOMAIN rows}
    <3>1. {i \in on(day) : rows[i].stance = s} = {}
      BY <2>4
    <3>2. Tooltip(day) = NoCounts
      <4> HIDE DEF snapped
      <4> QED
        BY <1>6, <2>1, <2>4 DEF Tooltip
    <3> QED
      BY <3>1, <3>2, FS_EmptySet DEF NoCounts
  <2> QED
    BY <2>3, <2>4
<1>8. ASSUME NEW day \in DOMAIN spLookup.byTime
      PROVE  /\ day \in days
             /\ \E i \in DOMAIN rows :
                  /\ rows[i].video = Hit(day)
                  /\ rows[i].day <= day \/ day = DayMax(days)
                  /\ ~\E d \in days : rows[i].day <= d /\ d < day
  <2>1. BuildVideoDays(rows, days) =
          [d \in {SnapToTradingDay(rows[i].day, days) : i \in DOMAIN rows} \ {NoDate} |->
             Kept(rows, on(d))]
    BY Zenon DEF BuildVideoDays
  <2>2. PICK k \in DOMAIN rows : SnapToTradingDay(rows[k].day, days) = day /\ day # NoDate
    BY <1>6, <2>1
  <2>3. spLookup.byTime[day] = Kept(rows, on(day))
    BY <1>6, <2>1, <2>2
  <2> DEFINE here == on(day)
             kept == Kept(rows, here)
  <2>4. \E i \in here \cap DOMAIN rows : kept[1] = rows[i]
    <3>1. k \in here \cap DOMAIN rows
      BY <2>2
    <3> HIDE DEF here
    <3>2. /\ kept \in Seq(SpRow)
          /\ \A j \in 1..Len(kept) : \E i \in here \cap DOMAIN rows : kept[j] = rows[i]
          /\ \A i \in here \cap DOMAIN rows : \E j \in 1..Len(kept) : kept[j] = rows[i]
      <4>1. rows \in Seq(SpRow)
        BY <1>2
      <4>2. Kept(rows, here) \in Seq(SpRow)
        BY <4>1, KeptIsThose
      <4>3. \A j \in 1..Len(Kept(rows, here)) : \E i \in here \cap DOMAIN rows : Kept(rows, here)[j] = rows[i]
        BY <4>1, KeptIsThose
      <4>4. \A i \in here \cap DOMAIN rows : \E j \in 1..Len(Kept(rows, here)) : Kept(rows, here)[j] = rows[i]
        BY <4>1, KeptIsThose
      <4> QED
        BY <4>2, <4>3, <4>4
    <3> HIDE DEF kept
    <3>3. 1 \in 1..Len(kept)
      BY <3>1, <3>2
    <3> QED
      BY <3>2, <3>3
  <2>5. PICK i \in DOMAIN rows : SnapToTradingDay(rows[i].day, days) = day /\ kept[1] = rows[i]
    BY <2>4
  <2>6. rows[i].video = Hit(day)
    BY <2>3, <2>5 DEF Hit
  <2>7. rows[i].day \in Nat
    <3>1. rows[i] \in SpRow
      BY <1>2, <2>5
    <3> QED
      BY <3>1 DEF SpRow
  <2>8. /\ day \in days
        /\ rows[i].day <= day \/ day = DayMax(days)
        /\ ~\E d \in days : rows[i].day <= d /\ d < day
    BY <1>3, <2>2, <2>5, <2>7, SnappedDay
  <2> QED
    BY <2>6, <2>8
<1> HIDE DEF snapped, on
<1> QED
  BY <1>4, <1>5, <1>7, <1>8, Zenon DEF StockChartAgrees, rows, days, spFiltered, spDays, on

\* Whatever order answers, ranges and filters come in, for any bars, stances and earnings.
THEOREM PriceChartAgrees == SpSpec => []StockChartAgrees
  BY SpInitially, SpStep, ChartShowsNow, PTL DEF SpSpec
=============================================================================
