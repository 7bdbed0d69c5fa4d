---------------------------- MODULE TrackRecord ----------------------------
(***************************************************************************)
(* What the channel's track-record chart draws for one stock: the api cuts *)
(* the window into runs at the calls that turn the stance, the frontend    *)
(* cuts the stock's bars along the runs, bridges neighbouring lines, moves *)
(* every call onto a bar and measures a position against the benchmark.    *)
(* Days are numbers, NoDay is null. A price series is a function from the  *)
(* days that have a bar to the close; lists that are ordered by day and    *)
(* hold at most one entry a day are sets or functions here. A percentage   *)
(* is kept as the numerator of its fraction over positive prices.          *)
(***************************************************************************)
EXTENDS Integers, FiniteSets

CONSTANTS
  TrDays,    \* days, of bars and of calls
  TrInputs   \* the stocks a behaviour may look at: calls, closes, benchmark, start

NoDay == 0

\* A stock as the api gives it: its calls, its closes and the benchmark's by day, and
\* the window's first day. Closes are positive (track-record.ts:34).
IsStock(item) ==
  /\ DOMAIN item.calls \cup DOMAIN item.closes \cup DOMAIN item.bench \subseteq TrDays
  /\ \A d \in DOMAIN item.calls : item.calls[d] \in {"buy", "sell"}
  /\ \A d \in DOMAIN item.closes : item.closes[d] \in Nat \ {0}
  /\ \A d \in DOMAIN item.bench : item.bench[d] \in Nat \ {0}
  /\ item.start \in TrDays

ASSUME TrackRecordAssumption ==
  /\ TrDays \subseteq Nat \ {NoDay}
  /\ IsFiniteSet(TrDays)
  /\ TrInputs # {}
  /\ \A item \in TrInputs : IsStock(item)

VARIABLE trInput  \* the stock that is drawn

FirstDay(days) == CHOOSE d \in days : \A e \in days : d <= e
LastDay(days) == CHOOSE d \in days : \A e \in days : e <= d
-----------------------------------------------------------------------------
(* The api: build_runs *)

\* A call turns the stance if it says something else than the one before.
Transitions(calls) ==
  {d \in DOMAIN calls :
     LET before == {e \in DOMAIN calls : e < d} IN
     before # {} => calls[LastDay(before)] # calls[d]}

\* The first run starts with the window and carries what was called before, or is
\* idle; every later turn closes a run and opens one on the same day.
BuildRuns(calls, start) ==
  LET turns == Transitions(calls)
      before == {d \in turns : d <= start}
      within == turns \ before
      End(from) == LET later == {d \in within : d > from} IN
                   IF later = {} THEN NoDay ELSE FirstDay(later) IN
  {[state |-> IF before = {} THEN "idle" ELSE calls[LastDay(before)],
    from |-> start, to |-> End(start),
    opened_at |-> IF before = {} THEN NoDay ELSE LastDay(before)]}
  \cup {[state |-> calls[d], from |-> d, to |-> End(d), opened_at |-> d] : d \in within}

\* Every call inside the window, the ones that repeat the stance too.
Markers(calls, start) == {d \in DOMAIN calls : d > start}
-----------------------------------------------------------------------------
(* lib/track-record.ts *)

ClipToWindow(closes, start) == [d \in {e \in DOMAIN closes : e >= start} |-> closes[d]]

\* The first close in the window; no series without a positive one.
BaselineOf(closes) ==
  IF DOMAIN closes = {} THEN 0
  ELSE IF closes[FirstDay(DOMAIN closes)] <= 0 THEN 0 ELSE closes[FirstDay(DOMAIN closes)]

\* The days the indexed series has a point on.
ToIndexedSeries(closes) == IF BaselineOf(closes) = 0 THEN {} ELSE DOMAIN closes

\* Mutant: the day of a turn belongs to both runs.
WithinBoth(run, d) == d >= run.from /\ (run.to # NoDay => d <= run.to)

\* [from, to)
Within(run, d) == d >= run.from /\ (run.to # NoDay => d < run.to)

OwnPoints(points, run) == {d \in points : Within(run, d)}

\* The last bar of the nearest earlier run that has one.
Carried(points, runs, run) ==
  UNION {OwnPoints(points, r) : r \in {q \in runs : q.from < run.from}}

\* One line per run: its own bars, led by the last bar before them. A line needs two.
SplitRuns(points, runs) ==
  LET Segment(run) ==
        LET own == OwnPoints(points, run)
            earlier == Carried(points, runs, run)
            bridge == IF earlier = {} THEN {} ELSE {LastDay(earlier)} IN
        [run |-> run, own |-> own, points |-> bridge \cup own] IN
  {s \in {Segment(run) : run \in runs} : Cardinality(s.points) >= 2}

\* Mutant: the borrowed bar counts as one of the segment's own.
SnapOntoBridge(segment, markers) ==
  {[marker |-> m, time |-> FirstDay({d \in segment.points : d >= m})] :
     m \in {n \in markers : /\ Within(segment.run, n)
                            /\ \E d \in segment.points : d >= n}}

\* A call inside the run goes to the first bar of the run on or after its day.
SnapMarkers(segment, markers) ==
  {[marker |-> m, time |-> FirstDay({d \in segment.own : d >= m})] :
     m \in {n \in markers : /\ Within(segment.run, n)
                            /\ \E d \in segment.own : d >= n}}

\* The days and signed excess of one position over the benchmark, from its own entry,
\* which may lie before the window and is not clipped to it. A day without a session
\* of the benchmark has no point.
ToExcessSeries(closes, bench, run) ==
  LET after(series) == {d \in DOMAIN series : d >= run.opened_at}
      entry == closes[FirstDay(after(closes))]
      benchEntry == bench[FirstDay(after(bench))]
      direction == IF run.state = "sell" THEN -1 ELSE 1
      days == {d \in DOMAIN closes \cap DOMAIN bench : Within(run, d) /\ bench[d] > 0} IN
  IF run.state = "idle" \/ run.opened_at = NoDay \/ after(closes) = {} \/ after(bench) = {}
  THEN {}
  ELSE IF entry <= 0 \/ benchEntry <= 0 THEN {}
  ELSE {[time |-> d, value |-> direction * (closes[d] * benchEntry - bench[d] * entry)] : d \in days}
-----------------------------------------------------------------------------
(* What is drawn *)

RunsOf(item) == BuildRuns(item.calls, item.start)
MarkersOf(item) == Markers(item.calls, item.start)

\* The price view's lines: the window's bars, cut along the runs.
PriceSegments(item) ==
  SplitRuns(ToIndexedSeries(ClipToWindow(item.closes, item.start)), RunsOf(item))

\* The performance view's: one per position that has two points.
PositionSegments(item) ==
  LET Days(run) == {p.time : p \in ToExcessSeries(item.closes, item.bench, run)} IN
  {[run |-> run, own |-> Days(run), points |-> Days(run)] :
     run \in {r \in RunsOf(item) : Cardinality(Days(r)) >= 2}}

Segments(view, item) == IF view = "price" THEN PriceSegments(item) ELSE PositionSegments(item)

DrawableIn(view, item) ==
  IF view = "price" THEN Cardinality(DOMAIN ClipToWindow(item.closes, item.start)) >= 2
  ELSE Cardinality(DOMAIN item.closes) >= 2 /\ PositionSegments(item) # {}

Placed(view, item) == UNION {SnapMarkers(s, MarkersOf(item)) : s \in Segments(view, item)}

\* Mutant: the videos' titles are kept under the days of their calls.
TitledByCallDay(view, item, day) == {p.marker : p \in {q \in Placed(view, item) : q.marker = day}}

\* The calls whose videos' titles are kept under a bar, in the order of their days.
TitledOn(view, item, day) == {p.marker : p \in {q \in Placed(view, item) : q.time = day}}

\* The stock's row in the tooltip of a bar: there if a line of it has a point there. Of
\* several titles the last one is left.
TooltipRow(view, item, day) ==
  LET titled == TitledOn(view, item, day) IN
  [shown |-> \E s \in Segments(view, item) : day \in s.points,
   title |-> IF titled = {} THEN NoDay ELSE LastDay(titled)]

Views == {"price", "performance"}

TrackRecordTypeOK == IsStock(trInput)

TrackRecordInit == trInput \in TrInputs
-----------------------------------------------------------------------------
\* The price view's line is whole: its segments take up every bar of the window
\* once there are two, the bars a segment owns are its alone, and it starts with the
\* last bar of the line so far, whether or not a turn of the stance falls on a
\* trading day or a run has a bar at all.
LineIsWhole ==
  LET window == DOMAIN ClipToWindow(trInput.closes, trInput.start)
      segments == PriceSegments(trInput) IN
  /\ Cardinality(window) >= 2 => UNION {s.points : s \in segments} = window
  /\ \A s, t \in segments : s # t =>
       /\ s.own \cap t.own = {}
       /\ s.run.from < t.run.from => s.points \cap t.points \subseteq {LastDay(s.points)}
       /\ (s.run.from < t.run.from /\ ~\E u \in segments : s.run.from < u.run.from /\ u.run.from < t.run.from)
            => FirstDay(t.points) = LastDay(s.points)

\* In both views every call that is drawn is drawn once, on a bar not before its
\* day, and hovering over that bar shows the stock with the title of that call's video,
\* unless a later call overwrote it: one that says the same, with no bar of a line
\* between the two. A call of the price view is only left out if its run has no bar on or
\* after it, or no bar but the window's first, on which no line can end.
ArrowsFindTheirCall ==
  \A view \in Views :
    /\ \A p \in Placed(view, trInput) :
         LET row == TooltipRow(view, trInput, p.time) IN
         /\ p.time >= p.marker
         /\ row.shown
         /\ row.title \in p.marker .. p.time
         /\ row.title \in DOMAIN trInput.calls
         /\ trInput.calls[row.title] = trInput.calls[p.marker]
         /\ ~\E s \in Segments(view, trInput) : \E d \in s.own : p.marker <= d /\ d < row.title
         /\ \A q \in Placed(view, trInput) : q.marker = p.marker => q = p
    /\ view = "price" =>
         \A m \in MarkersOf(trInput) \ {p.marker : p \in Placed(view, trInput)} :
           \E run \in RunsOf(trInput) :
             LET window == DOMAIN ClipToWindow(trInput.closes, trInput.start)
                 own == OwnPoints(window, run) IN
             /\ Within(run, m)
             /\ (\A d \in own : d < m) \/ own = {FirstDay(window)}
=============================================================================
