-------------------------- MODULE TrackRecordChart --------------------------
(***************************************************************************)
(* The track-record chart of a channel as a component: the selection kept  *)
(* in colour slots, the request keyed by it, the answer that stays on      *)
(* screen while the next is fetched, the effects that rebuild the chart or *)
(* set its scale, and the table below that opens when nothing can be       *)
(* drawn. An event handler, the render it causes and the effects that      *)
(* follow are one step; answers come at any time.                          *)
(***************************************************************************)
EXTENDS TrackRecord, Rows

CONSTANTS
  TcWorlds,    \* what the api may know: ranked tickers, each one's calls and closes
  TcSlotCount, \* SLOT_COUNT, and TRACK_RECORD_MAX_SELECTED
  TcDefaultN,  \* TRACK_RECORD_DEFAULT_N
  TcYear,      \* first day of the window of one year
  NoTicker,    \* an empty slot
  TcMaxMoves   \* bound: changes behind the api

\* A ticker as an answer gives it: what the api knows of it, from the window's start.
ItemOf(world, ticker, start) ==
  [calls |-> world.item[ticker].calls, closes |-> world.item[ticker].closes,
   bench |-> world.bench, start |-> start]

\* There is a fixed number of colours, and every ticker that is ranked is a stock.
ASSUME ChartAssumption ==
  /\ TcSlotCount \in Nat /\ TcDefaultN \in 0..TcSlotCount
  /\ TcMaxMoves \in Nat
  /\ TcYear \in TrDays
  /\ 1 \in DOMAIN TcWorlds
  /\ \A n \in DOMAIN TcWorlds :
       LET world == TcWorlds[n] IN
       /\ world.rank \in Seq(DOMAIN world.item)
       /\ \A ticker \in DOMAIN world.item, start \in TrDays : IsStock(ItemOf(world, ticker, start))

VARIABLES
  tcWorld,     \* index of what the api knows now
  tcMoves,
  tcTab,       \* the tab with the chart is the one shown: the chart is mounted
  tcShowTable, \* the parent's showTable
  tcRange, tcSlots, tcView, tcLog, tcDark,  \* state of the component; theme
  tcData,      \* SWR's data, kept from the previous key until the next answer
  tcFlight,    \* a fetch of the current key is under way
  tcReported,  \* lastReportedEmptyRef
  tcChart      \* the chart instance and what was drawn into it

tcVars == <<tcWorld, tcMoves, tcTab, tcShowTable, tcRange, tcSlots, tcView, tcLog, tcDark,
            tcData, tcFlight, tcReported, tcChart>>
tcState == <<tcRange, tcSlots, tcView, tcLog>>
-----------------------------------------------------------------------------
Ranges == {"1y", "all"}
Tickers == UNION {{w.rank[i] : i \in DOMAIN w.rank} : w \in {TcWorlds[n] : n \in DOMAIN TcWorlds}}

\* null until the selection was touched, then one entry per slot.
Untouched == [touched |-> FALSE, at |-> <<>>]
NoSlots == [i \in 1..TcSlotCount |-> NoTicker]
NoData == [loaded |-> FALSE, range |-> "1y", world |-> 1, tickers |-> <<>>]
NoChart == [built |-> FALSE, dark |-> FALSE, log |-> FALSE, lines |-> {}]

TcTypeOK ==
  /\ tcWorld \in DOMAIN TcWorlds /\ tcMoves \in 0..TcMaxMoves
  /\ tcTab \in BOOLEAN /\ tcShowTable \in BOOLEAN
  /\ tcRange \in Ranges /\ tcView \in Views /\ tcLog \in BOOLEAN /\ tcDark \in BOOLEAN
  /\ \/ tcSlots = Untouched
     \/ tcSlots.touched /\ tcSlots.at \in [1..TcSlotCount -> Tickers \cup {NoTicker}]
  /\ tcData.loaded \in BOOLEAN /\ tcData.range \in Ranges /\ tcData.world \in DOMAIN TcWorlds
  /\ Len(tcData.tickers) <= TcSlotCount
  /\ tcFlight \in BOOLEAN
  /\ tcReported \in {"none", "empty", "drawn"}
  /\ \A line \in tcChart.lines : line.ticker \in Tickers /\ line.slot \in 1..TcSlotCount
-----------------------------------------------------------------------------
(* The api: resolve_selection and the window *)

\* The requested tickers the channel has, in its own order and up to the cap; the
\* default when nothing is left of the request.
ResolveSelection(world, requested) ==
  LET ranked == TcWorlds[world].rank
      wanted == Kept(ranked, {i \in DOMAIN ranked : ranked[i] \in requested})
      FirstOf(s, n) == SubSeq(s, 1, IF Len(s) < n THEN Len(s) ELSE n) IN
  IF wanted # <<>> THEN FirstOf(wanted, TcSlotCount) ELSE FirstOf(ranked, TcDefaultN)

Answer(world, range, requested) ==
  [loaded |-> TRUE, range |-> range, world |-> world,
   tickers |-> ResolveSelection(world, requested)]

\* "all" starts with the first call of any ticker in the answer.
WindowStart(data) ==
  LET called == UNION {DOMAIN TcWorlds[data.world].item[data.tickers[i]].calls :
                         i \in DOMAIN data.tickers} IN
  IF data.range = "all" /\ called # {} THEN FirstDay(called) ELSE TcYear

\* What a view makes of every ticker, from each start; a render works it out anew with
\* the same result.
InEveryPicture(Of(_, _)) ==
  [view \in Views |-> [n \in DOMAIN TcWorlds |-> [t \in Tickers |-> [start \in TrDays |->
     Of(view, ItemOf(TcWorlds[n], t, start))]]]]
SegmentsIn == InEveryPicture(Segments)
CanBeDrawn == InEveryPicture(DrawableIn)

Has(data, ticker) == \E i \in DOMAIN data.tickers : data.tickers[i] = ticker
Drawable(view, data, ticker) ==
  Has(data, ticker) /\ CanBeDrawn[view][data.world][ticker][WindowStart(data)]
-----------------------------------------------------------------------------
(* Selection *)

\* Before it is touched the server's default fills the slots in its order.
EffectiveSlots(slots, data) ==
  IF slots.touched THEN slots.at
  ELSE [i \in 1..TcSlotCount |-> IF i <= Len(data.tickers) THEN data.tickers[i] ELSE NoTicker]

SlotOf(at, ticker) == {i \in 1..TcSlotCount : at[i] = ticker}
SelectedIn(at) == {at[i] : i \in 1..TcSlotCount} \ {NoTicker}

effectiveSlots == EffectiveSlots(tcSlots, tcData)
selected == SelectedIn(effectiveSlots)

\* The key's tickers: none while untouched, so that the default applies.
Requested(slots) == IF slots.touched THEN SelectedIn(slots.at) ELSE {}

\* Nothing of the answer can be drawn in this view; true of a channel without calls.
Empty(view, data) == ~\E ticker \in Tickers : Drawable(view, data, ticker)
-----------------------------------------------------------------------------
(* Effects *)

\* Every drawable ticker of the answer that still has a slot, one line per segment.
Lines(view, data, at) ==
  UNION {{[ticker |-> t, slot |-> CHOOSE i \in SlotOf(at, t) : TRUE, view |-> view,
           from |-> s.run.from, state |-> s.run.state] :
            s \in SegmentsIn[view][data.world][t][WindowStart(data)]} :
         t \in {u \in SelectedIn(at) : Drawable(view, data, u)}}

\* Mutant: a new chart starts with a linear scale.
BuildLinear(data, at, view, dark, log) ==
  IF ~data.loaded \/ data.tickers = <<>> THEN NoChart
  ELSE [built |-> TRUE, dark |-> dark, log |-> FALSE, lines |-> Lines(view, data, at)]

\* The chart-creation effect. The scale is seeded from the latest logScale; the
\* performance view crosses zero and is never logarithmic.
Build(data, at, view, dark, log) ==
  IF ~data.loaded \/ data.tickers = <<>> THEN NoChart
  ELSE [built |-> TRUE, dark |-> dark, log |-> view = "price" /\ log,
        lines |-> Lines(view, data, at)]

\* Mutant: the effect reports after every answer.
NotifyAlways(data, view) ==
  IF ~data.loaded THEN UNCHANGED <<tcReported, tcShowTable>>
  ELSE /\ tcReported' = IF Empty(view, data) THEN "empty" ELSE "drawn"
       /\ tcShowTable' = (tcShowTable \/ Empty(view, data))

\* Only a change of "empty" is reported, the first answer included; the parent opens
\* its table when nothing can be drawn and never closes it.
Notify(data, view) ==
  LET now == IF Empty(view, data) THEN "empty" ELSE "drawn" IN
  IF ~data.loaded \/ tcReported = now THEN UNCHANGED <<tcReported, tcShowTable>>
  ELSE /\ tcReported' = now
       /\ tcShowTable' = (tcShowTable \/ Empty(view, data))

\* The effects after a render, in their order: report, rebuild if data, slots, view or
\* theme changed, else set the scale if logScale did. Both values of each input are
\* those before and after the step.
Flush ==
  LET at == EffectiveSlots(tcSlots', tcData')
      rebuild == \/ tcData' # tcData \/ tcDark' # tcDark \/ tcView' # tcView
                 \/ at # effectiveSlots IN
  /\ Notify(tcData', tcView')
  /\ tcChart' = IF rebuild THEN Build(tcData', at, tcView', tcDark', tcLog')
                ELSE IF tcLog' # tcLog /\ tcChart.built THEN [tcChart EXCEPT !.log = tcLog']
                ELSE tcChart
-----------------------------------------------------------------------------
TcInit ==
  /\ tcWorld = 1 /\ tcMoves = TcMaxMoves
  /\ tcTab = TRUE /\ tcShowTable = FALSE
  /\ tcRange = "1y" /\ tcSlots = Untouched /\ tcView = "performance" /\ tcLog = FALSE
  /\ tcDark = FALSE
  /\ tcData = NoData /\ tcFlight = TRUE
  /\ tcReported = "none" /\ tcChart = NoChart

\* SWR: the current key's answer replaces the data. A failed fetch leaves it, and the
\* chart; its message stands above the chart.
TrackRecordFetched ==
  /\ tcTab /\ tcFlight /\ tcFlight' = FALSE
  /\ tcData' = Answer(tcWorld, tcRange, Requested(tcSlots))
  /\ UNCHANGED <<tcWorld, tcMoves, tcTab, tcState, tcDark>>
  /\ Flush

TrackRecordFails ==
  /\ tcTab /\ tcFlight /\ tcFlight' = FALSE
  /\ UNCHANGED <<tcWorld, tcMoves, tcTab, tcShowTable, tcState, tcDark, tcData, tcReported, tcChart>>

TrackRecordRevalidates ==
  /\ tcTab /\ ~tcFlight /\ tcFlight' = TRUE
  /\ UNCHANGED <<tcWorld, tcMoves, tcTab, tcShowTable, tcState, tcDark, tcData,
                 tcReported, tcChart>>

\* The lanes analyze another video of the channel, a price arrives.
WorldChanges ==
  /\ tcMoves > 0 /\ tcMoves' = tcMoves - 1
  /\ tcWorld' \in DOMAIN TcWorlds \ {tcWorld}
  /\ UNCHANGED <<tcTab, tcShowTable, tcState, tcDark, tcData, tcFlight, tcReported, tcChart>>

\* Another key: an answer that an earlier visit of it left in SWR's cache, of whatever
\* the api knew then, is there at once; else what is shown stays until its answer is in.
ShowKey(range, slots) ==
  \/ tcData' = tcData
  \/ \E n \in DOMAIN TcWorlds : tcData' = Answer(n, range, Requested(slots))

SetRange ==
  /\ tcTab
  /\ tcRange' \in Ranges \ {tcRange}
  /\ ShowKey(tcRange', tcSlots) /\ tcFlight' = TRUE
  /\ UNCHANGED <<tcWorld, tcMoves, tcTab, tcSlots, tcView, tcLog, tcDark>>
  /\ Flush

SetView ==
  /\ tcTab
  /\ tcView' \in Views \ {tcView}
  /\ UNCHANGED <<tcWorld, tcMoves, tcTab, tcRange, tcSlots, tcLog, tcDark, tcData, tcFlight>>
  /\ Flush

\* The buttons of the scale are there in the price view only.
ScaleShown == tcTab /\ tcView = "price"

SetLogScale ==
  /\ ScaleShown
  /\ tcLog' = ~tcLog
  /\ UNCHANGED <<tcWorld, tcMoves, tcTab, tcRange, tcSlots, tcView, tcDark, tcData, tcFlight>>
  /\ Flush

\* The settings menu changes the theme on any page.
SetTheme ==
  /\ tcTab
  /\ tcMoves > 0 /\ tcMoves' = tcMoves - 1
  /\ tcDark' = ~tcDark
  /\ UNCHANGED <<tcWorld, tcTab, tcState, tcData, tcFlight>>
  /\ Flush

\* Mutant: the slots close up when one is emptied.
RemoveBySplice(at, ticker) ==
  LET rest == SelectSeq(at, LAMBDA t : t # ticker) IN
  [i \in 1..TcSlotCount |-> IF i <= Len(rest) THEN rest[i] ELSE NoTicker]

Remove(at, ticker) == [i \in 1..TcSlotCount |-> IF at[i] = ticker THEN NoTicker ELSE at[i]]

\* toggle: the last selected ticker stays, a new one takes the first free slot.
Toggled(at, ticker) ==
  IF SlotOf(at, ticker) # {}
  THEN IF Cardinality(SelectedIn(at)) = 1 THEN at ELSE Remove(at, ticker)
  ELSE IF SlotOf(at, NoTicker) = {} THEN at
       ELSE [at EXCEPT ![FirstDay(SlotOf(at, NoTicker))] = ticker]

ToggleTicker(ticker) ==
  /\ tcTab /\ tcData.loaded
  /\ Toggled(effectiveSlots, ticker) # effectiveSlots
  /\ tcSlots' = [touched |-> TRUE, at |-> Toggled(effectiveSlots, ticker)]
  /\ ShowKey(tcRange, tcSlots') /\ tcFlight' = TRUE
  /\ UNCHANGED <<tcWorld, tcMoves, tcTab, tcRange, tcView, tcLog, tcDark>>
  /\ Flush

\* The picker lists every ticker the channel called; when all slots are taken it
\* takes no further one.
PickerTickers ==
  {t \in {TcWorlds[tcData.world].rank[i] : i \in DOMAIN TcWorlds[tcData.world].rank} :
     t \in selected \/ Cardinality(selected) < TcSlotCount}

\* A chip is dead while the answer says that its ticker cannot be drawn here; one whose
\* data is still under way is not.
LiveChips == {t \in selected : Has(tcData, t) => Drawable(tcView, tcData, t)}

ClickTicker == \E ticker \in PickerTickers \cup LiveChips : ToggleTicker(ticker)

\* The parent's button, and its tabs: the chart is unmounted with its tab, and starts
\* anew when the tab is shown again.
ClickShowTable ==
  /\ tcTab
  /\ tcShowTable' = ~tcShowTable
  /\ UNCHANGED <<tcWorld, tcMoves, tcTab, tcState, tcDark, tcData, tcFlight, tcReported, tcChart>>

LeaveTab ==
  /\ tcTab /\ tcTab' = FALSE
  /\ tcRange' = "1y" /\ tcSlots' = Untouched /\ tcView' = "performance" /\ tcLog' = FALSE
  /\ tcData' = NoData /\ tcFlight' = FALSE
  /\ tcReported' = "none" /\ tcChart' = NoChart
  /\ UNCHANGED <<tcWorld, tcMoves, tcShowTable, tcDark>>

ShowTab ==
  /\ ~tcTab /\ tcTab' = TRUE
  /\ ShowKey(tcRange, tcSlots) /\ tcFlight' = TRUE
  /\ UNCHANGED <<tcWorld, tcMoves, tcState, tcDark>>
  /\ Flush

TcNext ==
  \/ TrackRecordFetched \/ TrackRecordFails \/ TrackRecordRevalidates \/ WorldChanges
  \/ SetRange \/ SetView \/ SetLogScale \/ SetTheme \/ ClickTicker
  \/ ClickShowTable \/ LeaveTab \/ ShowTab

TcSpec == TcInit /\ [][TcNext]_tcVars
-----------------------------------------------------------------------------
\* Only selected tickers have lines, each in the colour of its slot; lines belong to the
\* chosen view and theme, and the scale is logarithmic exactly when the price view is
\* shown and its button says so.
LinesAreChosen ==
  /\ \A line \in tcChart.lines : /\ effectiveSlots[line.slot] = line.ticker
                                 /\ line.view = tcView
  /\ tcChart.built => tcChart.dark = tcDark /\ tcChart.log = (tcView = "price" /\ tcLog)

\* The picture agrees with the controls, whatever was toggled while an older answer
\* was still on screen: what has a line is chosen, and every selected ticker that the
\* answer can draw has one.
ChartAgrees ==
  tcTab /\ tcData.loaded =>
    /\ LinesAreChosen
    /\ \A ticker \in selected :
         Drawable(tcView, tcData, ticker) => \E line \in tcChart.lines : line.ticker = ticker

\* A ticker that stays selected keeps its colour once the selection has been touched:
\* through removals and additions of others, answers in another order, changes of the
\* range, and the very click that first touches the server's default.
ColoursAreStable ==
  [][tcTab /\ tcTab' /\ tcSlots'.touched =>
       \A ticker \in selected \cap SelectedIn(tcSlots'.at) :
         SlotOf(effectiveSlots, ticker) = SlotOf(tcSlots'.at, ticker)]_tcVars

\* The table opens by itself only when the chart turns out empty and that had not
\* been reported before: a reader who closed it is not overruled by a fetch that
\* finds the chart as empty as it was.
TableStaysClosed ==
  [][~tcShowTable /\ tcShowTable' => ClickShowTable \/ tcReported # "empty"]_tcVars
=============================================================================
