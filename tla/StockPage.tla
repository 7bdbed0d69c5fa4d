------------------------------ MODULE StockPage ------------------------------
(***************************************************************************)
(* The stock page: a price chart with a histogram of stances under it, and *)
(* the table of mentions beside it, which own the filters together. Four   *)
(* fetches answer in any order and are asked again at any time. The chart  *)
(* is rebuilt by one effect and filled by three more, each on its own list *)
(* of what it depends on. A handler or an answer, the render and the       *)
(* effects that follow are one step.                                       *)
(***************************************************************************)
EXTENDS Rows, FiniteSets

CONSTANTS
  SpRanges, SpIntraday,  \* RANGES, and INTRADAY among them
  SpBars,      \* of each range, successive answers: the days that have a candle (times of
               \* day on an intraday one)
  SpStances,   \* successive answers of /stances: rows with video, channel, stance, day
  SpMentions,  \* successive answers of /mentions: likewise
  SpEarnings,  \* the days of past earnings
  SpMaxSnap,   \* MAX_EARNINGS_SNAP_DAYS
  SpLinks      \* ?video= and ?channel= of a link to the page

VARIABLES
  spRange, spStance, spChannel,  \* range, stanceFilter, channelFilter
  spSelected, spHovered,         \* selectedVideoId, hoveredVideoId
  spCandles,   \* SWR: which answer of each range is cached, 0 for none
  spLate,      \* ranges that were left with a fetch still on
  spRows,      \* SWR: which answer of /stances is shown, 0 for none
  spTable,     \* SWR: which answer of /mentions, and whether the last fetch failed
  spEarned,    \* SWR: the earnings are there
  spChart,     \* the chart instance and what was put into it
  spLookup     \* videosByTimeRef, videoDayById, histByTimeRef

spState == <<spRange, spStance, spChannel, spSelected, spHovered>>
spFetched == <<spCandles, spLate, spRows, spTable, spEarned>>
spVars == <<spState, spFetched, spChart, spLookup>>

NoVideo == "none"
NoDate == 0

\* A mention of the stock, or a stance on it.
SpRow == [video : STRING, channel : STRING, stance : {"buy", "neutral", "sell"}, day : Nat]

\* The page opens on one of its ranges; bars have days, and an answer is a list of rows.
ASSUME StockAssumption ==
  /\ "3m" \in SpRanges
  /\ \A range \in SpRanges :
       /\ SpBars[range] \in Seq(SUBSET (Nat \ {NoDate}))
       /\ \A n \in DOMAIN SpBars[range] : IsFiniteSet(SpBars[range][n])
  /\ SpStances \in Seq(Seq(SpRow)) /\ SpMentions \in Seq(Seq(SpRow))
  /\ SpEarnings \subseteq Nat
-----------------------------------------------------------------------------
(* lib/markers.ts *)

DayMin(days) == CHOOSE d \in days : \A e \in days : d <= e
DayMax(days) == CHOOSE d \in days : \A e \in days : e <= d

\* The same day or the next trading day; none before the range, the last bar after it.
SnapToTradingDay(day, days) ==
  LET onOrAfter == {d \in days : d >= day} IN
  IF days = {} THEN NoDate
  ELSE IF day < DayMin(days) THEN NoDate
  ELSE IF onOrAfter # {} THEN DayMin(onOrAfter) ELSE DayMax(days)

FilterStances(rows, stance, channel) ==
  Kept(rows, {i \in DOMAIN rows : /\ stance \in {"all", rows[i].stance}
                                  /\ channel \in {"all", rows[i].channel}})

\* Each trading day's videos, in the order of the rows.
BuildVideoDays(rows, days) ==
  [d \in {SnapToTradingDay(rows[i].day, days) : i \in DOMAIN rows} \ {NoDate} |->
     Kept(rows, {i \in DOMAIN rows : SnapToTradingDay(rows[i].day, days) = d})]

BuildStanceHistogram(rows, days) ==
  LET snapped == [i \in DOMAIN rows |-> SnapToTradingDay(rows[i].day, days)] IN
  [d \in {snapped[i] : i \in DOMAIN rows} \ {NoDate} |->
     [s \in {"buy", "neutral", "sell"} |->
        Cardinality({i \in DOMAIN rows : snapped[i] = d /\ rows[i].stance = s})]]

\* Snapped forwards only, and by so many days at most.
BuildEarningsMarkerTimes(past, days) ==
  LET Snapped(d) == SnapToTradingDay(d, days) IN
  {Snapped(d) : d \in {e \in past : Snapped(e) >= e /\ Snapped(e) # NoDate
                                    /\ Snapped(e) - e <= SpMaxSnap}}
-----------------------------------------------------------------------------
(* What a render sees *)

RowsOfAnswer(n) == IF n = 0 THEN <<>> ELSE SpStances[n]
MentionsOfAnswer(n) == IF n = 0 THEN <<>> ELSE SpMentions[n]
BarsIn(range, cached) == IF cached[range] = 0 THEN {} ELSE SpBars[range][cached[range]]

\* Times of day are no trading days.
TradingDays(range, cached) == IF range \in SpIntraday THEN {} ELSE BarsIn(range, cached)

HasAnyStances(n) == RowsOfAnswer(n) # <<>>

NoCounts == [s \in {"buy", "neutral", "sell"} |-> 0]
NoStances == [d \in {} |-> [s \in {"buy", "neutral", "sell"} |-> 0]]
NoPriceChart == [on |-> FALSE, range |-> "none", pane |-> FALSE, histogram |-> NoStances,
                 earnings |-> {}, cross |-> NoVideo]

\* The lookups of clicks and hovers.
LookupOf(rows, days) ==
  [byTime |-> BuildVideoDays(rows, days), histogram |-> BuildStanceHistogram(rows, days)]

\* The table: rows only when there is an answer and the last fetch did not fail.
TableShown == spTable.answer > 0 /\ ~spTable.error /\ MentionsOfAnswer(spTable.answer) # <<>>
TableRows == FilterStances(MentionsOfAnswer(spTable.answer), spStance, spChannel)
ChannelsOf(rows) == {rows[i].channel : i \in DOMAIN rows}
TableVideos == {TableRows[i].video : i \in DOMAIN TableRows}
TableChannels == ChannelsOf(MentionsOfAnswer(spTable.answer))

SpTypeOK ==
  /\ spRange \in SpRanges
  /\ spStance \in {"all", "buy", "neutral", "sell"}
  /\ spCandles \in [SpRanges -> Nat]
  /\ \A range \in SpRanges : spCandles[range] <= Len(SpBars[range])
  /\ spLate \subseteq SpRanges
  /\ spRows \in 0..Len(SpStances)
  /\ spTable \in [answer : 0..Len(SpMentions), error : BOOLEAN]
  /\ spEarned \in BOOLEAN
  /\ spChart.on => spChart.range = spRange /\ spCandles[spRange] > 0
  /\ DOMAIN spChart.histogram \subseteq BarsIn(spRange, spCandles)
  /\ spChart.earnings \subseteq BarsIn(spRange, spCandles)
-----------------------------------------------------------------------------
(* The effects of PriceChart, in the order they are declared *)

candlesChanged == BarsIn(spRange', spCandles') # BarsIn(spRange, spCandles) \/ spRange' # spRange

\* The stance series exist if this build put them there; their data is set anew when the
\* candles, the rows or a filter changed.
StanceEffect(chart) ==
  LET rows == FilterStances(RowsOfAnswer(spRows'), spStance', spChannel')
      lookup == LookupOf(rows, TradingDays(spRange', spCandles')) IN
  IF ~candlesChanged /\ <<spRows, spStance, spChannel>>' = <<spRows, spStance, spChannel>>
  THEN [chart |-> chart, lookup |-> spLookup]
  ELSE [chart |-> IF chart.pane THEN [chart EXCEPT !.histogram = lookup.histogram] ELSE chart,
        lookup |-> lookup]

\* A chart with candles, empty of stances and earnings.
BuildEffect ==
  IF ~candlesChanged /\ HasAnyStances(spRows') = HasAnyStances(spRows) THEN spChart
  ELSE IF BarsIn(spRange', spCandles') = {} THEN NoPriceChart
  ELSE [NoPriceChart EXCEPT !.on = TRUE, !.range = spRange',
          !.pane = HasAnyStances(spRows') /\ spRange' \notin SpIntraday]

EarningsEffect(chart) ==
  IF \/ ~candlesChanged /\ spEarned' = spEarned /\ HasAnyStances(spRows') = HasAnyStances(spRows)
     \/ ~chart.on
  THEN chart
  ELSE [chart EXCEPT !.earnings =
          IF spEarned' THEN BuildEarningsMarkerTimes(SpEarnings, TradingDays(spRange', spCandles'))
          ELSE {}]

\* Only a change of the hovered row moves the crosshair; it looks up the day as it is now.
HoverEffect(chart, lookup) ==
  LET onBar == \E d \in DOMAIN lookup.byTime :
                 \E i \in DOMAIN lookup.byTime[d] : lookup.byTime[d][i].video = spHovered' IN
  IF spHovered' = spHovered \/ ~chart.on THEN chart
  ELSE [chart EXCEPT !.cross = IF onBar THEN spHovered' ELSE NoVideo]

\* Mutant: the stances are filled in before the chart they belong to is built.
EffectsSwapped ==
  LET filled == StanceEffect(spChart) IN
  /\ spLookup' = filled.lookup
  /\ spChart' = HoverEffect(EarningsEffect(
                  IF BuildEffect = spChart THEN filled.chart ELSE BuildEffect), filled.lookup)

Effects ==
  LET filled == StanceEffect(BuildEffect) IN
  /\ spLookup' = filled.lookup
  /\ spChart' = HoverEffect(EarningsEffect(filled.chart), filled.lookup)
-----------------------------------------------------------------------------
SpInit ==
  /\ spRange = "3m" /\ spStance = "all"
  /\ \E link \in SpLinks : spSelected = link.video /\ spChannel = link.channel
  /\ spHovered = NoVideo
  /\ spCandles = [range \in SpRanges |-> 0] /\ spLate = {} /\ spRows = 0 /\ spEarned = FALSE
  /\ spTable = [answer |-> 0, error |-> FALSE]
  /\ spChart = NoPriceChart
  /\ spLookup = LookupOf(<<>>, {})

\* The first answer, or that of a later revalidation: other bars of the same range. The
\* answer of a range that was left only fills the cache.
CandlesFetched(range) ==
  /\ range = spRange \/ range \in spLate
  /\ \E answer \in spCandles[range]..Len(SpBars[range]) \ {0} :
       spCandles' = [spCandles EXCEPT ![range] = answer]
  /\ spLate' = spLate \ {range}
  /\ UNCHANGED <<spState, spRows, spTable, spEarned>> /\ Effects

\* The first answer, or that of a later revalidation.
StancesFetched ==
  /\ spRows' \in spRows..Len(SpStances) \ {0}
  /\ UNCHANGED <<spState, spCandles, spLate, spTable, spEarned>> /\ Effects

EarningsFetched ==
  /\ spEarned' = TRUE
  /\ UNCHANGED <<spState, spCandles, spLate, spRows, spTable>> /\ Effects

\* A failure replaces the table, and the filters above it, until a fetch succeeds.
MentionsFetched ==
  /\ \/ spTable' \in [answer : spTable.answer..Len(SpMentions) \ {0}, error : {FALSE}]
     \/ spTable' = [spTable EXCEPT !.error = TRUE]
  /\ UNCHANGED <<spState, spCandles, spLate, spRows, spEarned, spChart, spLookup>>

\* Another range is another key: its candles may be cached. A fetch of the one that is
\* left may be on.
SelectRange ==
  /\ spRange' \in SpRanges \ {spRange}
  /\ spLate' \in {spLate \ {spRange'}, (spLate \ {spRange'}) \cup {spRange}}
  /\ UNCHANGED <<spStance, spChannel, spSelected, spHovered, spCandles, spRows, spTable, spEarned>>
  /\ Effects

FilterStance ==
  /\ TableShown
  /\ spStance' \in {"all", "buy", "neutral", "sell"} \ {spStance}
  /\ UNCHANGED <<spRange, spChannel, spSelected, spHovered, spFetched>> /\ Effects

FilterChannel ==
  /\ TableShown
  /\ spChannel' \in ({"all"} \cup TableChannels) \ {spChannel}
  /\ UNCHANGED <<spRange, spStance, spSelected, spHovered, spFetched>> /\ Effects

\* onMouseEnter and onMouseLeave of a row.
HoverRow ==
  /\ TableShown
  /\ spHovered' \in (TableVideos \cup {NoVideo}) \ {spHovered}
  /\ UNCHANGED <<spRange, spStance, spChannel, spSelected, spFetched>> /\ Effects

\* What the crosshair's tooltip says of a day.
Tooltip(day) == IF day \in DOMAIN spLookup.histogram THEN spLookup.histogram[day] ELSE NoCounts

\* A click on a bar of the chart selects the first of the day's videos.
Hit(day) == IF day \in DOMAIN spLookup.byTime THEN spLookup.byTime[day][1].video ELSE spSelected

ClickBar ==
  /\ spChart.on
  /\ \E day \in BarsIn(spRange, spCandles) : spSelected' = Hit(day)
  /\ UNCHANGED <<spRange, spStance, spChannel, spHovered, spFetched, spChart, spLookup>>

SpNext ==
  \/ \E range \in SpRanges : CandlesFetched(range)
  \/ StancesFetched \/ EarningsFetched \/ MentionsFetched
  \/ SelectRange \/ FilterStance \/ FilterChannel \/ HoverRow \/ ClickBar

SpSpec == SpInit /\ [][SpNext]_spVars
-----------------------------------------------------------------------------
\* Whatever order the answers, ranges and filters came in, the chart shows what they
\* say now: a daily range has the stance bars of exactly the filtered rows and its
\* earnings once they are known, an intraday one has neither, and a bar that is
\* clicked selects a video that passes both filters and was published by that day,
\* or on no trading day since, and the tooltip over a day counts those rows.
StockChartAgrees ==
  spChart.on =>
    LET rows == FilterStances(RowsOfAnswer(spRows), spStance, spChannel)
        days == TradingDays(spRange, spCandles) IN
    /\ spChart.histogram = BuildStanceHistogram(rows, days)
    /\ spChart.earnings = IF spEarned THEN BuildEarningsMarkerTimes(SpEarnings, days) ELSE {}
    /\ \A day \in days :
         LET of == {i \in DOMAIN rows : SnapToTradingDay(rows[i].day, days) = day} IN
         \A s \in {"buy", "neutral", "sell"} :
           Tooltip(day)[s] = Cardinality({i \in of : rows[i].stance = s})
    /\ \A day \in DOMAIN spLookup.byTime :
         /\ day \in days
         /\ \E i \in DOMAIN rows :
              /\ rows[i].video = Hit(day)
              /\ rows[i].day <= day \/ day = DayMax(days)
              /\ ~\E d \in days : rows[i].day <= d /\ d < day
=============================================================================
