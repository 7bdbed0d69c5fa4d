------------------------------- MODULE MCSite -------------------------------
(***************************************************************************)
(* Site on a small instance of every page.                                 *)
(***************************************************************************)
EXTENDS Site, TLC

CONSTANTS v1, v2,       \* videos: of the channel, the inbox and the failures
          aapl, msft, tsla  \* tickers

\* Two videos of a channel, a page each: both wait for a person, or the older one is
\* still to be found.
MCVideos == {v1, v2}
MCChannelRows == {<<"discovered", "discovered">>, <<"absent", "discovered">>}

\* The inbox: v2 is a short video the next discover finds; both are of one channel.
MCShort == {v2}
MCGroups == {{v1, v2}}
MCInboxRows == {v1 :> "discovered" @@ v2 :> "absent"}

\* The drawer's filters: all, and another channel's.
MCNoFilter == [in |-> {v1}, under |-> {v1}]
MCDrawerFilters == {MCNoFilter, [in |-> {v1}, under |-> {}]}

\* A page and a half; one item more makes two full pages, one less a single one.
MCLists == {<<1, 2, 3>>}

\* Every set of calls on three of five days, against closes and sessions of the
\* benchmark with gaps, and a window from the first or the second day.
MCStocks ==
  [calls : UNION {[S -> {"buy", "sell"}] : S \in SUBSET {1, 3, 4}},
   closes : {[d \in S |-> 3 + ((d * d) % 5)] : S \in SUBSET (1..5)},
   bench : {[d \in S |-> 2 + d] : S \in {1..5, {1, 2, 4}}},
   start : {1, 2}]

\* A channel with three tickers and two slots: one called twice, one whose only call is
\* on its last bar, one without prices; the ranking then changes.
MCCloses(S) == [d \in S |-> 3 + d]
MCWorld ==
  [rank |-> <<aapl, msft, tsla>>, bench |-> MCCloses(1..5),
   item |-> aapl :> [calls |-> 1 :> "buy" @@ 4 :> "sell", closes |-> MCCloses(1..5)] @@
            msft :> [calls |-> 5 :> "sell", closes |-> MCCloses(2..5)] @@
            tsla :> [calls |-> 3 :> "buy", closes |-> MCCloses({})]]
MCWorlds == <<MCWorld, [MCWorld EXCEPT !.rank = <<tsla, aapl, msft>>]>>

\* A stock's candles by range, a bar more on the daily one, and its stances as they grow:
\* two rows share a bar, a third one's day gets its bar late.
MCBars == "3m" :> << {4, 6}, {4, 6, 7} >> @@ "1d" :> << {6} >>
MCRow(video, channel, stance, day) ==
  [video |-> video, channel |-> channel, stance |-> stance, day |-> day]
MCMentions == << <<MCRow("v1", "c1", "buy", 3)>> >>
MCStances ==
  << <<>>, <<MCRow("v1", "c1", "buy", 3), MCRow("v3", "c2", "neutral", 4),
             MCRow("v2", "c2", "sell", 7)>> >>
MCLinks == {[video |-> "v2", channel |-> "all"]}
=============================================================================
