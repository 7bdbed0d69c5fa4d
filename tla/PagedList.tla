----------------------------- MODULE PagedList -----------------------------
(***************************************************************************)
(* The lists that load page by page while the reader scrolls (useSWR-      *)
(* Infinite with an IntersectionObserver, or a button): the feed, the      *)
(* trending stocks, the overview of channels, a channel's videos, tickers  *)
(* and recent videos, and the failed videos. They differ in how they tell  *)
(* that there is more, in what a growing size reads again, and in what     *)
(* they show on an error. Pages are cut by offset out of a list that       *)
(* changes behind the api, and are read one after the other.               *)
(***************************************************************************)
EXTENDS Rows, FiniteSets

CONSTANTS
  PgPageSize,  \* PAGE_SIZE
  PgItems,     \* what a list may hold, newest last
  PgNarrow,    \* the items a narrower filter leaves
  PgStart,     \* the lists a behaviour may start from
  PgMaxSize,   \* bound: pages asked for
  PgMaxMoves   \* bound: changes behind the api, and of the filter

ASSUME PagedAssumption ==
  /\ PgPageSize \in Nat \ {0}
  /\ IsFiniteSet(PgItems)
  /\ PgStart \subseteq Seq(PgItems) /\ \A list \in PgStart : Once(list)
  /\ PgMaxSize \in Nat \ {0} /\ PgMaxMoves \in Nat

VARIABLES
  pgKind,   \* which list this is
  pgSrv,    \* the api's list
  pgNarrowed, \* a filter is set
  pgOther,  \* SWR's cache of the list without it, or with it
  pgPages,  \* data: the pages shown
  pgSize,   \* size
  pgFlight, \* the fetch under way and the pages it has so far
  pgError,  \* error
  pgArmed,  \* the observer will report the sentinel's being in view
  pgOwn,    \* the page's own change: sent, or done and not yet read again
  pgMoves

pgVars == <<pgKind, pgSrv, pgNarrowed, pgOther, pgPages, pgSize, pgFlight, pgError, pgArmed,
            pgOwn, pgMoves>>
pgQuery == <<pgNarrowed, pgOther>>
-----------------------------------------------------------------------------
SpendPgMove == pgMoves > 0 /\ pgMoves' = pgMoves - 1

\* How each list goes about it. more: it has more while the last page is full, or while
\* fewer items are loaded than page one's total says. first: page one is read again with
\* every fetch. waits: the sentinel's observer asks for nothing while a fetch is under
\* way, and is made anew with every render that changes that; "button": no sentinel.
FeedPages == [more |-> "full", first |-> TRUE, waits |-> "yes"]
TrendingPages == [more |-> "full", first |-> TRUE, waits |-> "no"]
ChannelPages == [more |-> "total", first |-> TRUE, waits |-> "yes"]
VideoPages == [more |-> "total", first |-> TRUE, waits |-> "yes"]
TickerPages == [more |-> "total", first |-> FALSE, waits |-> "yes"]
RecentPages == [more |-> "total", first |-> FALSE, waits |-> "yes"]
FailurePages == [more |-> "total", first |-> FALSE, waits |-> "button"]

PgLists == [feed |-> FeedPages, trending |-> TrendingPages, channels |-> ChannelPages,
            videos |-> VideoPages, tickers |-> TickerPages, recent |-> RecentPages,
            failures |-> FailurePages]
PgKinds == DOMAIN PgLists
thisList == PgLists[pgKind]

\* Lists another component's change is announced to: by a window event or mutate(), or
\* by mounting the list anew.
ChangedHere == {"channels", "trending", "failures"}

\* seen: read since the list last changed. own: since this page's own change.
PgPage == [items : Seq(PgItems), total : Nat, seen : BOOLEAN, own : BOOLEAN]
NoPgFlight == [on |-> FALSE, all |-> FALSE, pages |-> <<>>]

PgTypeOK ==
  /\ pgKind \in PgKinds
  /\ \A i \in DOMAIN pgSrv : pgSrv[i] \in PgItems
  /\ pgNarrowed \in BOOLEAN
  /\ \A i \in DOMAIN pgPages : pgPages[i].total \in 0..Cardinality(PgItems)
  /\ \A i \in DOMAIN pgOther.pages : pgOther.pages[i].total \in 0..Cardinality(PgItems)
  /\ pgSize \in 1..PgMaxSize /\ pgOther.size \in 1..PgMaxSize
  /\ pgFlight.on \in BOOLEAN /\ pgFlight.all \in BOOLEAN
  /\ Len(pgFlight.pages) <= pgSize
  /\ pgError \in BOOLEAN /\ pgOther.error \in BOOLEAN /\ pgArmed \in BOOLEAN
  /\ pgOwn \in {"none", "sent", "done", "failed"}
  /\ pgMoves \in 0..PgMaxMoves

PgInit ==
  /\ pgKind \in PgKinds
  /\ pgSrv \in PgStart
  /\ pgNarrowed = FALSE /\ pgOther = [pages |-> <<>>, size |-> 1, all |-> FALSE, error |-> FALSE]
  /\ pgPages = <<>> /\ pgSize = 1
  /\ pgFlight = [on |-> TRUE, all |-> FALSE, pages |-> <<>>]
  /\ pgError = FALSE /\ pgArmed = TRUE /\ pgOwn = "none"
  /\ pgMoves = PgMaxMoves
-----------------------------------------------------------------------------
(* What the pages hold *)

Under(narrowed) ==
  IF narrowed THEN Kept(pgSrv, {i \in DOMAIN pgSrv : pgSrv[i] \in PgNarrow}) ELSE pgSrv
Listed == Under(pgNarrowed)

PageOf(list, i) ==
  [items |-> SubSeq(list, (i - 1) * PgPageSize + 1,
                    IF i * PgPageSize < Len(list) THEN i * PgPageSize ELSE Len(list)),
   total |-> Len(list), seen |-> TRUE, own |-> TRUE]
ReadPage(i) == PageOf(Listed, i)

ListItems == Lists!FlattenSeq([i \in DOMAIN pgPages |-> pgPages[i].items])

\* getKey: no page follows a short one.
HasKey(pages, i) == i > 1 => Len(pages[i - 1].items) = PgPageSize

LastPageFull == pgPages # <<>> /\ Len(pgPages[Len(pgPages)].items) = PgPageSize

\* Mutant: a page of exactly PAGE_SIZE items counts as the last one.
HasMoreOffByOne ==
  IF thisList.more = "full"
  THEN pgPages # <<>> /\ Len(pgPages[Len(pgPages)].items) > PgPageSize
  ELSE pgPages # <<>> /\ Len(ListItems) < pgPages[1].total

HasMore ==
  IF thisList.more = "full"
  THEN LastPageFull
  ELSE pgPages # <<>> /\ Len(ListItems) < pgPages[1].total

isLoading == pgFlight.on /\ pgPages = <<>>
FilledOrEmpty == IF ListItems = <<>> THEN "empty" ELSE "list"

\* The branch that each list renders; a sentinel or button is part of "list". An error
\* replaces what three of them show. The trending stocks take no notice of it: a list
\* that failed to load is an empty one.
FeedView ==
  IF isLoading /\ ~pgNarrowed THEN "loading"
  ELSE IF pgError THEN "error"
  ELSE IF isLoading THEN "loading" ELSE FilledOrEmpty
TrendingView == IF isLoading THEN "loading" ELSE FilledOrEmpty
ChannelsView == IF pgPages = <<>> THEN "loading" ELSE FilledOrEmpty
VideosView == IF pgPages = <<>> THEN "loading" ELSE FilledOrEmpty
TickersView == IF pgError THEN "error" ELSE IF pgPages = <<>> THEN "loading" ELSE FilledOrEmpty
RecentView == IF pgError THEN "error" ELSE IF pgPages = <<>> THEN "loading" ELSE FilledOrEmpty
FailuresView ==
  IF pgPages = <<>> THEN IF pgError THEN "error" ELSE "loading"
  ELSE IF ListItems = <<>> THEN "empty" ELSE IF pgError THEN "listed" ELSE "list"

PgView ==
  CASE pgKind = "feed" -> FeedView
    [] pgKind = "trending" -> TrendingView
    [] pgKind = "channels" -> ChannelsView
    [] pgKind = "videos" -> VideosView
    [] pgKind = "tickers" -> TickersView
    [] pgKind = "recent" -> RecentView
    [] pgKind = "failures" -> FailuresView

isValidating == pgFlight.on
-----------------------------------------------------------------------------
(* SWR *)

\* A new fetch; the answer of an older one is thrown away. all: every page anew.
StartPages(all) == [on |-> TRUE, all |-> all, pages |-> <<>>]

\* The next page of the fetch: out of the cache, or read from the api now.
NextPage ==
  LET i == Len(pgFlight.pages) + 1
      cached == i <= Len(pgPages) IN
  /\ pgFlight.on /\ i <= pgSize /\ HasKey(pgFlight.pages, i)
  /\ pgFlight' = [pgFlight EXCEPT !.pages = Append(@,
       IF cached /\ ~pgFlight.all /\ ~(i = 1 /\ thisList.first)
       THEN pgPages[i] ELSE ReadPage(i))]
  /\ UNCHANGED <<pgKind, pgSrv, pgQuery, pgPages, pgSize, pgError, pgArmed, pgOwn, pgMoves>>

\* The last page is in: all of them are shown. The observers of a list that looks at
\* isValidating are made anew, and report at once what is in view.
PagesShown ==
  LET i == Len(pgFlight.pages) + 1 IN
  /\ pgFlight.on /\ i > 1 /\ ~(i <= pgSize /\ HasKey(pgFlight.pages, i))
  /\ pgPages' = pgFlight.pages
  /\ pgFlight' = NoPgFlight
  /\ pgError' = FALSE
  /\ pgArmed' = (pgArmed \/ thisList.waits # "no" \/ pgPages = <<>>)
  /\ pgOwn' = IF pgOwn = "done" THEN "none" ELSE pgOwn
  /\ UNCHANGED <<pgKind, pgSrv, pgQuery, pgSize, pgMoves>>

PagesFail ==
  /\ pgFlight.on
  /\ pgFlight' = [NoPgFlight EXCEPT !.all = pgFlight.all]
  /\ pgError' = TRUE
  /\ pgArmed' = (pgArmed \/ thisList.waits # "no")
  /\ pgOwn' = IF pgOwn = "done" THEN "failed" ELSE pgOwn
  /\ UNCHANGED <<pgKind, pgSrv, pgQuery, pgPages, pgSize, pgMoves>>

\* On focus, or again after an error: what a failed fetch still had to read anew is
\* remembered.
PagesRevalidate ==
  /\ ~pgFlight.on
  /\ pgFlight' = StartPages(pgFlight.all)
  /\ UNCHANGED <<pgKind, pgSrv, pgQuery, pgPages, pgSize, pgError, pgArmed, pgOwn, pgMoves>>
-----------------------------------------------------------------------------
(* The reader *)

SetSize ==
  /\ pgSize < PgMaxSize
  /\ pgSize' = pgSize + 1
  /\ pgFlight' = StartPages(FALSE)
  /\ UNCHANGED <<pgKind, pgSrv, pgQuery, pgPages, pgError, pgOwn, pgMoves>>

\* The observer reports the sentinel in view. Trending asks for a page at every such
\* report, also while one is being fetched; its observer stays and reports again
\* only after the sentinel has left the view. The others wait for the fetch.
SentinelSeen ==
  /\ thisList.waits # "button" /\ PgView = "list" /\ HasMore /\ pgArmed
  /\ thisList.waits = "yes" => ~isValidating
  /\ pgArmed' = FALSE
  /\ SetSize

\* The reader scrolls away and back.
ScrollBack ==
  /\ ~pgArmed
  /\ pgArmed' = TRUE
  /\ UNCHANGED <<pgKind, pgSrv, pgQuery, pgPages, pgSize, pgFlight, pgError, pgOwn, pgMoves>>

\* The failures' button.
LoadMore ==
  /\ thisList.waits = "button" /\ PgView = "list" /\ HasMore /\ ~isValidating
  /\ UNCHANGED pgArmed
  /\ SetSize

FirstOf(pages) == IF pages = <<>> THEN <<>> ELSE <<pages[1]>>

\* Another filter is another key: its list is as it was left, or empty, and is fetched,
\* unless that was done within two seconds. Trending begins with page one again. The
\* fetch of the list that was left is given up (SWR ends it, for its cache only).
SetQuery ==
  /\ pgNarrowed' = ~pgNarrowed
  /\ pgOther' = [pages |-> pgPages, size |-> pgSize, all |-> pgFlight.all, error |-> pgError]
  /\ pgError' = pgOther.error /\ pgArmed' = TRUE
  /\ IF pgKind = "trending"
     THEN /\ pgPages' = FirstOf(pgOther.pages) /\ pgSize' = 1
          /\ pgFlight' = StartPages(FALSE)
     ELSE /\ pgPages' = pgOther.pages /\ pgSize' = pgOther.size
          /\ \/ pgFlight' = StartPages(pgOther.all)
             \/ /\ pgOther.pages # <<>> /\ ~pgOther.error
                /\ pgFlight' = [NoPgFlight EXCEPT !.all = pgOther.all]
  /\ SpendPgMove
  /\ UNCHANGED <<pgKind, pgSrv, pgOwn>>

\* The feed's bar of filters; not there while it first loads, after an error, or over a
\* feed that is empty without a filter.
FeedFilterBar ==
  /\ pgKind = "feed"
  /\ pgNarrowed \/ FeedView = "list"
  /\ FeedView # "error"
  /\ SetQuery

\* Freshness, window, minimum of channels, weighting and held stocks.
TrendingFilters == pgKind = "trending" /\ SetQuery

\* The status filter of a channel's videos, and the channel filter of the failures.
VideosFilter == pgKind \in {"videos", "failures"} /\ SetQuery
-----------------------------------------------------------------------------
(* Behind the api *)

\* What was read is older than the change.
Older(pages, own) ==
  [i \in DOMAIN pages |-> [pages[i] EXCEPT !.seen = FALSE, !.own = @ /\ ~own]]

Changed(list, own) ==
  /\ list # pgSrv
  /\ SpendPgMove
  /\ pgSrv' = list
  /\ pgPages' = Older(pgPages, own)
  /\ pgOther' = [pgOther EXCEPT !.pages = Older(@, own)]
  /\ pgFlight' = [pgFlight EXCEPT !.pages = Older(@, own)]
  /\ UNCHANGED <<pgKind, pgNarrowed, pgSize, pgError, pgArmed>>

\* A newer item appears on top, or an item goes.
ListChanges(own) ==
  \E x \in PgItems :
    \/ x \notin {pgSrv[i] : i \in DOMAIN pgSrv} /\ Changed(<<x>> \o pgSrv, own)
    \/ Changed(Kept(pgSrv, {i \in DOMAIN pgSrv : pgSrv[i] # x}), own)

ElsewhereChanged == ListChanges(FALSE) /\ UNCHANGED pgOwn

\* remove, or a channel added, a holding changed, a failed video retried: the request
\* succeeds ...
OwnChange ==
  /\ pgKind \in ChangedHere /\ pgOwn = "none"
  /\ ListChanges(TRUE)
  /\ pgOwn' = "sent"

\* Mutant: the change is announced by a plain revalidation.
AnnouncePlain ==
  /\ pgOwn = "sent"
  /\ pgOwn' = "done"
  /\ pgFlight' = StartPages(FALSE)
  /\ UNCHANGED <<pgKind, pgSrv, pgQuery, pgPages, pgSize, pgError, pgArmed, pgMoves>>

\* ... and mutate(), bound to the list, reads every loaded page again. The failures
\* are mounted anew instead, which shows what is cached and reads no page of it again.
Announce ==
  /\ pgOwn = "sent"
  /\ pgOwn' = "done"
  /\ pgFlight' = StartPages(pgKind # "failures")
  /\ UNCHANGED <<pgKind, pgSrv, pgQuery, pgPages, pgSize, pgError, pgArmed, pgMoves>>

PgNext ==
  \/ NextPage \/ PagesShown \/ PagesFail \/ PagesRevalidate
  \/ SentinelSeen \/ ScrollBack \/ LoadMore
  \/ FeedFilterBar \/ TrendingFilters \/ VideosFilter
  \/ ElsewhereChanged \/ OwnChange \/ Announce

PgSpec == PgInit /\ [][PgNext]_pgVars
-----------------------------------------------------------------------------
\* A list that offers no more has shown everything: if no page of it is older than
\* the last change, it is the api's list under the filter, each item once and in
\* order, whether the end was told by a short page or by the total, and also when
\* the last page is exactly full.
ListsEverything ==
  PgView \in {"list", "empty"} /\ pgPages # <<>> /\ ~isValidating /\ ~HasMore
    /\ (\A i \in DOMAIN pgPages : pgPages[i].seen)
  => ListItems = Listed

\* Once a removed or an added channel has been announced, the overview read without a
\* failure and come to rest, no page of it was read before that change, however many
\* pages were loaded: useSWRInfinite would otherwise read only its first page again.
\* (The trending stocks can lose the announcement: their sentinel does not wait for the
\* fetch it started, and a growing size starts one that keeps the later pages.)
OwnChangeShows ==
  pgKind = "channels" /\ pgOwn = "none" /\ ~isValidating /\ ~pgError =>
    \A i \in DOMAIN pgPages : pgPages[i].own
=============================================================================
