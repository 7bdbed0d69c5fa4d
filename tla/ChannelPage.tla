---------------------------- MODULE ChannelPage ----------------------------
(***************************************************************************)
(* The channel page's video list: a status filter, a selection, batch and  *)
(* row actions, the auto-analyze switch, and the request for older uploads *)
(* that polls its job. The rows live behind the api and move on their own. *)
(* A request goes out, is handled and comes back in separate steps. Every  *)
(* filter has a list of its own in SWR's cache, with its pages, its size   *)
(* and its fetch; the page shows one of them. A fetch reads page by page.  *)
(***************************************************************************)
EXTENDS Session, Naturals, Sequences, FiniteSets

CONSTANTS
  ChVideos,    \* the channel's videos: a later one is a larger number
  ChInitRows,  \* the statuses a behaviour may start from
  ChFilters,   \* entries of the status filter, "all" among them
  ChPageSize,  \* PAGE_SIZE
  ChMaxSize,   \* bound: pages asked for
  ChMaxPolls,  \* polls of a load_older job (150 in the code)
  ChMaxMoves,  \* bound: other steps: lanes, filters, session, fetches that fail or repeat
  ChMaxCalls   \* bound: requests by a person

VARIABLES
  chRows,    \* the api's rows: a status, or "absent"
  chAuto,    \* channels.auto_analyze
  chJob,     \* this page's load_older job is running
  chMoves,   \* what is left of the last two bounds
  chDetail,  \* SWR of the channel: loading, shown or error, and the switch shown
  chFilter,  \* statusFilter
  chLists,   \* SWR's cache: each filter's list
  chOld,     \* history: filters whose list may keep pages older than the last own write
  chSelected,\* selected
  chReq,     \* the request under way: busy
  chMessage  \* message

chVars == <<chRows, chAuto, chJob, chMoves, chDetail, chFilter, chLists, chOld,
            chSelected, chReq, chMessage>>
chServer == <<chRows, chAuto, chJob>>
chCache == <<chLists, chOld>>
-----------------------------------------------------------------------------
SpendMove == chMoves[1] > 0 /\ chMoves' = [chMoves EXCEPT ![1] = @ - 1]

VideoStatus == {"discovered", "pending", "transcribed", "analyzed", "failed",
                "no_transcript", "skipped"}

\* A page starts from rows there may be, with every filter off, and polls at least once.
ASSUME ChannelAssumption ==
  /\ ChVideos \subseteq Nat /\ IsFiniteSet(ChVideos)
  /\ ChInitRows \subseteq [ChVideos -> VideoStatus \cup {"absent"}]
  /\ "all" \in ChFilters
  /\ ChPageSize \in Nat \ {0} /\ ChMaxSize \in Nat \ {0}
  /\ ChMaxPolls \in Nat \ {0} /\ ChMaxMoves \in Nat /\ ChMaxCalls \in Nat

ACTIONABLE == {"discovered", "failed", "no_transcript", "skipped"}

SKIPPABLE == {"discovered", "failed", "no_transcript"}

\* The label of a row's first button; none while the video is queued.
RowActionKey(status) ==
  CASE status \in {"discovered", "skipped"} -> "analyze"
    [] status \in {"failed", "no_transcript"} -> "retry"
    [] status = "analyzed" -> "reanalyze"
    [] OTHER -> "none"

\* GET /channels/{id}/videos: a page under a filter, newest first.
ChannelVideos(filter) == {v \in ChVideos : chRows[v] # "absent" /\ filter \in {"all", chRows[v]}}

Place(filter, v) == Cardinality({w \in ChannelVideos(filter) : w > v})

ReadVideos(filter, i) ==
  [items |-> [v \in {w \in ChannelVideos(filter) :
                       Place(filter, w) \in (i - 1) * ChPageSize .. i * ChPageSize - 1} |-> chRows[v]],
   total |-> Cardinality(ChannelVideos(filter)),
   seen |-> TRUE]

ListItem == UNION {[S -> VideoStatus] : S \in SUBSET ChVideos}

\* seen: read after the last write of this page that the api committed.
ChPage == [items : ListItem, total : Nat, seen : BOOLEAN]

\* again: mutate() wants every page anew; fetch: reads page one and what is not cached,
\* or every page, and has got as far as read.
ChList == [pages : Seq(ChPage), size : 1..ChMaxSize, again : BOOLEAN, error : BOOLEAN,
           fetch : {"none", "first", "every"}, read : Seq(ChPage)]
NoList == [pages |-> <<>>, size |-> 1, again |-> FALSE, error |-> FALSE,
           fetch |-> "none", read |-> <<>>]

\* A new fetch; the answer of an older one is thrown away.
Fetching(list) ==
  [list EXCEPT !.fetch = IF list.again THEN "every" ELSE "first", !.read = <<>>]

Cached == {f \in ChFilters : chLists[f].pages # <<>> \/ chLists[f].fetch # "none"}

ChRequest == [kind : {"none", "auto", "analyze", "skip", "older"},
              phase : {"idle", "sent", "ok", "polling", "waiting", "refreshing", "refreshed"},
              ids : SUBSET ChVideos,
              polls : 0..ChMaxPolls,
              at : ChFilters]    \* the filter of its click, then of its refresh
NoRequest == [kind |-> "none", phase |-> "idle", ids |-> {}, polls |-> 0, at |-> "all"]

ChTypeOK ==
  /\ SessionTypeOK
  /\ chRows \in [ChVideos -> VideoStatus \cup {"absent"}]
  /\ chAuto \in BOOLEAN /\ chJob \in BOOLEAN
  /\ chMoves \in (0..ChMaxMoves) \X (0..ChMaxCalls)
  /\ chDetail \in [state : {"loading", "shown", "error"}, auto : BOOLEAN]
  /\ chFilter \in ChFilters
  /\ chLists \in [ChFilters -> ChList] /\ chOld \subseteq ChFilters
  /\ chSelected \subseteq ChVideos
  /\ chReq \in ChRequest
  /\ chMessage \in {"none", "queued", "busy", "failed", "olderBusy"}

ChInit ==
  /\ chRows \in ChInitRows
  /\ chAuto = FALSE /\ chJob = FALSE
  /\ chMoves = <<ChMaxMoves, ChMaxCalls>>
  /\ chDetail = [state |-> "loading", auto |-> FALSE]
  /\ chFilter = "all"
  /\ chLists = [f \in ChFilters |-> IF f = "all" THEN Fetching(NoList) ELSE NoList]
  /\ chOld = {}
  /\ chSelected = {}
  /\ chReq = NoRequest
  /\ chMessage = "none"
-----------------------------------------------------------------------------
(* The api's side *)

\* The lanes work off the queue.
LaneMoves ==
  /\ SpendMove
  /\ \E v \in ChVideos :
       \E to \in CASE chRows[v] = "pending" -> {"transcribed", "no_transcript"}
                   [] chRows[v] = "transcribed" -> {"analyzed", "failed"}
                   [] OTHER -> {} :
         chRows' = [chRows EXCEPT ![v] = to]
  /\ UNCHANGED <<chAuto, chJob, chDetail, chFilter, chCache, chSelected,
                 chReq, chMessage, cookie, authed>>

\* What was read before this page's own write is older than it: the pages of every list.
\* The refresh to come reads one list anew, the one the request was made under.
Unseen(pages) == [i \in DOMAIN pages |-> [pages[i] EXCEPT !.seen = FALSE]]
Outdate ==
  chLists' = [f \in ChFilters |->
                [chLists[f] EXCEPT !.pages = Unseen(@), !.read = Unseen(@)]]

\* The load_older job ends and has stored older uploads as skipped.
OlderJobEnds ==
  /\ chJob
  /\ chJob' = FALSE
  /\ chRows' = [v \in ChVideos |-> IF chRows[v] = "absent" THEN "skipped" ELSE chRows[v]]
  /\ IF chReq.kind = "older" /\ chReq.phase \in {"ok", "polling", "waiting"}
     THEN Outdate /\ chOld' = Cached \ {chReq.at} ELSE UNCHANGED chCache
  /\ UNCHANGED <<chAuto, chMoves, chDetail, chFilter, chSelected, chReq, chMessage,
                 cookie, authed>>

\* What the api's handlers do. The switch is set to what the page did not show; analyze
\* queues a video of any status no lane has claimed (behind the lane it still needs;
\* "pending" stands for both), skip refuses analyzed; one load_older job runs at a time.
SetAuto ==
  /\ chReq.kind = "auto"
  /\ chAuto' = ~chDetail.auto
  /\ UNCHANGED <<chRows, chJob>> /\ Outdate

MoveRows ==
  /\ chReq.kind \in {"analyze", "skip"}
  /\ chReq.kind = "skip" => \A v \in chReq.ids : chRows[v] # "analyzed"
  /\ chRows' = [v \in ChVideos |-> IF v \notin chReq.ids THEN chRows[v]
                                   ELSE IF chReq.kind = "skip" THEN "skipped" ELSE "pending"]
  /\ UNCHANGED <<chAuto, chJob>> /\ Outdate

StartOlder ==
  /\ chReq.kind = "older" /\ ~chJob
  /\ chJob' = TRUE
  /\ UNCHANGED <<chRows, chAuto, chLists>>

\* finally: setBusy(false)
EndRequest(message) == chReq' = NoRequest /\ chMessage' = message

\* The request is handled; its answer is on the way, or lost, and then nothing is
\* refreshed.
Handled ==
  /\ chReq.phase = "sent" /\ cookie
  /\ SetAuto \/ MoveRows \/ StartOlder
  /\ \/ chReq' = [chReq EXCEPT !.phase = "ok"] /\ UNCHANGED chMessage
     \/ EndRequest("failed")
  /\ chOld' = IF chReq.kind = "older" THEN chOld
              ELSE {f \in Cached : chReq'.phase = "ok" => f # chReq.at}
  /\ UNCHANGED <<chMoves, chDetail, chFilter, chSelected, cookie, authed>>

\* What the page says of a request that changed nothing: it failed, a lane holds one of
\* the videos, another listing job has the queue. Nothing is refreshed. A 401 locks the page.
Refusals ==
  {"failed"}
  \cup (IF cookie /\ chReq.kind \in {"analyze", "skip"}
            /\ \E v \in chReq.ids : chRows[v] \in {"pending", "transcribed"}
        THEN {"busy"} ELSE {})
  \cup (IF cookie /\ chReq.kind = "older" THEN {"olderBusy"} ELSE {})

Refused ==
  /\ chReq.phase = "sent"
  /\ \/ (\E message \in Refusals : EndRequest(message)) /\ UNCHANGED <<cookie, authed>>
     \/ ~cookie /\ EndRequest("failed") /\ WriteRefused
  /\ UNCHANGED <<chServer, chMoves, chDetail, chFilter, chCache, chSelected>>
-----------------------------------------------------------------------------
(* SWR *)

\* getKey: no page follows a short one.
HasNextKey(list) ==
  LET i == Len(list.read) + 1 IN
  /\ list.fetch # "none"
  /\ i <= list.size
  /\ i > 1 => Cardinality(DOMAIN list.read[i - 1].items) = ChPageSize

\* The next page of a fetch: out of the cache, or read from the api now. The fetch of a
\* filter that was left goes on.
ListPage(f) ==
  LET list == chLists[f]
      i == Len(list.read) + 1
      page == IF i \in 2 .. Len(list.pages) /\ list.fetch # "every" THEN list.pages[i]
              ELSE ReadVideos(f, i) IN
  /\ HasNextKey(list)
  /\ chLists' = [chLists EXCEPT ![f].read = Append(@, page)]
  /\ UNCHANGED <<chReq, chOld>>

\* mutateVideos() has been awaited.
EndAwait(f) ==
  chReq' = IF chReq.phase = "refreshing" /\ chReq.at = f
           THEN [chReq EXCEPT !.phase = "refreshed"] ELSE chReq

\* The last page is in.
ListLanded(f) ==
  LET list == chLists[f] IN
  /\ list.fetch # "none" /\ ~HasNextKey(list)
  /\ chLists' = [chLists EXCEPT ![f] = [NoList EXCEPT !.pages = list.read, !.size = list.size]]
  /\ EndAwait(f)
  /\ UNCHANGED chOld

\* An error leaves what is cached; what was to be read anew stays to be, unless a scroll
\* comes first.
ListFails(f) ==
  /\ chLists[f].fetch # "none"
  /\ chLists' = [chLists EXCEPT ![f].fetch = "none", ![f].read = <<>>, ![f].error = TRUE]
  /\ EndAwait(f)
  /\ chOld' = IF chReq' = chReq THEN chOld ELSE chOld \cup {f}

ListStep(f) ==
  /\ \/ (ListPage(f) \/ ListLanded(f)) /\ UNCHANGED chMoves
     \/ ListFails(f) /\ SpendMove
  /\ UNCHANGED <<chServer, chDetail, chFilter, chSelected, chMessage, cookie, authed>>

\* The fetch that a request of the page awaits.
ListFetched == chReq.phase = "refreshing" /\ ListStep(chReq.at)

\* On focus, or trying again after an error.
ListRevalidates ==
  /\ chLists[chFilter].fetch = "none"
  /\ chLists' = [chLists EXCEPT ![chFilter] = Fetching(@)]
  /\ SpendMove
  /\ UNCHANGED <<chServer, chDetail, chFilter, chOld, chSelected, chReq,
                 chMessage, cookie, authed>>

DetailFetched ==
  /\ chDetail' \in {[state |-> "shown", auto |-> chAuto],
                    [state |-> "error", auto |-> chDetail.auto]}
  /\ IF chDetail.state = "loading" THEN UNCHANGED chMoves ELSE SpendMove
  /\ UNCHANGED <<chServer, chFilter, chCache, chSelected, chReq,
                 chMessage, cookie, authed>>
-----------------------------------------------------------------------------
(* The page *)

busy == chReq.kind # "none"

\* An error of the channel's own fetch replaces the whole page, the first load a skeleton.
PageShown == chDetail.state = "shown"

\* The list shown: the statuses its rows give a video, how many rows there are, and the
\* sentinel under them.
videoPages == chLists[chFilter].pages
RowStatuses(v) ==
  {videoPages[i].items[v] : i \in {k \in DOMAIN videoPages : v \in DOMAIN videoPages[k].items}}
RowCount[n \in Nat] ==
  IF n = 0 THEN 0 ELSE RowCount[n - 1] + Cardinality(DOMAIN videoPages[n].items)
videoCount == RowCount[Len(videoPages)]
hasMore == videoPages # <<>> /\ videoCount < videoPages[1].total

actionableIds == {v \in ChVideos : RowStatuses(v) \cap ACTIONABLE # {}}
allActionableSelected == actionableIds # {} /\ actionableIds \subseteq chSelected

\* What is rendered, for whom and when: the switch, select-all, the batch's buttons, a
\* row's checkbox, the paths of its buttons, and the button under a list loaded whole.
SwitchShown == PageShown /\ authed /\ ~busy
SelectAllShown == PageShown /\ authed /\ actionableIds # {} /\ ~busy
BatchShown == PageShown /\ authed /\ chSelected # {} /\ ~busy
RowBox(v) == PageShown /\ authed /\ v \in actionableIds
RowPaths(v) ==
  {p \in {"analyze", "skip"} :
     /\ PageShown /\ authed /\ ~busy
     /\ \E status \in RowStatuses(v) :
          IF p = "analyze" THEN RowActionKey(status) # "none" ELSE status \in SKIPPABLE}
OlderShown == PageShown /\ authed /\ ~busy /\ videoCount > 0 /\ ~hasMore

\* A row's checkbox: also while a request is under way.
Toggle(v) ==
  /\ RowBox(v)
  /\ chSelected' = IF v \in chSelected THEN chSelected \ {v} ELSE chSelected \cup {v}
  /\ UNCHANGED <<chServer, chMoves, chDetail, chFilter, chCache, chReq,
                 chMessage, cookie, authed>>

\* Select-all covers what is loaded and actionable; the rest of the selection stays.
ToggleSelectAll ==
  /\ SelectAllShown
  /\ chSelected' = IF allActionableSelected THEN chSelected \ actionableIds
                   ELSE chSelected \cup actionableIds
  /\ UNCHANGED <<chServer, chMoves, chDetail, chFilter, chCache, chReq,
                 chMessage, cookie, authed>>

\* Another filter is another $inf$ key. Its pages and its size are as they were left; a
\* fetch of it that is on is joined, none is made within two seconds of the last one
\* that succeeded. The selection stays.
SetFilter(f) ==
  LET list == chLists[f] IN
  /\ PageShown /\ f # chFilter
  /\ chFilter' = f
  /\ \/ list.fetch = "none" /\ chLists' = [chLists EXCEPT ![f] = Fetching(@)]
     \/ list.fetch # "none" /\ UNCHANGED chLists
     \/ list.pages # <<>> /\ ~list.error /\ UNCHANGED chLists
  /\ SpendMove
  /\ UNCHANGED <<chServer, chDetail, chOld, chSelected, chReq, chMessage, cookie, authed>>

\* The sentinel comes into view. A growing size is a fetch like any other, and drops what
\* was to be read anew.
ScrollDown ==
  LET list == chLists[chFilter] IN
  /\ PageShown /\ hasMore /\ list.fetch = "none" /\ list.size < ChMaxSize
  /\ chLists' = [chLists EXCEPT ![chFilter] =
                   Fetching([list EXCEPT !.size = @ + 1, !.again = FALSE])]
  /\ UNCHANGED <<chServer, chMoves, chDetail, chFilter, chOld, chSelected, chReq,
                 chMessage, cookie, authed>>

\* Every request of the page starts alike: setBusy(true), setMessage(null), the fetch.
Send(kind, ids) ==
  /\ ~busy /\ chMoves[2] > 0
  /\ chReq' = [kind |-> kind, phase |-> "sent", ids |-> ids, polls |-> 0, at |-> chFilter]
  /\ chMessage' = "none"
  /\ chMoves' = [chMoves EXCEPT ![2] = @ - 1]
  /\ UNCHANGED <<chServer, chDetail, chFilter, chCache, chSelected, cookie, authed>>

\* The batch posts the selection as it is, whatever the rows show by now.
ActOnSelection == BatchShown /\ \E path \in {"analyze", "skip"} : Send(path, chSelected)

\* A row's own buttons.
ActOnRow(v) == \E path \in RowPaths(v) : Send(path, {v})

ToggleAutoAnalyze == SwitchShown /\ Send("auto", {})

LoadOlder == OlderShown /\ Send("older", {})

\* Mutant: the filter form of mutate alone, which skips the list's $inf$ key.
RefreshByFilter ==
  /\ UNCHANGED chCache
  /\ chReq' = [chReq EXCEPT !.phase = "refreshed"]

\* mutate(filter) and mutateVideos(), awaited together. The latter marks the list that the
\* click saw to be read anew, and fetches the one that is shown by now; a fetch of the
\* marked list that is already on takes the mark away.
Refresh ==
  /\ chLists' = [f \in ChFilters |->
       LET list == [chLists[f] EXCEPT !.again = @ \/ f = chReq.at] IN
       IF f = chFilter THEN Fetching(list) ELSE list]
  /\ chOld' = IF chFilter = chReq.at THEN chOld ELSE chOld \cup {chReq.at}
  /\ chReq' = [chReq EXCEPT !.phase = "refreshing", !.at = chFilter]

\* act succeeds: what was ticked is forgotten, ticks made meanwhile too.
Acted ==
  /\ chReq.kind \in {"analyze", "skip"} /\ chReq.phase = "ok"
  /\ chSelected' = {}
  /\ chMessage' = IF chReq.kind = "analyze" THEN "queued" ELSE chMessage
  /\ Refresh
  /\ UNCHANGED <<chServer, chMoves, chDetail, chFilter, cookie, authed>>

AutoToggled ==
  /\ chReq.kind = "auto" /\ chReq.phase = "ok"
  /\ Refresh
  /\ UNCHANGED <<chServer, chMoves, chDetail, chFilter, chSelected, chMessage,
                 cookie, authed>>

\* created: the loop of polls begins.
OlderCreated ==
  /\ chReq.kind = "older" /\ chReq.phase = "ok"
  /\ chReq' = [chReq EXCEPT !.phase = "polling"]
  /\ UNCHANGED <<chServer, chMoves, chDetail, chFilter, chCache, chSelected,
                 chMessage, cookie, authed>>

\* Mutant: polls as long as a job runs.
PollForever ==
  /\ chReq.phase = "polling"
  /\ chReq' = [chReq EXCEPT !.phase = "waiting"]
  /\ UNCHANGED <<chServer, chMoves, chDetail, chFilter, chCache, chSelected,
                 chMessage, cookie, authed>>

\* GET /jobs/current names a running job: this page's, or one that came after it.
PollRunning ==
  /\ chReq.phase = "polling"
  /\ chReq' = [chReq EXCEPT !.phase = "waiting", !.polls = @ + 1]
  /\ UNCHANGED <<chServer, chMoves, chDetail, chFilter, chCache, chSelected,
                 chMessage, cookie, authed>>

\* No running job: this page's has ended.
PollEnded ==
  /\ chReq.phase = "polling" /\ ~chJob
  /\ Refresh
  /\ UNCHANGED <<chServer, chMoves, chDetail, chFilter, chSelected, chMessage,
                 cookie, authed>>

\* Two seconds later: poll again, or give up after the last poll and refresh anyway.
PollAgain ==
  /\ chReq.phase = "waiting"
  /\ IF chReq.polls < ChMaxPolls
     THEN chReq' = [chReq EXCEPT !.phase = "polling"] /\ UNCHANGED chCache
     ELSE Refresh
  /\ UNCHANGED <<chServer, chMoves, chDetail, chFilter, chSelected, chMessage,
                 cookie, authed>>

\* Both refreshes are in; the channel's own may have failed, or shown the new switch.
Refreshed ==
  /\ chReq.phase = "refreshed"
  /\ EndRequest(chMessage)
  /\ chDetail' \in {[state |-> "shown", auto |-> chAuto],
                    [state |-> "error", auto |-> chDetail.auto]}
  /\ UNCHANGED <<chServer, chMoves, chFilter, chCache, chSelected, cookie, authed>>

\* A poll is not answered: nothing is refreshed, whatever the job has stored.
PollFails ==
  /\ chReq.phase = "polling"
  /\ EndRequest("failed")
  /\ chOld' = chOld \cup {chReq.at}
  /\ UNCHANGED <<chServer, chMoves, chDetail, chFilter, chLists, chSelected, cookie, authed>>

SessionChanges ==
  /\ SessionStep /\ SpendMove
  /\ UNCHANGED <<chServer, chDetail, chFilter, chCache, chSelected, chReq, chMessage>>

\* Requests are answered and timers fire.
ChAnswer ==
  \/ Handled \/ Refused \/ Acted \/ AutoToggled
  \/ OlderCreated \/ PollRunning \/ PollEnded \/ PollAgain \/ PollFails
  \/ Refreshed

ChNext ==
  \/ ChAnswer
  \/ \E f \in ChFilters : ListStep(f) \/ SetFilter(f)
  \/ \E v \in ChVideos : Toggle(v) \/ ActOnRow(v)
  \/ ToggleSelectAll \/ ActOnSelection \/ ToggleAutoAnalyze \/ LoadOlder
  \/ ScrollDown \/ LaneMoves \/ OlderJobEnds \/ ListRevalidates \/ DetailFetched
  \/ SessionChanges

ChFairness == WF_<<chVars, cookie, authed>>(ChAnswer) /\ WF_<<chVars, cookie, authed>>(ListFetched)
ChSpec == SessionInit /\ ChInit /\ [][ChNext]_<<chVars, cookie, authed>> /\ ChFairness
-----------------------------------------------------------------------------
\* When a request has succeeded and the page is usable again, no page in the cache was
\* read before the api committed it (a load_older: before its job ended), shown or not,
\* however far the reader had scrolled, whatever rows moved and fetches answered
\* meanwhile: of the list the request was made under, and of those that were first read
\* after it. Not of the others (chOld): the lists of filters looked at before, or left
\* before the answer came, of which no more than page one is read again (mutateVideos is
\* bound to one key, channel-detail.tsx:198-204), and one whose refresh failed.
OwnWriteShows ==
  ~busy /\ chMessage \in {"none", "queued"} =>
    \A f \in ChFilters \ chOld :
      \A i \in DOMAIN chLists[f].pages : chLists[f].pages[i].seen
=============================================================================
