---------------------------- MODULE PipelineView ----------------------------
(***************************************************************************)
(* The pipeline page around its inbox: the snapshot that is polled, a lane *)
(* with its pause button, and the drawer with the videos that failed in it *)
(* and the filters of a retry. The rows of the drawer are PagedList's kind *)
(* "failures". One lane is modelled: both have the same state each.        *)
(***************************************************************************)
EXTENDS Session, Naturals, FiniteSets

CONSTANTS
  PvVideos,    \* videos that may fail in the lane
  PvFilters,   \* filters of the drawer: in, the channel's videos; under, those with few attempts
  PvNoFilter,  \* "all" and "all"
  PvMaxMoves   \* bound: what the lane, a worker and others do

\* Finitely many videos; a filter is of some of them, and is off at first.
ASSUME PipelineAssumption ==
  /\ IsFiniteSet(PvVideos)
  /\ PvFilters \subseteq [in : SUBSET PvVideos, under : SUBSET PvVideos]
  /\ PvNoFilter \in PvFilters
  /\ PvMaxMoves \in Nat

VARIABLES
  pvLane,    \* the api's lane: paused, and by whom; online
  pvFailed,  \* the api's failed videos
  pvMoves,
  pvSnap,    \* SWR of the snapshot
  pvButton,  \* LaneStatus: the verb of the request under way
  pvDrawer,  \* failedKind # null, and the drawer's filters
  pvSummary, \* SWR of the summary: loaded, what it counted; error
  pvRetry    \* FailedVideos: the request under way, by the videos it covers

pvVars == <<pvLane, pvFailed, pvMoves, pvSnap, pvButton, pvDrawer, pvSummary, pvRetry>>
pvServer == <<pvLane, pvFailed, pvMoves>>
pvDrawerUI == <<pvDrawer, pvSummary, pvRetry>>
-----------------------------------------------------------------------------
PvLane == [pause : {"none", "manual", "auto", "limit"}, online : BOOLEAN]

\* laneState: a paused lane whose worker is gone can't be resumed from here.
LaneState(lane) ==
  IF ~lane.online THEN "offline" ELSE IF lane.pause # "none" THEN "paused" ELSE "running"

\* The chip in the header is there when the snapshot needs a person, and names why (the
\* inbox's count, a third reason, is ImportInbox's).
NeedsAttention(snap) == snap.failed > 0 \/ LaneState(snap.lane) # "running"

AttentionParts(snap) ==
  IF ~NeedsAttention(snap) THEN {}
  ELSE (IF snap.failed > 0 THEN {"failed"} ELSE {}) \cup ({LaneState(snap.lane)} \ {"running"})

\* What the lane's head says of its state; a person's own pause gets no alert.
LaneAlert(lane) ==
  CASE LaneState(lane) = "offline" -> "offline"
    [] LaneState(lane) = "paused" /\ lane.pause \in {"limit", "auto"} -> lane.pause
    [] OTHER -> "none"

NoSummary == [loaded |-> FALSE, error |-> FALSE, total |-> 0, retryable |-> 0]
NoRetry == [sent |-> FALSE, ids |-> {}]
ClosedDrawer == [open |-> FALSE, filter |-> PvNoFilter]

PvTypeOK ==
  /\ SessionTypeOK
  /\ pvLane \in PvLane
  /\ pvFailed \subseteq PvVideos /\ pvMoves \in 0..PvMaxMoves
  /\ pvSnap \in [loaded : BOOLEAN, lane : PvLane, failed : 0..Cardinality(PvVideos)]
  /\ pvButton \in {"none", "pause", "resume"}
  /\ pvDrawer \in [open : BOOLEAN, filter : PvFilters]
  /\ pvSummary \in [loaded : BOOLEAN, error : BOOLEAN,
                    total : 0..Cardinality(PvVideos), retryable : 0..Cardinality(PvVideos)]
  /\ pvRetry \in [sent : BOOLEAN, ids : SUBSET PvVideos]

PvInit ==
  /\ pvLane = [pause |-> "none", online |-> TRUE]
  /\ pvFailed = PvVideos /\ pvMoves = PvMaxMoves
  /\ pvSnap = [loaded |-> FALSE, lane |-> pvLane, failed |-> 0]
  /\ pvButton = "none"
  /\ pvDrawer = ClosedDrawer /\ pvSummary = NoSummary
  /\ pvRetry = NoRetry
-----------------------------------------------------------------------------
(* Behind the api *)

\* A stage pauses its lane, a limit does, one resumes, the worker goes and comes.
LaneChanges ==
  /\ pvMoves > 0 /\ pvMoves' = pvMoves - 1
  /\ pvLane' \in {[pvLane EXCEPT !.pause = p] : p \in {"none", "auto", "limit"}}
                 \cup {[pvLane EXCEPT !.online = ~@]}
  /\ pvLane' # pvLane
  /\ UNCHANGED <<pvFailed, pvSnap, pvButton, pvDrawerUI, cookie, authed>>

\* A retried video fails again, or one fails for the first time.
VideoFails ==
  /\ pvMoves > 0 /\ pvMoves' = pvMoves - 1
  /\ \E v \in PvVideos \ pvFailed : pvFailed' = pvFailed \cup {v}
  /\ UNCHANGED <<pvLane, pvSnap, pvButton, pvDrawerUI, cookie, authed>>
-----------------------------------------------------------------------------
(* The page *)

Snapshot == [loaded |-> TRUE, lane |-> pvLane, failed |-> Cardinality(pvFailed)]
PipelineShown == authed /\ pvSnap.loaded

\* The poll while the page is unlocked. A failed one leaves what is shown.
SnapshotFetched ==
  /\ authed
  /\ pvSnap' = Snapshot
  /\ UNCHANGED <<pvServer, pvButton, pvDrawerUI, cookie, authed>>

\* An offline worker can't act on a pause flag; the button is not there. An open drawer
\* covers the lanes.
ClickLane ==
  /\ PipelineShown /\ ~pvDrawer.open /\ LaneState(pvSnap.lane) # "offline" /\ pvButton = "none"
  /\ pvButton' = IF pvSnap.lane.pause # "none" THEN "resume" ELSE "pause"
  /\ UNCHANGED <<pvServer, pvSnap, pvDrawerUI, cookie, authed>>

\* A locked page shows neither lanes nor drawer; what they held is gone, the drawer's
\* being open is the page's own state.
PvForget ==
  /\ pvButton' = "none"
  /\ pvDrawer' = [pvDrawer EXCEPT !.filter = PvNoFilter] /\ pvSummary' = NoSummary
  /\ pvRetry' = NoRetry

\* A write that is answered 401.
PvDenied == ~cookie /\ WriteRefused /\ PvForget

\* The api obeys the path's verb, whatever the lane is by now; then the snapshot is read
\* again, unless the answer is lost. Or the request fails.
LanePosted ==
  /\ pvButton # "none"
  /\ \/ /\ cookie /\ pvButton' = "none"
        /\ pvLane' \in {pvLane, [pvLane EXCEPT !.pause =
                                   IF pvButton = "resume" THEN "none" ELSE "manual"]}
        /\ pvSnap' \in {pvSnap, [Snapshot EXCEPT !.lane = pvLane']}
        /\ UNCHANGED <<pvDrawerUI, cookie, authed>>
     \/ PvDenied /\ UNCHANGED <<pvLane, pvSnap>>
  /\ UNCHANGED <<pvFailed, pvMoves>>

\* The lane's count of failed videos opens the drawer; closing it unmounts its content.
OpenDrawer ==
  /\ PipelineShown /\ pvSnap.failed > 0 /\ ~pvDrawer.open
  /\ pvDrawer' = [open |-> TRUE, filter |-> PvNoFilter]
  /\ UNCHANGED <<pvServer, pvSnap, pvButton, pvSummary, pvRetry, cookie, authed>>

CloseDrawer ==
  /\ PipelineShown /\ pvDrawer.open
  /\ pvDrawer' = ClosedDrawer /\ pvSummary' = NoSummary /\ pvRetry' = NoRetry
  /\ UNCHANGED <<pvServer, pvSnap, pvButton, cookie, authed>>

\* GET /failures under the filters: the total ignores the attempts. A failure replaces
\* the drawer, its filters too.
SummaryFetched ==
  /\ PipelineShown /\ pvDrawer.open
  /\ LET f == pvDrawer.filter IN
     pvSummary' \in
       {[loaded |-> TRUE, error |-> FALSE, total |-> Cardinality(pvFailed \cap f.in),
         retryable |-> Cardinality(pvFailed \cap f.in \cap f.under)],
        [pvSummary EXCEPT !.error = TRUE]}
  /\ UNCHANGED <<pvServer, pvSnap, pvButton, pvDrawer, pvRetry, cookie, authed>>

DrawerShown == PipelineShown /\ pvDrawer.open /\ pvSummary.loaded /\ ~pvSummary.error

\* Another key; the counts of the previous one stay until its answer is in.
SelectFilter ==
  /\ DrawerShown
  /\ pvDrawer' \in [open : {TRUE}, filter : PvFilters]
  /\ UNCHANGED <<pvServer, pvSnap, pvButton, pvSummary, pvRetry, cookie, authed>>

StartRetry(ids) ==
  /\ DrawerShown /\ ~pvRetry.sent /\ pvSummary.total > 0
  /\ pvRetry' = [sent |-> TRUE, ids |-> ids]
  /\ UNCHANGED <<pvServer, pvSnap, pvButton, pvDrawer, pvSummary, cookie, authed>>

\* The group's button counts under the summary's filter and posts the drawer's.
RetryGroup ==
  /\ pvSummary.retryable > 0
  /\ StartRetry(pvDrawer.filter.in \cap pvDrawer.filter.under)

\* A row's button posts to /analyze, which takes a video of any status.
RetryOne == \E v \in pvDrawer.filter.in \cap pvDrawer.filter.under : StartRetry({v})

\* Requeued videos are failed no longer, also when the answer is lost. refresh() is not
\* awaited: its reads are a SnapshotFetched and a SummaryFetched to come.
RetryPosted ==
  /\ pvRetry.sent
  /\ \/ /\ cookie /\ pvRetry' = NoRetry
        /\ pvFailed' \in {pvFailed, pvFailed \ pvRetry.ids}
        /\ UNCHANGED <<pvButton, pvDrawer, pvSummary, cookie, authed>>
     \/ PvDenied /\ UNCHANGED pvFailed
  /\ UNCHANGED <<pvLane, pvMoves, pvSnap>>

PvSession ==
  /\ SessionStep
  /\ IF authed' THEN UNCHANGED <<pvButton, pvDrawerUI>> ELSE PvForget
  /\ UNCHANGED <<pvServer, pvSnap>>

PvNext ==
  \/ LaneChanges \/ VideoFails
  \/ SnapshotFetched \/ ClickLane \/ LanePosted
  \/ OpenDrawer \/ CloseDrawer \/ SummaryFetched \/ SelectFilter
  \/ RetryGroup \/ RetryOne \/ RetryPosted
  \/ PvSession

PvSpec == SessionInit /\ PvInit /\ [][PvNext]_<<pvVars, cookie, authed>>
=============================================================================
