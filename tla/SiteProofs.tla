----------------------------- MODULE SiteProofs -----------------------------
(***************************************************************************)
(* The site as a whole: what PagesProofs shows of a page on its own also   *)
(* holds of it as a page of the site, and no page does to the admin        *)
(* session what Session does not allow.                                    *)
(***************************************************************************)
EXTENDS Site, ChartProofs
-----------------------------------------------------------------------------
(* What a page may do to the session *)

\* A 401 drops the belief, or finds it dropped.
LEMMA RefusalDrops ==
  ASSUME SessionTypeOK, WriteRefused
  PROVE  [SessionNext]_sessionVars
<1>1. CASE authed
  BY <1>1 DEF WriteRefused, SessionNext, Drop
<1>2. CASE authed = FALSE
  BY <1>2 DEF WriteRefused, sessionVars
<1> QED
  BY <1>1, <1>2, Zenon DEF SessionTypeOK

LEMMA PersonOrClock ==
  ASSUME SessionStep
  PROVE  [SessionNext]_sessionVars
  BY Zenon DEF SessionStep, SessionNext

LEMMA SessionTyped ==
  ASSUME SessionTypeOK, [SessionNext]_sessionVars
  PROVE  SessionTypeOK'
<1>1. CASE Lapse
  BY <1>1, Zenon DEF SessionTypeOK, Lapse
<1>2. CASE Grant
  BY <1>2, Zenon DEF SessionTypeOK, Grant
<1>3. CASE Drop
  BY <1>3, Zenon DEF SessionTypeOK, Drop
<1>4. CASE Renew
  BY <1>4, Zenon DEF SessionTypeOK, Renew
<1>5. CASE UNCHANGED sessionVars
  BY <1>5 DEF SessionTypeOK, sessionVars
<1> QED
  BY <1>1, <1>2, <1>3, <1>4, <1>5, Zenon DEF SessionNext

LEMMA RefreshKeepsSession ==
  ASSUME SessionTypeOK, RbNext
  PROVE  [SessionNext]_sessionVars
<1>1. CASE RefreshRefused
  BY <1>1, RefusalDrops DEF RefreshRefused, sessionVars
<1>2. CASE RbSession
  BY <1>2, PersonOrClock DEF RbSession
<1>3. CASE JobStarts \/ JobEnds \/ JobFetched \/ PollFetched \/ ClickRefresh \/ RefreshPosted
           \/ TriggerFetched
  BY <1>3 DEF JobStarts, JobEnds, JobFetched, PollFetched, JobAnswered, ClickRefresh,
     RefreshPosted, TriggerFetched, sessionVars
<1> QED
  BY <1>1, <1>2, <1>3 DEF RbNext

LEMMA ChannelKeepsSession ==
  ASSUME SessionTypeOK, ChNext
  PROVE  [SessionNext]_sessionVars
<1>1. CASE Refused
  BY <1>1, RefusalDrops DEF Refused, sessionVars
<1>2. CASE SessionChanges
  BY <1>2, PersonOrClock DEF SessionChanges
<1>3. CASE Handled \/ Acted \/ AutoToggled \/ OlderCreated \/ PollRunning \/ PollEnded
           \/ PollAgain \/ PollFails \/ Refreshed
  BY <1>3 DEF Handled, Acted, AutoToggled, OlderCreated, PollRunning, PollEnded,
     PollAgain, PollFails, Refreshed, sessionVars
<1>4. CASE \/ \E v \in ChVideos : Toggle(v) \/ ActOnRow(v)
           \/ ToggleSelectAll \/ ActOnSelection \/ ToggleAutoAnalyze \/ LoadOlder
  BY <1>4 DEF Toggle, ActOnRow, ToggleSelectAll, ActOnSelection, ToggleAutoAnalyze,
     LoadOlder, Send, sessionVars
<1>5. CASE \/ \E f \in ChFilters : ListStep(f) \/ SetFilter(f)
           \/ ScrollDown \/ LaneMoves \/ OlderJobEnds \/ ListRevalidates \/ DetailFetched
  BY <1>5 DEF ListStep, SetFilter, ScrollDown, LaneMoves, OlderJobEnds, ListRevalidates,
     DetailFetched, sessionVars
<1> QED
  BY <1>1, <1>2, <1>3, <1>4, <1>5 DEF ChNext, ChAnswer

LEMMA InboxKeepsSession ==
  ASSUME SessionTypeOK, InNext
  PROVE  [SessionNext]_sessionVars
<1>1. CASE SkipPosted \/ AnalyzePosted
  BY <1>1, RefusalDrops DEF SkipPosted, AnalyzePosted, Posted, sessionVars
<1>2. CASE InSession
  BY <1>2, PersonOrClock DEF InSession
<1>3. CASE RowMoves \/ SnapshotPolled \/ InboxFetched \/ Tick \/ Submit \/ SubmitDone
           \/ SubmitRefreshed
  BY <1>3 DEF RowMoves, SnapshotPolled, InboxFetched, Tick, SetMany, Submit, SubmitDone,
     SubmitRefreshed, sessionVars
<1> QED
  BY <1>1, <1>2, <1>3 DEF InNext

LEMMA PipelineKeepsSession ==
  ASSUME SessionTypeOK, PvNext
  PROVE  [SessionNext]_sessionVars
<1>1. CASE LanePosted \/ RetryPosted
  BY <1>1, RefusalDrops DEF LanePosted, RetryPosted, PvDenied, sessionVars
<1>2. CASE PvSession
  BY <1>2, PersonOrClock DEF PvSession
<1>3. CASE LaneChanges \/ VideoFails \/ SnapshotFetched \/ ClickLane \/ OpenDrawer
           \/ CloseDrawer \/ SummaryFetched \/ SelectFilter
  BY <1>3 DEF LaneChanges, VideoFails, SnapshotFetched, ClickLane, OpenDrawer,
     CloseDrawer, SummaryFetched, SelectFilter, sessionVars
<1>4. CASE RetryGroup \/ RetryOne
  BY <1>4 DEF RetryGroup, RetryOne, StartRetry, sessionVars
<1> QED
  BY <1>1, <1>2, <1>3, <1>4 DEF PvNext

LEMMA VideoKeepsSession ==
  ASSUME SessionTypeOK, VpNext
  PROVE  [SessionNext]_sessionVars
<1>1. CASE AnalyzeRefused
  BY <1>1, RefusalDrops DEF AnalyzeRefused, sessionVars
<1>2. CASE VpSession
  BY <1>2, PersonOrClock DEF VpSession
<1>3. CASE LaneClaims \/ LaneFinishes \/ MovedElsewhere \/ DetailAsked \/ DetailStep
  BY <1>3 DEF LaneClaims, LaneFinishes, MovedElsewhere, DetailAsked, DetailStep,
     DetailServed, VideoFetched, VideoFetchFails, sessionVars
<1>4. CASE ClickReanalyze \/ AnalyzeAccepted \/ AnalyzeAnswered \/ WatchStep
  BY <1>4 DEF ClickReanalyze, AnalyzeAccepted, AnalyzeAnswered, WatchStep, WatchServed,
     WatchAnswered, sessionVars
<1> QED
  BY <1>1, <1>2, <1>3, <1>4 DEF VpNext

LEMMA DialogsKeepSession ==
  ASSUME SessionTypeOK, DgNext
  PROVE  [SessionNext]_sessionVars
<1>1. CASE ChangeRefused \/ ChannelsPosted
  BY <1>1, RefusalDrops DEF ChangeRefused, ChannelsPosted, Denied, sessionVars
<1>2. CASE DgSession
  BY <1>2, PersonOrClock DEF DgSession
<1>3. CASE HoldingsRevalidate \/ ListHoldings \/ HoldingsFetched \/ ClickAdd \/ ClickRemove
           \/ HoldingsAdded \/ HoldingRemoved
  BY <1>3 DEF HoldingsRevalidate, ListHoldings, HoldingsFetched, ClickAdd, ClickRemove,
     HoldingsAdded, HoldingRemoved, sessionVars
<1>4. CASE ChangeAnswered \/ AnswerLost \/ RevalidateOwn \/ HoldingsAnnounced
  BY <1>4 DEF ChangeAnswered, AnswerLost, RevalidateOwn, HoldingsAnnounced, sessionVars
<1>5. CASE OpenAddChannel \/ SubmitChannels \/ ChannelsAnswered \/ ChannelsAnnounced
  BY <1>5 DEF OpenAddChannel, SubmitChannels, ChannelsAnswered, ChannelsAnnounced, sessionVars
<1> QED
  BY <1>1, <1>2, <1>3, <1>4, <1>5 DEF DgNext

-----------------------------------------------------------------------------
(* Types, page by page: each page's type invariant holds whichever page is open *)

LEMMA RefreshTyped ==
  ASSUME RbTypeOK, [RbNext]_rbVars, SessionTypeOK'
  PROVE  RbTypeOK'
<1> USE RefreshAssumption DEF RbTypeOK, RbJob, Running
<1>0. Enqueue => rbJob' \in RbJob /\ rbLeft' \in 0..RbMaxJobs
  <2>1. [status |-> "running", found |-> FALSE] \in RbJob
    OBVIOUS
  <2>2. rbLeft > 0 => rbLeft - 1 \in 0..RbMaxJobs
    OBVIOUS
  <2>3. Enqueue => \/ rbJob' = rbJob /\ rbLeft' = rbLeft
                   \/ /\ rbJob' = [status |-> "running", found |-> FALSE]
                      /\ rbLeft > 0 /\ rbLeft' = rbLeft - 1
    BY DEF Enqueue
  <2> QED
    BY <2>1, <2>2, <2>3
<1>1. CASE JobStarts \/ JobEnds
  <2>1. rbJob' \in RbJob /\ rbLeft' \in 0..RbMaxJobs
    BY <1>0, <1>1 DEF JobStarts, JobEnds
  <2>2. rbLists' \in {"read", "stale"} /\ UNCHANGED <<rbShown, rbPolling, rbTrigger, rbNotes>>
    BY <1>1 DEF JobStarts, JobEnds
  <2> QED
    BY <2>1, <2>2
<1>2. CASE JobFetched \/ PollFetched \/ TriggerFetched
  BY <1>2 DEF JobFetched, PollFetched, TriggerFetched, JobAnswered, Polling
<1>3. CASE ClickRefresh \/ RefreshRefused
  BY <1>3 DEF ClickRefresh, RefreshRefused
<1>4. CASE RefreshPosted
  BY <1>0, <1>4 DEF RefreshPosted
<1>5. CASE RbSession \/ UNCHANGED rbVars
  BY <1>5 DEF RbSession, rbVars
<1> QED
  BY <1>1, <1>2, <1>3, <1>4, <1>5 DEF RbNext

LEMMA DiscoveredCount == Cardinality(Discovered) \in 0..Cardinality(InVideos)
  BY InboxAssumption, FS_Subset, FS_CardinalityType DEF Discovered

\* What appears is ticked at most, and was defaulted.
LEMMA DefaultTyped ==
  ASSUME InTypeOK, Default, inData'.ids \subseteq InVideos
  PROVE  /\ inChecked' \subseteq inDefaulted' /\ inDefaulted' \subseteq InVideos
         /\ inLate' \subseteq inDefaulted'
<1>1. ShownIds(inTotal', inData') \subseteq InVideos
  BY DEF ShownIds
<1> HIDE DEF ShownIds
<1> QED
  BY <1>1 DEF Default, InTypeOK

LEMMA PostedTyped ==
  ASSUME InTypeOK, SessionTypeOK', NEW ids, NEW status \in InRowStatus,
         NEW next \in {"analyze", "done"}, Posted(ids, status, next)
  PROVE  InTypeOK'
<1>1. inRows' \in [InVideos -> InRowStatus]
  BY DEF Posted, InTypeOK
<1>2. inReq' \in [phase : {"idle", "skip", "analyze", "done", "refreshing"},
                 skip : SUBSET InVideos, analyze : SUBSET InVideos]
  BY DEF Posted, InForget, InTypeOK, InNoRequest
<1>3. InForget \/ UNCHANGED inMemory
  BY DEF Posted
<1>4. UNCHANGED <<inTotal, inData, inMoves>>
  BY DEF Posted
<1>5. inChecked' \subseteq inDefaulted' /\ inDefaulted' \subseteq InVideos /\ inLate' \subseteq inDefaulted'
  BY <1>3 DEF InForget, inMemory, InTypeOK
<1>6. inReviewed' \in [touched : BOOLEAN, ids : SUBSET InVideos]
  <2>1. InNotReviewed \in [touched : BOOLEAN, ids : SUBSET InVideos]
    BY DEF InNotReviewed
  <2>2. inReviewed' \in {inReviewed, InNotReviewed}
    BY <1>3 DEF InForget, inMemory
  <2> QED
    BY <2>1, <2>2 DEF InTypeOK
<1> QED
  BY <1>1, <1>2, <1>4, <1>5, <1>6 DEF InTypeOK

LEMMA InboxTyped ==
  ASSUME InTypeOK, InInv, [InNext]_inVars, SessionTypeOK'
  PROVE  InTypeOK'
<1> USE InboxAssumption
<1>1. inMoves[1] > 0 => [inMoves EXCEPT ![1] = @ - 1] \in (0..InMaxMoves) \X (0..InMaxCalls)
  BY Spent DEF InTypeOK
<1>2. inMoves[2] > 0 => [inMoves EXCEPT ![2] = @ - 1] \in (0..InMaxMoves) \X (0..InMaxCalls)
  BY Spent DEF InTypeOK
<1>3. Discovered \subseteq InVideos
  BY DEF Discovered
<1>4. allIds \subseteq InVideos
  BY DEF allIds, ShownIds, InTypeOK
<1>5. CASE RowMoves
  BY <1>1, <1>5 DEF RowMoves, InTypeOK, InRowStatus, inMemory
<1>6. CASE SnapshotPolled \/ InboxFetched \/ SubmitRefreshed
  <2>1. inData' \in [loaded : BOOLEAN, ids : SUBSET InVideos] /\ inTotal' \in 0..Cardinality(InVideos)
    <3>1. CASE SnapshotPolled
      BY <3>1, DiscoveredCount DEF SnapshotPolled, InTypeOK
    <3>2. CASE InboxFetched
      BY <1>3, <3>2 DEF InboxFetched, InTypeOK
    <3>3. CASE SubmitRefreshed
      BY <1>3, <3>3, DiscoveredCount DEF SubmitRefreshed
    <3> QED
      BY <1>6, <3>1, <3>2, <3>3
  <2>2. Default /\ UNCHANGED <<inRows, inReviewed, inMoves>>
    BY <1>6 DEF SnapshotPolled, InboxFetched, SubmitRefreshed
  <2>3. inReq' \in {inReq, InNoRequest}
    BY <1>6 DEF SnapshotPolled, InboxFetched, SubmitRefreshed
  <2> QED
    BY <2>1, <2>2, <2>3, DefaultTyped DEF InTypeOK, InNoRequest
<1>7. CASE Tick
  <2>1. PICK ids \in SUBSET allIds, select \in BOOLEAN : SetMany(ids, select)
    BY <1>7 DEF Tick
  <2>2. ids \subseteq inDefaulted
    BY <1>7 DEF Tick, ListShown, InInv, NothingLateIsReviewed
  <2> QED
    BY <1>4, <2>1, <2>2 DEF SetMany, Reviewed, InTypeOK
<1>8. CASE Submit
  BY <1>2, <1>4, <1>8 DEF Submit, selectedIds, InTypeOK
<1>9. CASE SkipPosted
  BY <1>9, PostedTyped DEF SkipPosted, InRowStatus
<1>10. CASE AnalyzePosted
  BY <1>10, PostedTyped DEF AnalyzePosted, InRowStatus
<1>11. CASE SubmitDone
  BY <1>11 DEF SubmitDone, InTypeOK, InNotReviewed
<1>12. CASE InSession
  <2>1. CASE InForget
    BY <1>12, <2>1 DEF InSession, InForget, InTypeOK, InNoRequest, InNotReviewed
  <2>2. CASE Default /\ UNCHANGED <<inReviewed, inReq>>
    <3>1. UNCHANGED <<inRows, inTotal, inData, inMoves>>
      BY <1>12 DEF InSession
    <3> QED
      BY <2>2, <3>1, DefaultTyped DEF InTypeOK
  <2> QED
    BY <1>12, <2>1, <2>2 DEF InSession
<1>13. CASE UNCHANGED inVars
  BY <1>13 DEF inVars, InTypeOK
<1> QED
  BY <1>5, <1>6, <1>7, <1>8, <1>9, <1>10, <1>11, <1>12, <1>13 DEF InNext

LEMMA FailedCount ==
  ASSUME NEW S \in SUBSET PvVideos
  PROVE  Cardinality(S) \in 0..Cardinality(PvVideos)
  BY PipelineAssumption, FS_Subset, FS_CardinalityType

LEMMA PipelineTyped ==
  ASSUME PvTypeOK, [PvNext]_pvVars, SessionTypeOK'
  PROVE  PvTypeOK'
<1> USE PipelineAssumption
<1>1. Cardinality(pvFailed) \in 0..Cardinality(PvVideos)
  BY FailedCount DEF PvTypeOK
<1>2. Snapshot \in [loaded : BOOLEAN, lane : PvLane, failed : 0..Cardinality(PvVideos)]
  BY <1>1 DEF Snapshot, PvTypeOK
<1>3. NoSummary \in [loaded : BOOLEAN, error : BOOLEAN, total : 0..Cardinality(PvVideos),
                     retryable : 0..Cardinality(PvVideos)]
  BY PipelineAssumption, FS_CardinalityType DEF NoSummary
<1>4. ClosedDrawer \in [open : BOOLEAN, filter : PvFilters] /\ NoRetry \in [sent : BOOLEAN, ids : SUBSET PvVideos]
  BY DEF ClosedDrawer, NoRetry
<1>5. PvForget => /\ pvButton' = "none" /\ pvSummary' = NoSummary /\ pvRetry' = NoRetry
                  /\ pvDrawer' \in [open : BOOLEAN, filter : PvFilters]
  BY DEF PvForget, PvTypeOK
<1>6. CASE LaneChanges
  <2>1. \A p \in {"none", "auto", "limit"} : [pvLane EXCEPT !.pause = p] \in PvLane
    BY DEF PvTypeOK, PvLane
  <2>2. [pvLane EXCEPT !.online = ~@] \in PvLane
    BY DEF PvTypeOK, PvLane
  <2>3. pvLane' \in PvLane /\ pvMoves' \in 0..PvMaxMoves
    BY <1>6, <2>1, <2>2 DEF LaneChanges, PvTypeOK
  <2> QED
    BY <1>6, <2>3 DEF LaneChanges, PvTypeOK, pvDrawerUI
<1>7. CASE VideoFails
  BY <1>7 DEF VideoFails, PvTypeOK, pvDrawerUI
<1>8. CASE SnapshotFetched \/ ClickLane
  BY <1>2, <1>8 DEF SnapshotFetched, ClickLane, PvTypeOK, pvServer, pvDrawerUI
<1>9. CASE LanePosted
  <2>1. pvLane' \in PvLane
    BY <1>9 DEF LanePosted, PvTypeOK, PvLane
  <2>2. pvSnap' \in [loaded : BOOLEAN, lane : PvLane, failed : 0..Cardinality(PvVideos)]
    BY <1>2, <1>9, <2>1 DEF LanePosted, PvTypeOK
  <2>3. \/ PvForget
        \/ pvButton' = "none" /\ UNCHANGED pvDrawerUI
    BY <1>9 DEF LanePosted, PvDenied
  <2>4. UNCHANGED <<pvFailed, pvMoves>>
    BY <1>9 DEF LanePosted
  <2> QED
    BY <1>3, <1>4, <1>5, <2>1, <2>2, <2>3, <2>4 DEF PvTypeOK, pvDrawerUI
<1>10. CASE OpenDrawer \/ CloseDrawer \/ SelectFilter
  <2>1. pvDrawer' \in [open : BOOLEAN, filter : PvFilters]
    <3>1. CASE OpenDrawer
      BY <3>1 DEF OpenDrawer
    <3>2. CASE CloseDrawer
      BY <1>4, <3>2 DEF CloseDrawer
    <3>3. CASE SelectFilter
      BY <3>3 DEF SelectFilter
    <3> QED
      BY <1>10, <3>1, <3>2, <3>3
  <2>2. pvSummary' \in {pvSummary, NoSummary} /\ pvRetry' \in {pvRetry, NoRetry}
    BY <1>10 DEF OpenDrawer, CloseDrawer, SelectFilter
  <2>3. UNCHANGED <<pvServer, pvSnap, pvButton>>
    BY <1>10 DEF OpenDrawer, CloseDrawer, SelectFilter
  <2> QED
    BY <1>3, <1>4, <2>1, <2>2, <2>3 DEF PvTypeOK, pvServer
<1>11. CASE SummaryFetched
  <2> DEFINE f == pvDrawer.filter
  <2>1. /\ Cardinality(pvFailed \cap f.in) \in 0..Cardinality(PvVideos)
        /\ Cardinality(pvFailed \cap f.in \cap f.under) \in 0..Cardinality(PvVideos)
    <3>1. pvFailed \cap f.in \in SUBSET PvVideos /\ pvFailed \cap f.in \cap f.under \in SUBSET PvVideos
      BY DEF PvTypeOK
    <3> QED
      BY <3>1, FailedCount
  <2>2. pvSummary' \in {[loaded |-> TRUE, error |-> FALSE, total |-> Cardinality(pvFailed \cap f.in),
                         retryable |-> Cardinality(pvFailed \cap f.in \cap f.under)],
                        [pvSummary EXCEPT !.error = TRUE]}
    BY <1>11 DEF SummaryFetched
  <2> DEFINE Summaries == [loaded : BOOLEAN, error : BOOLEAN, total : 0..Cardinality(PvVideos),
                           retryable : 0..Cardinality(PvVideos)]
  <2>4. [loaded |-> TRUE, error |-> FALSE, total |-> Cardinality(pvFailed \cap f.in),
         retryable |-> Cardinality(pvFailed \cap f.in \cap f.under)] \in Summaries
    <3> HIDE DEF f
    <3> QED
      BY <2>1
  <2>5. [pvSummary EXCEPT !.error = TRUE] \in Summaries
    BY DEF PvTypeOK
  <2>3. pvSummary' \in Summaries
    BY <2>2, <2>4, <2>5
  <2> QED
    BY <1>11, <2>3 DEF SummaryFetched, PvTypeOK, pvServer
<1>12. CASE RetryGroup \/ RetryOne
  <2>1. pvDrawer.filter.in \cap pvDrawer.filter.under \in SUBSET PvVideos
    BY DEF PvTypeOK
  <2>2. PICK ids \in SUBSET PvVideos : StartRetry(ids)
    BY <1>12, <2>1 DEF RetryGroup, RetryOne
  <2> QED
    BY <2>2 DEF StartRetry, PvTypeOK, pvServer
<1>13. CASE RetryPosted
  BY <1>3, <1>4, <1>5, <1>13 DEF RetryPosted, PvDenied, PvTypeOK
<1>14. CASE PvSession \/ UNCHANGED pvVars
  BY <1>3, <1>4, <1>5, <1>14 DEF PvSession, PvTypeOK, pvVars, pvServer, pvDrawerUI
<1> QED
  BY <1>6, <1>7, <1>8, <1>9, <1>10, <1>11, <1>12, <1>13, <1>14 DEF PvNext

LEMMA VideoTyped ==
  ASSUME VpTypeOK, [VpNext]_vpVars, SessionTypeOK'
  PROVE  VpTypeOK'
<1> USE VideoAssumption DEF VpTypeOK
<1>1. CASE LaneClaims \/ LaneFinishes \/ MovedElsewhere
  <2>1. vpVideo' \in VpVideo /\ (vpVideo'.claimed => vpVideo'.status \in Queued)
    <3>1. CASE LaneClaims
      BY <3>1 DEF LaneClaims, VpVideo
    <3>2. CASE LaneFinishes
      BY <3>2 DEF LaneFinishes, VpVideo, FINAL, Queued
    <3>3. CASE MovedElsewhere
      BY <3>3 DEF MovedElsewhere, VpVideo, FINAL, Queued
    <3> QED
      BY <1>1, <3>1, <3>2, <3>3
  <2>2. vpCurrent' \in {vpCurrent, FALSE} /\ vpFetch' \in {vpFetch, "older"}
    BY <1>1 DEF LaneClaims, LaneFinishes, MovedElsewhere, Outdated
  <2>3. vpMoves' \in 0..VpMaxMoves
    <3>1. CASE LaneClaims \/ LaneFinishes
      BY <3>1 DEF LaneClaims, LaneFinishes, Outdated
    <3>2. CASE MovedElsewhere
      <4>1. vpMoves > 0 /\ vpMoves' = vpMoves - 1
        BY <3>2 DEF MovedElsewhere
      <4> QED
        BY <4>1
    <3> QED
      BY <1>1, <3>1, <3>2
  <2>4. UNCHANGED <<vpDetail, vpPhase, vpPost, vpOrphans, vpPoll>>
    BY <1>1 DEF LaneClaims, LaneFinishes, MovedElsewhere, vpButton
  <2> QED
    BY <2>1, <2>2, <2>3, <2>4
<1>2. CASE DetailAsked \/ DetailServed \/ VideoFetched
  BY <1>2 DEF DetailAsked, DetailServed, VideoFetched, vpButton
<1>3. CASE VideoFetchFails
  <2>1. vpOrphans' \in 0..VpMaxPosts
    BY <1>3 DEF VideoFetchFails, Unmounted
  <2> QED
    BY <1>3, <2>1 DEF VideoFetchFails, Unmounted
<1>4. CASE ClickReanalyze \/ AnalyzeAnswered
  BY <1>4 DEF ClickReanalyze, AnalyzeAnswered
<1>5. CASE AnalyzeAccepted
  <2>1. vpVideo' \in VpVideo /\ ~vpVideo'.claimed
    BY <1>5 DEF AnalyzeAccepted, VpVideo, FINAL, Queued
  <2>2. \/ vpPost = "sent" /\ vpPost' = "handled" /\ UNCHANGED vpOrphans
        \/ vpOrphans' \in 0..VpMaxPosts /\ vpOrphans' <= vpOrphans /\ UNCHANGED vpPost
    BY <1>5 DEF AnalyzeAccepted
  <2>3. UNCHANGED <<vpCurrent, vpDetail, vpFetch, vpPhase, vpPoll, vpMoves>>
    BY <1>5 DEF AnalyzeAccepted
  <2> QED
    BY <2>1, <2>2, <2>3
<1>6. CASE AnalyzeRefused
  <2>1. \/ vpPost = "sent" /\ vpPost' = "none" /\ vpPhase' = "idle" /\ UNCHANGED vpOrphans
        \/ vpOrphans' \in 0..VpMaxPosts /\ vpOrphans' <= vpOrphans /\ UNCHANGED <<vpPost, vpPhase>>
    BY <1>6 DEF AnalyzeRefused
  <2>2. UNCHANGED <<vpVideo, vpCurrent, vpDetail, vpFetch, vpPoll, vpMoves>>
    BY <1>6 DEF AnalyzeRefused
  <2> QED
    BY <2>1, <2>2
<1>7. CASE WatchStep
  BY <1>7 DEF WatchStep, WatchServed, WatchAnswered
<1>8. CASE VpSession \/ UNCHANGED vpVars
  BY <1>8 DEF VpSession, vpVars
<1> QED
  BY <1>1, <1>2, <1>3, <1>4, <1>5, <1>6, <1>7, <1>8 DEF VpNext, DetailStep

LEMMA DialogsTyped ==
  ASSUME DgTypeOK, [DgNext]_dgVars, SessionTypeOK', authed \in BOOLEAN
  PROVE  DgTypeOK'
<1> USE DialogsAssumption DEF DgTypeOK, Awaits, NoDgFetch, NoAdd, adVars
<1> DEFINE Fetches == [on : BOOLEAN, read : BOOLEAN, own : BOOLEAN, items : SUBSET DgTickers]
<1>0. NoDgFetch \in Fetches /\ [NoDgFetch EXCEPT !.on = TRUE] \in Fetches
  OBVIOUS
<1>1. CASE HoldingsRevalidate \/ ListHoldings \/ HoldingsFetched
  <2>1. dgShown' \in [items : SUBSET DgTickers, own : BOOLEAN]
    BY <1>1 DEF HoldingsRevalidate, ListHoldings, HoldingsFetched
  <2>2. dgFetch' \in Fetches
    <3>1. [on |-> TRUE, read |-> TRUE, own |-> TRUE, items |-> dgHeld] \in Fetches
      OBVIOUS
    <3>2. dgFetch' \in {NoDgFetch, [NoDgFetch EXCEPT !.on = TRUE],
                      [on |-> TRUE, read |-> TRUE, own |-> TRUE, items |-> dgHeld]}
      BY <1>1 DEF HoldingsRevalidate, ListHoldings, HoldingsFetched
    <3> HIDE DEF NoDgFetch, Fetches
    <3> QED
      BY <1>0, <3>1, <3>2
  <2>3. UNCHANGED <<dgHeld, dgAdd, dgRemove, dgUntold, adVars, dgCalls>>
    BY <1>1 DEF HoldingsRevalidate, ListHoldings, HoldingsFetched
  <2> QED
    BY <2>1, <2>2, <2>3
<1>2. CASE ClickAdd \/ ClickRemove
  BY <1>2 DEF ClickAdd, ClickRemove, Call
<1>3. CASE HoldingsAdded \/ HoldingRemoved
  BY <1>3 DEF HoldingsAdded, HoldingRemoved
<1>4. CASE ChangeAnswered
  BY <1>4 DEF ChangeAnswered, MutateHoldings
<1>5. CASE ChangeRefused \/ AnswerLost
  BY <1>5 DEF ChangeRefused, AnswerLost
<1>6. CASE RevalidateOwn \/ HoldingsAnnounced
  <2>1. dgAdd' \in [at : Awaits, of : SUBSET DgTickers]
    BY <1>6 DEF RevalidateOwn, HoldingsAnnounced
  <2>2. dgRemove' \in [DgTickers -> Awaits]
    BY <1>6 DEF RevalidateOwn, HoldingsAnnounced
  <2>3. dgUntold' \in BOOLEAN /\ UNCHANGED <<dgHeld, dgShown, dgFetch, adVars, dgCalls>>
    BY <1>6 DEF RevalidateOwn, HoldingsAnnounced
  <2> QED
    BY <2>1, <2>2, <2>3
<1>7. CASE OpenAddChannel \/ SubmitChannels \/ ChannelsAnnounced
  <2>1. adForm' \in [open : BOOLEAN, message : BOOLEAN]
    <3>1. CASE OpenAddChannel
      BY <3>1 DEF OpenAddChannel
    <3>2. CASE SubmitChannels
      BY <3>2 DEF SubmitChannels
    <3>3. CASE ChannelsAnnounced
      BY <3>3 DEF ChannelsAnnounced
    <3> QED
      BY <1>7, <3>1, <3>2, <3>3
  <2>2. adSubmit' \in Awaits \ {"own"} /\ adUntold' \in BOOLEAN /\ dgCalls' \in 0..DgMaxCalls
    <3>1. CASE OpenAddChannel
      BY <3>1 DEF OpenAddChannel
    <3>2. CASE SubmitChannels
      <4>1. dgCalls' \in 0..DgMaxCalls
        BY <3>2 DEF SubmitChannels, Call
      <4> QED
        BY <3>2, <4>1 DEF SubmitChannels
    <3>3. CASE ChannelsAnnounced
      BY <3>3 DEF ChannelsAnnounced
    <3> QED
      BY <1>7, <3>1, <3>2, <3>3
  <2>3. UNCHANGED <<dgHeld, dgShown, dgFetch, dgAdd, dgRemove, dgUntold>>
    BY <1>7 DEF OpenAddChannel, SubmitChannels, ChannelsAnnounced
  <2> QED
    BY <2>1, <2>2, <2>3
<1>8. CASE ChannelsPosted \/ ChannelsAnswered
  BY <1>8 DEF ChannelsPosted, ChannelsAnswered
<1>9. CASE DgSession \/ UNCHANGED dgVars
  <2>3. [dgFetch EXCEPT !.on = TRUE] \in Fetches /\ dgFetch \in Fetches
    OBVIOUS
  <2>1. dgFetch' \in Fetches
    BY <1>9, <2>3 DEF DgSession, dgVars
  <2>2. UNCHANGED <<dgHeld, dgShown, dgAdd, dgRemove, dgUntold, adVars, dgCalls>>
    BY <1>9 DEF DgSession, dgVars
  <2> QED
    BY <2>1, <2>2
<1> QED
  BY <1>1, <1>2, <1>3, <1>4, <1>5, <1>6, <1>7, <1>8, <1>9 DEF DgNext

\* A list without repetitions is no longer than what it lists is large.
LEMMA OnceIsShort ==
  ASSUME NEW S, IsFiniteSet(S), NEW list \in Seq(S), Once(list)
  PROVE  Len(list) \in 0..Cardinality(S)
<1>1. Len(list) \in Nat /\ Cardinality(1..Len(list)) = Len(list)
  <2>1. Len(list) \in Nat
    OBVIOUS
  <2>2. Cardinality(1..Len(list)) = IF 1 > Len(list) THEN 0 ELSE Len(list) - 1 + 1
    BY <2>1, FS_Interval
  <2> QED
    BY <2>1, <2>2
<1>2. list \in Injection(1..Len(list), S)
  BY DEF Once, Injection, IsInjective
<1> QED
  BY <1>1, <1>2, FS_Injection, FS_CardinalityType

\* The api lists an item once, and the pages that are being read tell a total there is.
Counted(pages) == \A i \in DOMAIN pages : pages[i].total \in 0..Cardinality(PgItems)
ListIsOnce == Once(pgSrv) /\ Counted(pgFlight.pages)

LEMMA ListedCount ==
  ASSUME PgInv, ListIsOnce
  PROVE  Len(Listed) \in 0..Cardinality(PgItems)
<1>1. pgSrv \in Seq(PgItems)
  BY DEF PgInv, PagesAreTyped
<1>2. Listed \in Seq(PgItems) /\ Once(Listed)
  <2>1. CASE pgNarrowed
    BY <1>1, <2>1, KeptIsThose DEF Listed, Under, ListIsOnce
  <2>2. CASE ~pgNarrowed
    BY <1>1, <2>2 DEF Listed, Under, ListIsOnce
  <2> QED
    BY <2>1, <2>2
<1> QED
  BY <1>2, OnceIsShort, PagedAssumption

LEMMA ListStaysOnce ==
  ASSUME PgInv, ListIsOnce, NEW own \in BOOLEAN, ListChanges(own)
  PROVE  Once(pgSrv')
<1>1. pgSrv \in Seq(PgItems) /\ Once(pgSrv)
  BY DEF PgInv, PagesAreTyped, ListIsOnce
<1>2. PICK x \in PgItems :
        \/ x \notin {pgSrv[i] : i \in DOMAIN pgSrv} /\ pgSrv' = <<x>> \o pgSrv
        \/ pgSrv' = Kept(pgSrv, {i \in DOMAIN pgSrv : pgSrv[i] # x})
  BY DEF ListChanges, Changed
<1>3. CASE x \notin {pgSrv[i] : i \in DOMAIN pgSrv} /\ pgSrv' = <<x>> \o pgSrv
  <2> DEFINE more == <<x>> \o pgSrv
  <2>1. /\ DOMAIN more = 1..(Len(pgSrv) + 1) /\ Len(pgSrv) \in Nat
        /\ DOMAIN pgSrv = 1..Len(pgSrv)
        /\ more[1] = x
        /\ \A i \in 2..(Len(pgSrv) + 1) : more[i] = pgSrv[i - 1]
    BY <1>1
  <2> HIDE DEF more
  <2>2. ASSUME NEW i \in DOMAIN more, NEW j \in DOMAIN more, more[i] = more[j]
        PROVE  i = j
    <3>1. \A k \in 2..(Len(pgSrv) + 1) : k - 1 \in DOMAIN pgSrv /\ more[k] # x
      BY <1>3, <2>1
    <3>2. CASE i = 1 \/ j = 1
      BY <2>1, <2>2, <3>1, <3>2
    <3>3. CASE i # 1 /\ j # 1
      <4>1. i \in 2..(Len(pgSrv) + 1) /\ j \in 2..(Len(pgSrv) + 1)
        BY <2>1, <3>3
      <4>2. pgSrv[i - 1] = pgSrv[j - 1] /\ i - 1 \in DOMAIN pgSrv /\ j - 1 \in DOMAIN pgSrv
        BY <2>1, <2>2, <3>1, <4>1
      <4>3. i - 1 = j - 1
        BY <1>1, <4>2 DEF Once
      <4> QED
        BY <4>1, <4>3
    <3> QED
      BY <3>2, <3>3
  <2> QED
    BY <1>3, <2>2 DEF Once, more
<1>4. CASE pgSrv' = Kept(pgSrv, {i \in DOMAIN pgSrv : pgSrv[i] # x})
  BY <1>1, <1>4, KeptIsThose
<1> QED
  BY <1>2, <1>3, <1>4

\* What is told of a page does not change when it is known to be older.
LEMMA OlderCount ==
  ASSUME NEW pages \in Seq(PgPage), NEW own \in BOOLEAN
  PROVE  /\ Len(Older(pages, own)) = Len(pages)
         /\ Counted(pages) => Counted(Older(pages, own))
<1>1. DOMAIN Older(pages, own) = DOMAIN pages
  BY DEF Older
<1>2. ASSUME NEW i \in DOMAIN pages
      PROVE  Older(pages, own)[i].total = pages[i].total
  <2>1. pages[i] \in PgPage
    OBVIOUS
  <2>2. Older(pages, own)[i] = [pages[i] EXCEPT !.seen = FALSE, !.own = @ /\ ~own]
    BY DEF Older
  <2> QED
    BY <2>1, <2>2 DEF PgPage
<1>3. Older(pages, own) \in Seq(PgPage)
  BY PagesOlder
<1> QED
  BY <1>1, <1>2, <1>3 DEF Counted

LEMMA ListTyped ==
  ASSUME PgTypeOK, PgInv, ListIsOnce, [PgNext]_pgVars
  PROVE  PgTypeOK' /\ ListIsOnce'
<1> USE PagedAssumption
<1>1. PgInv'
  BY PgStep
<1>2. /\ \A i \in DOMAIN pgSrv' : pgSrv'[i] \in PgItems
      /\ pgFlight'.on \in BOOLEAN /\ pgFlight'.all \in BOOLEAN
  BY <1>1 DEF PgInv, PagesAreTyped
<1>3. /\ pgPages \in Seq(PgPage) /\ pgFlight.pages \in Seq(PgPage)
      /\ pgFlight \in [on : BOOLEAN, all : BOOLEAN, pages : Seq(PgPage)]
  BY DEF PgInv, PagesAreTyped
<1>4. \A all : StartPages(all).pages = <<>>
  BY DEF StartPages
<1>5. Counted(<<>>) /\ Len(<<>>) = 0
  BY DEF Counted
<1>6. Counted(pgPages) /\ Counted(pgFlight.pages) /\ Counted(pgOther.pages) /\ Once(pgSrv)
  BY DEF PgTypeOK, Counted, ListIsOnce
\* what every step leaves to show
<1> DEFINE OtherTyped == /\ pgOther'.size \in 1..PgMaxSize /\ pgOther'.error \in BOOLEAN
                         /\ Counted(pgOther'.pages)
           Rest == /\ pgNarrowed' \in BOOLEAN /\ pgError' \in BOOLEAN /\ pgArmed' \in BOOLEAN
                   /\ pgKind' = pgKind /\ pgMoves' \in 0..PgMaxMoves
                   /\ pgOwn' \in {"none", "sent", "done", "failed"}
                   /\ pgSize' \in 1..PgMaxSize /\ Len(pgFlight'.pages) <= pgSize'
                   /\ Counted(pgPages') /\ Counted(pgFlight'.pages) /\ Once(pgSrv')
                   /\ OtherTyped
<1>17. pgOther' = pgOther => OtherTyped
  BY <1>6 DEF PgTypeOK
<1> HIDE DEF OtherTyped
<1>7. Rest => PgTypeOK' /\ ListIsOnce'
  BY <1>2 DEF OtherTyped, PgTypeOK, ListIsOnce, Counted
<1>8. CASE NextPage
  <2> DEFINE i == Len(pgFlight.pages) + 1
  <2>1. PICK p : /\ pgFlight' = [pgFlight EXCEPT !.pages = Append(@, p)]
                 /\ p = ReadPage(i) \/ (i <= Len(pgPages) /\ p = pgPages[i])
    BY <1>8 DEF NextPage
  <2>2. p.total \in 0..Cardinality(PgItems)
    <3>1. CASE p = ReadPage(i)
      <4>1. i \in Nat \ {0}
        BY <1>3
      <4> HIDE DEF i
      <4> QED
        BY <3>1, <4>1, ReadTyped, ListedCount DEF PgInv
    <3>2. CASE i <= Len(pgPages) /\ p = pgPages[i]
      BY <1>3, <1>6, <3>2 DEF Counted
    <3> QED
      BY <2>1, <3>1, <3>2
  <2>3. pgFlight'.pages = Append(pgFlight.pages, p)
    BY <1>3, <2>1
  <2>4. /\ Len(pgFlight'.pages) = i
        /\ \A k \in DOMAIN pgFlight'.pages : pgFlight'.pages[k] = IF k = i THEN p ELSE pgFlight.pages[k]
        /\ \A k \in DOMAIN pgFlight'.pages : k = i \/ k \in DOMAIN pgFlight.pages
    BY <1>3, <2>3
  <2>5. Counted(pgFlight'.pages)
    BY <1>6, <2>2, <2>4 DEF Counted
  <2> QED
    BY <1>6, <1>7, <1>8, <1>17, <2>4, <2>5 DEF NextPage, PgTypeOK, pgQuery
<1>9. CASE PagesShown
  <2>1. /\ pgNarrowed' \in BOOLEAN /\ pgError' \in BOOLEAN /\ pgArmed' \in BOOLEAN
        /\ pgKind' = pgKind /\ pgMoves' \in 0..PgMaxMoves
        /\ pgOwn' \in {"none", "sent", "done", "failed"} /\ OtherTyped
    BY <1>9, <1>17 DEF PagesShown, PgTypeOK, pgQuery
  <2>2. pgSize' \in 1..PgMaxSize /\ pgFlight'.pages = <<>> /\ pgPages' = pgFlight.pages
        /\ pgSrv' = pgSrv
    BY <1>9 DEF PagesShown, NoPgFlight, PgTypeOK
  <2>3. Len(pgFlight'.pages) <= pgSize' /\ Counted(pgPages') /\ Counted(pgFlight'.pages) /\ Once(pgSrv')
    BY <1>5, <1>6, <2>2
  <2> QED
    BY <1>7, <2>1, <2>2, <2>3
<1>10. CASE PagesFail
  <2>1. pgFlight'.pages = <<>>
    BY <1>10 DEF PagesFail, NoPgFlight
  <2> QED
    BY <1>5, <1>6, <1>7, <1>10, <1>17, <2>1 DEF PagesFail, PgTypeOK, pgQuery
<1>11. CASE PagesRevalidate \/ Announce
  <2>1. pgFlight'.pages = <<>> /\ pgOwn' \in {pgOwn, "done"}
    BY <1>4, <1>11 DEF PagesRevalidate, Announce
  <2> QED
    BY <1>5, <1>6, <1>7, <1>11, <1>17, <2>1 DEF PagesRevalidate, Announce, PgTypeOK, pgQuery
<1>12. CASE SentinelSeen \/ LoadMore
  <2>1. SetSize /\ pgArmed' \in BOOLEAN
    BY <1>12 DEF SentinelSeen, LoadMore, PgTypeOK
  <2>4. pgSize' \in 1..PgMaxSize
    BY <2>1 DEF SetSize, PgTypeOK
  <2>2. /\ pgFlight'.pages = <<>> /\ pgSize' \in 1..PgMaxSize
        /\ UNCHANGED <<pgKind, pgSrv, pgNarrowed, pgOther, pgPages, pgError, pgOwn, pgMoves>>
    BY <1>4, <2>1, <2>4 DEF SetSize, pgQuery
  <2>3. Len(pgFlight'.pages) <= pgSize' /\ Counted(pgPages') /\ Counted(pgFlight'.pages) /\ Once(pgSrv')
    BY <1>5, <1>6, <2>2
  <2> QED
    BY <1>7, <1>17, <2>1, <2>2, <2>3 DEF PgTypeOK
<1>13. CASE ScrollBack
  BY <1>6, <1>7, <1>13, <1>17 DEF ScrollBack, PgTypeOK, pgQuery
<1>14. CASE FeedFilterBar \/ TrendingFilters \/ VideosFilter
  <2>1. SetQuery
    BY <1>14 DEF FeedFilterBar, TrendingFilters, VideosFilter
  <2>2. /\ pgNarrowed' = ~pgNarrowed /\ pgError' = pgOther.error /\ pgArmed' = TRUE
        /\ pgOther' = [pages |-> pgPages, size |-> pgSize, all |-> pgFlight.all, error |-> pgError]
        /\ pgPages' \in {pgOther.pages, FirstOf(pgOther.pages)}
        /\ pgSize' \in {1, pgOther.size}
        /\ UNCHANGED <<pgKind, pgSrv, pgOwn>>
    BY <2>1 DEF SetQuery
  <2>3. pgFlight'.pages = <<>>
    BY <1>4, <2>1 DEF SetQuery, NoPgFlight
  <2>4. pgSize' \in 1..PgMaxSize
    BY <2>2 DEF PgTypeOK
  <2>5. Len(pgFlight'.pages) <= pgSize' /\ Counted(pgFlight'.pages) /\ Once(pgSrv')
    BY <1>5, <1>6, <2>2, <2>3, <2>4
  <2>6. Counted(pgPages')
    <3>1. pgOther.pages \in Seq(PgPage)
      BY DEF PgInv, PagesAreTyped
    <3>2. CASE pgOther.pages = <<>>
      BY <1>6, <2>2, <3>2 DEF FirstOf
    <3>3. CASE pgOther.pages # <<>>
      <4>1. 1 \in DOMAIN pgOther.pages
        BY <3>1, <3>3
      <4>2. pgOther.pages[1].total \in 0..Cardinality(PgItems)
        BY <1>6, <4>1 DEF Counted
      <4>3. Counted(<<pgOther.pages[1]>>)
        BY <4>2 DEF Counted
      <4> QED
        BY <1>6, <2>2, <3>3, <4>3 DEF FirstOf
    <3> QED
      BY <3>2, <3>3
  <2>7. OtherTyped
    BY <1>6, <2>2 DEF OtherTyped, PgTypeOK
  <2>8. pgMoves' \in 0..PgMaxMoves
    BY <2>1 DEF SetQuery, SpendPgMove, PgTypeOK
  <2> QED
    BY <1>7, <2>2, <2>4, <2>5, <2>6, <2>7, <2>8 DEF PgTypeOK
<1>15. CASE ElsewhereChanged \/ OwnChange
  <2>1. PICK own \in BOOLEAN : ListChanges(own)
    BY <1>15 DEF ElsewhereChanged, OwnChange
  <2>2. PICK list : Changed(list, own)
    BY <2>1 DEF ListChanges
  <2>3. pgFlight'.pages = Older(pgFlight.pages, own) /\ pgPages' = Older(pgPages, own)
    BY <1>3, <2>2 DEF Changed
  <2>4. /\ Len(pgFlight'.pages) = Len(pgFlight.pages)
        /\ Counted(pgPages') /\ Counted(pgFlight'.pages)
    BY <1>3, <1>6, <2>3, OlderCount
  <2>5. Once(pgSrv')
    BY <2>1, ListStaysOnce
  <2>6. pgOwn' \in {pgOwn, "sent"}
    BY <1>15 DEF ElsewhereChanged, OwnChange
  <2>7. OtherTyped
    <3>1. pgOther.pages \in Seq(PgPage)
      BY DEF PgInv, PagesAreTyped
    <3>2. /\ pgOther'.pages = Older(pgOther.pages, own)
          /\ pgOther'.size = pgOther.size /\ pgOther'.error = pgOther.error
      BY <2>2 DEF Changed, PgInv, PagesAreTyped
    <3> QED
      BY <1>6, <3>1, <3>2, OlderCount DEF OtherTyped, PgTypeOK
  <2>8. pgMoves' \in 0..PgMaxMoves
    BY <2>2 DEF Changed, SpendPgMove, PgTypeOK
  <2> QED
    BY <1>7, <2>2, <2>4, <2>5, <2>6, <2>7, <2>8 DEF Changed, PgTypeOK
<1>16. CASE UNCHANGED pgVars
  BY <1>6, <1>7, <1>16, <1>17 DEF pgVars, PgTypeOK
<1> QED
  BY <1>8, <1>9, <1>10, <1>11, <1>12, <1>13, <1>14, <1>15, <1>16 DEF PgNext

LEMMA RankedAreTickers ==
  ASSUME NEW n \in DOMAIN TcWorlds
  PROVE  RankedIn(n) \subseteq Tickers
  BY DEF RankedIn, Tickers

\* Who has a line is ranked and has a slot.
LinesFit == \A line \in tcChart.lines : line.ticker \in Tickers /\ line.slot \in 1..TcSlotCount

LEMMA LinesTyped == ChartIsBuilt /\ AnswerIsRanked => LinesFit
<1> SUFFICES ASSUME ChartIsBuilt, AnswerIsRanked
             PROVE  \A line \in tcChart.lines : line.ticker \in Tickers /\ line.slot \in 1..TcSlotCount
  BY DEF LinesFit
<1>1. CASE tcChart = NoChart
  BY <1>1 DEF NoChart
<1>2. CASE tcData.loaded /\ tcChart.lines = Lines(tcView, tcData, effectiveSlots)
  <2> SUFFICES ASSUME NEW line \in Lines(tcView, tcData, effectiveSlots)
               PROVE  line.ticker \in Tickers /\ line.slot \in 1..TcSlotCount
    BY <1>2
  <2> DEFINE first(t) == CHOOSE i \in SlotOf(effectiveSlots, t) : TRUE
  <2>1. PICK t \in SelectedIn(effectiveSlots) :
          /\ Drawable(tcView, tcData, t)
          /\ \E s \in SegmentsIn[tcView][tcData.world][t][WindowStart(tcData)] :
               line = [ticker |-> t, slot |-> first(t), view |-> tcView,
                       from |-> s.run.from, state |-> s.run.state]
    BY Zenon DEF Lines
  <2> HIDE DEF first
  <2>2. PICK from, state : line = [ticker |-> t, slot |-> first(t), view |-> tcView,
                                   from |-> from, state |-> state]
    BY <2>1, Zenon
  <2>3. line.ticker = t /\ line.slot = first(t)
    BY <2>2
  <2>4. SlotOf(effectiveSlots, t) # {}
    BY DEF SelectedIn, SlotOf
  <2>5. first(t) \in SlotOf(effectiveSlots, t)
    BY <2>4, Zenon DEF first
  <2>6. Has(tcData, t)
    BY <2>1 DEF Drawable
  <2>7. t \in RankedIn(tcData.world) /\ tcData.world \in DOMAIN TcWorlds
    <3>1. tcData.tickers \in Seq(RankedIn(tcData.world)) /\ tcData.world \in DOMAIN TcWorlds
      BY <1>2 DEF AnswerIsRanked
    <3>2. PICK i \in DOMAIN tcData.tickers : tcData.tickers[i] = t
      BY <2>6 DEF Has
    <3> QED
      BY <3>1, <3>2
  <2> QED
    BY <2>3, <2>5, <2>7, RankedAreTickers DEF SlotOf
<1> QED
  BY <1>1, <1>2 DEF ChartIsBuilt, Build

\* An answer has no more tickers than there are colours.
LEMMA SelectionIsShort ==
  ASSUME NEW n \in DOMAIN TcWorlds, NEW requested
  PROVE  Len(ResolveSelection(n, requested)) <= TcSlotCount
<1> DEFINE ranked == TcWorlds[n].rank
           wanted == Kept(ranked, {i \in DOMAIN ranked : ranked[i] \in requested})
<1>1. ranked \in Seq(RankedIn(n))
  BY ChartAssumption DEF RankedIn
<1> HIDE DEF ranked
<1>2. wanted \in Seq(RankedIn(n))
  BY <1>1, KeptIsThose
<1> HIDE DEF wanted
<1>3. ResolveSelection(n, requested) =
        IF wanted # <<>> THEN SubSeq(wanted, 1, IF Len(wanted) < TcSlotCount THEN Len(wanted) ELSE TcSlotCount)
        ELSE SubSeq(ranked, 1, IF Len(ranked) < TcDefaultN THEN Len(ranked) ELSE TcDefaultN)
  BY Zenon DEF ResolveSelection, ranked, wanted
<1>4. ASSUME NEW s \in Seq(RankedIn(n)), NEW most \in 0..TcSlotCount
      PROVE  Len(SubSeq(s, 1, IF Len(s) < most THEN Len(s) ELSE most)) <= TcSlotCount
  <2>1. most \in Nat /\ TcSlotCount \in Nat
    BY ChartAssumption
  <2>2. CASE Len(s) < most
    BY <2>1, <2>2
  <2>3. CASE ~(Len(s) < most)
    BY <2>1, <2>3
  <2> QED
    BY <2>2, <2>3
<1>5. TcSlotCount \in 0..TcSlotCount /\ TcDefaultN \in 0..TcSlotCount
  BY ChartAssumption
<1> QED
  BY <1>1, <1>2, <1>3, <1>4, <1>5

\* What is in the slots, and what a click may put there, are tickers.
LEMMA SlotsTyped ==
  ASSUME TcTypeOK, AnswerIsRanked, tcData.loaded
  PROVE  /\ effectiveSlots \in [1..TcSlotCount -> Tickers \cup {NoTicker}]
         /\ PickerTickers \cup LiveChips \subseteq Tickers
<1>1. tcData.world \in DOMAIN TcWorlds /\ tcData.tickers \in Seq(RankedIn(tcData.world))
  BY DEF AnswerIsRanked
<1>2. effectiveSlots \in [1..TcSlotCount -> Tickers \cup {NoTicker}]
  <2>1. CASE tcSlots.touched
    BY <2>1 DEF TcTypeOK, Untouched, effectiveSlots, EffectiveSlots
  <2>2. CASE ~tcSlots.touched
    <3>1. \A i \in 1..TcSlotCount : i <= Len(tcData.tickers) => tcData.tickers[i] \in Tickers
      BY <1>1, RankedAreTickers
    <3> QED
      BY <2>2, <3>1 DEF effectiveSlots, EffectiveSlots
  <2> QED
    BY <2>1, <2>2
<1>3. selected \subseteq Tickers
  BY <1>2 DEF selected, SelectedIn
<1>4. PickerTickers \subseteq RankedIn(tcData.world)
  BY DEF PickerTickers, RankedIn
<1> QED
  BY <1>1, <1>2, <1>3, <1>4, RankedAreTickers DEF LiveChips

LEMMA ChartTyped ==
  ASSUME TcTypeOK, AnswerIsRanked, ChartIsBuilt, [TcNext]_tcVars
  PROVE  TcTypeOK'
<1> USE ChartAssumption
<1>1. \A line \in tcChart'.lines : line.ticker \in Tickers /\ line.slot \in 1..TcSlotCount
  <2>1. ChartIsBuilt' /\ AnswerIsRanked'
    BY BuiltStep, RankedStep
  <2>2. ChartIsBuilt' /\ AnswerIsRanked' => LinesFit'
    BY LinesTyped, PTL
  <2> QED
    BY <2>1, <2>2 DEF LinesFit
<1>2. Flush => tcReported' \in {tcReported, "empty", "drawn"} /\ tcShowTable' \in BOOLEAN
  BY DEF Flush, Notify, TcTypeOK
<1> DEFINE DataTyped(data) == /\ data.loaded \in BOOLEAN /\ data.range \in Ranges
                              /\ data.world \in DOMAIN TcWorlds /\ Len(data.tickers) <= TcSlotCount
<1>11. \A range \in Ranges : \A slots : ShowKey(range, slots) => DataTyped(tcData')
  <2> SUFFICES ASSUME NEW range \in Ranges, NEW slots, ShowKey(range, slots)
               PROVE  DataTyped(tcData')
    OBVIOUS
  <2>1. CASE tcData' = tcData
    BY <2>1 DEF TcTypeOK
  <2>2. ASSUME NEW n \in DOMAIN TcWorlds, tcData' = Answer(n, range, Requested(slots))
        PROVE  DataTyped(tcData')
    <3>1. /\ tcData'.loaded = TRUE /\ tcData'.range = range /\ tcData'.world = n
          /\ tcData'.tickers = ResolveSelection(n, Requested(slots))
      BY <2>2 DEF Answer
    <3> QED
      BY <3>1, SelectionIsShort
  <2> QED
    BY <2>1, <2>2 DEF ShowKey
<1>3. CASE TrackRecordFetched
  <2>1. /\ tcData'.loaded = TRUE /\ tcData'.range = tcRange /\ tcData'.world = tcWorld
        /\ tcData'.tickers = ResolveSelection(tcWorld, Requested(tcSlots))
    BY <1>3 DEF TrackRecordFetched, Answer
  <2>2. tcData'.world \in DOMAIN TcWorlds /\ tcData'.range \in Ranges /\ Len(tcData'.tickers) <= TcSlotCount
    BY <2>1, SelectionIsShort DEF TcTypeOK
  <2> QED
    BY <1>1, <1>2, <1>3, <2>1, <2>2 DEF TrackRecordFetched, TcTypeOK, tcState
<1>4. CASE TrackRecordFails \/ TrackRecordRevalidates \/ WorldChanges
  <2>1. tcWorld' \in DOMAIN TcWorlds /\ tcMoves' \in 0..TcMaxMoves /\ tcFlight' \in BOOLEAN
    <3>1. CASE TrackRecordFails \/ TrackRecordRevalidates
      BY <3>1 DEF TrackRecordFails, TrackRecordRevalidates, TcTypeOK
    <3>2. CASE WorldChanges
      BY <3>2 DEF WorldChanges, TcTypeOK
    <3> QED
      BY <1>4, <3>1, <3>2
  <2>2. UNCHANGED <<tcTab, tcShowTable, tcState, tcDark, tcData, tcReported>>
    BY <1>4 DEF TrackRecordFails, TrackRecordRevalidates, WorldChanges
  <2> QED
    BY <1>1, <2>1, <2>2 DEF TcTypeOK, tcState
<1>5. CASE SetRange \/ SetView
  <2>1. CASE SetRange
    <3>1. DataTyped(tcData') /\ tcRange' \in Ranges
      BY <1>11, <2>1 DEF SetRange
    <3> QED
      BY <1>1, <1>2, <2>1, <3>1 DEF SetRange, TcTypeOK
  <2>2. CASE SetView
    BY <1>1, <1>2, <2>2 DEF SetView, TcTypeOK
  <2> QED
    BY <1>5, <2>1, <2>2
<1>6. CASE SetLogScale \/ SetTheme
  <2>1. tcLog' \in BOOLEAN /\ tcDark' \in BOOLEAN
    BY <1>6, Zenon DEF SetLogScale, SetTheme, TcTypeOK, tcState
  <2>2. tcMoves' \in 0..TcMaxMoves /\ Flush
    BY <1>6 DEF SetLogScale, SetTheme, TcTypeOK
  <2>3. UNCHANGED <<tcWorld, tcTab, tcRange, tcSlots, tcView, tcData, tcFlight>>
    BY <1>6 DEF SetLogScale, SetTheme, tcState
  <2> QED
    BY <1>1, <1>2, <2>1, <2>2, <2>3 DEF TcTypeOK
<1>7. CASE ClickTicker
  <2>1. PICK ticker \in PickerTickers \cup LiveChips : ToggleTicker(ticker)
    BY <1>7 DEF ClickTicker
  <2>2. /\ effectiveSlots \in [1..TcSlotCount -> Tickers \cup {NoTicker}]
        /\ ticker \in Tickers
    BY <2>1, SlotsTyped DEF ToggleTicker
  <2>3. Toggled(effectiveSlots, ticker) \in [1..TcSlotCount -> Tickers \cup {NoTicker}]
    BY <2>2 DEF Toggled, Remove
  <2>4. tcSlots'.touched = TRUE /\ tcSlots'.at \in [1..TcSlotCount -> Tickers \cup {NoTicker}]
    BY <2>1, <2>3 DEF ToggleTicker
  <2>5. DataTyped(tcData')
    BY <1>11, <2>1 DEF ToggleTicker, TcTypeOK
  <2> QED
    BY <1>1, <1>2, <2>1, <2>4, <2>5 DEF ToggleTicker, TcTypeOK
<1>8. CASE ClickShowTable \/ ShowTab
  <2>1. CASE ClickShowTable
    BY <1>1, <2>1 DEF ClickShowTable, TcTypeOK, tcState
  <2>2. CASE ShowTab
    <3>1. DataTyped(tcData')
      BY <1>11, <2>2 DEF ShowTab, TcTypeOK
    <3> QED
      BY <1>1, <1>2, <2>2, <3>1 DEF ShowTab, TcTypeOK, tcState
  <2> QED
    BY <1>8, <2>1, <2>2
<1>9. CASE LeaveTab
  <2>1. /\ tcData'.loaded = FALSE /\ tcData'.range \in Ranges /\ tcData'.world \in DOMAIN TcWorlds
        /\ Len(tcData'.tickers) <= TcSlotCount
    BY <1>9 DEF LeaveTab, NoData, Ranges
  <2>2. tcRange' \in Ranges /\ tcView' \in Views /\ tcSlots' = Untouched /\ tcLog' = FALSE
    BY <1>9 DEF LeaveTab, Ranges, Views
  <2>3. /\ tcTab' = FALSE /\ tcFlight' = FALSE /\ tcReported' = "none"
        /\ UNCHANGED <<tcWorld, tcMoves, tcShowTable, tcDark>>
    BY <1>9 DEF LeaveTab
  <2> QED
    BY <1>1, <2>1, <2>2, <2>3 DEF TcTypeOK
<1>10. CASE UNCHANGED tcVars
  BY <1>10 DEF tcVars, tcState, TcTypeOK
<1> QED
  BY <1>3, <1>4, <1>5, <1>6, <1>7, <1>8, <1>9, <1>10 DEF TcNext

\* What the price chart shows is on its bars.
OnItsBars ==
  /\ spChart.on => spChart.range = spRange /\ spCandles[spRange] > 0
  /\ DOMAIN spChart.histogram \subseteq BarsIn(spRange, spCandles)
  /\ spChart.earnings \subseteq BarsIn(spRange, spCandles)

LEMMA PriceChartTyped == SpInv => OnItsBars
<1> SUFFICES ASSUME SpInv
             PROVE  OnItsBars
  OBVIOUS
<1> USE DEF OnItsBars
<1>1. CASE spChart = NoPriceChart
  BY <1>1 DEF NoPriceChart, NoStances
<1>2. CASE spChart = PriceChartNow /\ BarsIn(spRange, spCandles) # {}
  <2> DEFINE Snapped(day) == SnapToTradingDay(day, spDays)
  <2>1. spDays \in SUBSET (Nat \ {NoDate}) /\ IsFiniteSet(spDays) /\ spDays \subseteq BarsIn(spRange, spCandles)
    <3>1. /\ BarsIn(spRange, spCandles) \subseteq Nat \ {NoDate}
          /\ IsFiniteSet(BarsIn(spRange, spCandles))
      BY BarsAreDays DEF SpInv
    <3> QED
      BY <3>1, FS_EmptySet DEF spDays, TradingDays
  <2>2. \A day \in Nat : Snapped(day) # NoDate => Snapped(day) \in spDays
    BY <2>1, SnappedDay
  <2>3. DOMAIN BuildStanceHistogram(spFiltered, spDays) \subseteq spDays
    <3>1. spFiltered \in Seq(SpRow)
      <4>1. RowsOfAnswer(spRows) \in Seq(SpRow)
        BY AnswerOfRows DEF SpInv
      <4> QED
        BY <4>1, FilteredRows DEF spFiltered
    <3>2. \A i \in DOMAIN spFiltered : spFiltered[i].day \in Nat
      <4>1. \A row \in SpRow : row.day \in Nat
        BY DEF SpRow
      <4> QED
        BY <3>1, <4>1
    <3>3. DOMAIN BuildStanceHistogram(spFiltered, spDays) =
            {Snapped(spFiltered[i].day) : i \in DOMAIN spFiltered} \ {NoDate}
      BY DEF BuildStanceHistogram
    <3> HIDE DEF Snapped
    <3> QED
      BY <2>2, <3>2, <3>3
  <2>4. BuildEarningsMarkerTimes(SpEarnings, spDays) \subseteq spDays
    <3>1. BuildEarningsMarkerTimes(SpEarnings, spDays) \subseteq
            {Snapped(d) : d \in {e \in SpEarnings : Snapped(e) # NoDate}}
      BY DEF BuildEarningsMarkerTimes
    <3> HIDE DEF Snapped
    <3> QED
      BY <2>2, <3>1, StockAssumption
  <2>5. spChart.histogram \in {BuildStanceHistogram(spFiltered, spDays), NoStances}
        /\ spChart.earnings \in {BuildEarningsMarkerTimes(SpEarnings, spDays), {}}
        /\ spChart.range = spRange
    BY <1>2 DEF PriceChartNow
  <2>6. DOMAIN NoStances = {} /\ spCandles[spRange] > 0
    BY <1>2 DEF NoStances, BarsIn, SpInv, CandlesKnown
  <2> QED
    BY <2>1, <2>3, <2>4, <2>5, <2>6
<1> QED
  BY <1>1, <1>2 DEF SpInv

LEMMA StockTyped ==
  ASSUME SpTypeOK, SpInv, [SpNext]_spVars
  PROVE  SpTypeOK'
<1>1. /\ spChart'.on => spChart'.range = spRange' /\ spCandles'[spRange'] > 0
      /\ DOMAIN spChart'.histogram \subseteq BarsIn(spRange', spCandles')
      /\ spChart'.earnings \subseteq BarsIn(spRange', spCandles')
      /\ spRange' \in SpRanges /\ spRows' \in 0..Len(SpStances)
  <2>1. SpInv'
    BY SpStep
  <2>2. SpInv' => OnItsBars'
    BY PriceChartTyped, PTL
  <2> QED
    BY <2>1, <2>2 DEF SpInv, OnItsBars
<1>2. CASE (\E range \in SpRanges : CandlesFetched(range)) \/ StancesFetched \/ EarningsFetched
  <2>1. spLate' \subseteq SpRanges
    BY <1>2 DEF CandlesFetched, StancesFetched, EarningsFetched, SpTypeOK
  <2>2. CASE \E range \in SpRanges : CandlesFetched(range)
    <3> PICK range \in SpRanges : CandlesFetched(range)
      BY <2>2
    <3>1. PICK answer \in spCandles[range]..Len(SpBars[range]) \ {0} :
            spCandles' = [spCandles EXCEPT ![range] = answer]
      BY DEF CandlesFetched
    <3>2. Len(SpBars[range]) \in Nat /\ spCandles[range] \in Nat
      BY StockAssumption DEF SpTypeOK
    <3>3. answer \in Nat /\ answer <= Len(SpBars[range])
      BY <3>1, <3>2
    <3>4. spCandles' \in [SpRanges -> Nat]
      BY <3>1, <3>3 DEF SpTypeOK
    <3>5. \A r \in SpRanges : spCandles'[r] <= Len(SpBars[r])
      BY <3>1, <3>3 DEF SpTypeOK
    <3>6. UNCHANGED <<spRange, spStance, spTable, spEarned>>
      BY DEF CandlesFetched, spState
    <3> QED
      BY <1>1, <2>1, <3>4, <3>5, <3>6 DEF SpTypeOK
  <2>3. CASE StancesFetched \/ EarningsFetched
    BY <1>1, <2>1, <2>3 DEF StancesFetched, EarningsFetched, SpTypeOK, spState
  <2> QED
    BY <1>2, <2>2, <2>3
<1>3. CASE MentionsFetched
  <2>1. Len(SpMentions) \in Nat
    BY StockAssumption
  <2>2. spTable' \in [answer : 0..Len(SpMentions), error : BOOLEAN]
    <3>1. spTable.answer \in Nat
      BY <2>1 DEF SpTypeOK
    <3>2. \A n \in spTable.answer..Len(SpMentions) \ {0} : n \in 0..Len(SpMentions)
      BY <2>1, <3>1
    <3>3. [spTable EXCEPT !.error = TRUE] \in [answer : 0..Len(SpMentions), error : BOOLEAN]
      BY DEF SpTypeOK
    <3> QED
      BY <1>3, <3>2, <3>3 DEF MentionsFetched
  <2> QED
    BY <1>1, <1>3, <2>2 DEF MentionsFetched, SpTypeOK, spState
<1>4. CASE SelectRange \/ FilterStance \/ FilterChannel \/ HoverRow
  <2>1. spLate' \subseteq SpRanges
    BY <1>4 DEF SelectRange, FilterStance, FilterChannel, HoverRow, SpTypeOK, spFetched
  <2> QED
    BY <1>1, <1>4, <2>1 DEF SelectRange, FilterStance, FilterChannel, HoverRow, SpTypeOK, spFetched
<1>5. CASE ClickBar \/ UNCHANGED spVars
  BY <1>1, <1>5 DEF ClickBar, SpTypeOK, spVars, spState, spFetched
<1> QED
  BY <1>2, <1>3, <1>4, <1>5 DEF SpNext

-----------------------------------------------------------------------------
(* The site *)

\* Whose turn it is: the steps of a page that is not looked at are not taken.
LEMMA PageSteps ==
  ASSUME [SiteNext]_siteVars
  PROVE  /\ page' = page
         /\ [page = "channel" /\ ChNext]_chVars
         /\ [page = "inbox" /\ InNext]_inVars
         /\ [page = "dialogs" /\ DgNext]_dgVars
         /\ [RbNext]_rbVars /\ [PvNext]_pvVars /\ [VpNext]_vpVars
         /\ [PgNext]_pgVars /\ [TcNext]_tcVars /\ [SpNext]_spVars
         /\ trInput' = trInput
<1>1. CASE SessionPage \/ RefreshPage \/ PipelinePage \/ VideoDetail \/ StockDetail
  BY <1>1 DEF SessionPage, RefreshPage, PipelinePage, VideoDetail, StockDetail
<1>2. CASE ChannelDetail \/ Inbox \/ DialogSteps \/ ListSteps \/ ChartSteps
  BY <1>2 DEF ChannelDetail, Inbox, DialogSteps, ListSteps, ChartSteps
<1>3. CASE UNCHANGED siteVars
  BY <1>3 DEF siteVars
<1> QED
  BY <1>1, <1>2, <1>3 DEF SiteNext

\* The session, whichever page is open.
SessionIsTyped == SessionTypeOK /\ (page = "session" => AdminTypeOK)

LEMMA SiteSessionStep ==
  ASSUME SessionIsTyped, [SiteNext]_siteVars
  PROVE  [SessionNext]_sessionVars
<1>1. SessionTypeOK
  BY DEF SessionIsTyped
<1>2. CASE SessionPage
  BY <1>2, ProviderStep DEF SessionPage, SessionIsTyped
<1>3. CASE RefreshPage
  BY <1>1, <1>3, RefreshKeepsSession DEF RefreshPage
<1>4. CASE ChannelDetail
  BY <1>1, <1>4, ChannelKeepsSession DEF ChannelDetail
<1>5. CASE Inbox
  BY <1>1, <1>5, InboxKeepsSession DEF Inbox
<1>6. CASE PipelinePage
  BY <1>1, <1>6, PipelineKeepsSession DEF PipelinePage
<1>7. CASE VideoDetail
  BY <1>1, <1>7, VideoKeepsSession DEF VideoDetail
<1>8. CASE DialogSteps
  BY <1>1, <1>8, DialogsKeepSession DEF DialogSteps
<1>9. CASE ListSteps \/ ChartSteps \/ StockDetail \/ UNCHANGED siteVars
  BY <1>9 DEF ListSteps, ChartSteps, StockDetail, siteVars, sessionVars
<1> QED
  BY <1>2, <1>3, <1>4, <1>5, <1>6, <1>7, <1>8, <1>9 DEF SiteNext

LEMMA SessionStaysTyped ==
  ASSUME SessionIsTyped, [SiteNext]_siteVars
  PROVE  SessionIsTyped'
<1>1. SessionTypeOK'
  BY SiteSessionStep, SessionTyped DEF SessionIsTyped
<1>2. page' = page
  BY PageSteps
<1>3. CASE page = "session"
  <2>1. [AdminNext]_asVars
    BY <1>3 DEF SiteNext, SessionPage, RefreshPage, ChannelDetail, Inbox, PipelinePage,
       VideoDetail, DialogSteps, ListSteps, ChartSteps, StockDetail, siteVars, asVars
  <2> QED
    BY <1>1, <1>2, <1>3, <2>1, AdminStep DEF SessionIsTyped
<1> QED
  BY <1>1, <1>2, <1>3 DEF SessionIsTyped

LEMMA SessionStartsTyped ==
  ASSUME SiteInit
  PROVE  SessionIsTyped
<1>1. CASE page = "session"
  BY <1>1, AdminInitially DEF SiteInit, SessionIsTyped, AdminTypeOK
<1>2. CASE page # "session"
  <2>1. cookie \in BOOLEAN /\ authed = cookie
    BY <1>2, Zenon DEF SiteInit, SessionInit
  <2> QED
    BY <1>2, <2>1 DEF SessionIsTyped, SessionTypeOK
<1> QED
  BY <1>1, <1>2

\* No page does to the session what Session does not say: for any bounds, the belief
\* rises only with the cookie, whichever page is open and whatever it asks of the api.
THEOREM EveryPageKeepsTheSession == SiteSpec => ImplementsSession
  BY SessionStartsTyped, SessionStaysTyped, SiteSessionStep, PTL DEF SiteSpec, ImplementsSession
-----------------------------------------------------------------------------
(* What the pages promise, as pages of the site *)

\* A page that is not looked at has promised nothing that it could break.
PagesAreSound ==
  /\ ChInv /\ PgInv
  /\ NeverSkipsUnseen /\ (page = "inbox" => InInv)
  /\ IF page = "dialogs" THEN DgInv ELSE dgShown.own /\ ~dgUntold /\ ~adUntold

LEMMA PagesStartSound ==
  ASSUME SiteInit
  PROVE  PagesAreSound
<1>1. ChInv /\ PgInv
  BY ChInitially, PgInitially DEF SiteInit
<1>2. NeverSkipsUnseen
  BY DEF SiteInit, InInit, NeverSkipsUnseen, InNoRequest
<1>3. page = "inbox" => InInv
  BY InInitially DEF SiteInit
<1>4. IF page = "dialogs" THEN DgInv ELSE dgShown.own /\ ~dgUntold /\ ~adUntold
  BY DgInitially DEF SiteInit, DgInit
<1> QED
  BY <1>1, <1>2, <1>3, <1>4 DEF PagesAreSound

LEMMA PagesStaySound ==
  ASSUME PagesAreSound, [SiteNext]_siteVars
  PROVE  PagesAreSound'
<1> USE PageSteps
<1>1. ChInv'
  BY ChStep DEF PagesAreSound
<1>2. PgInv'
  BY PgStep DEF PagesAreSound
<1>3. NeverSkipsUnseen' /\ (page' = "inbox" => InInv')
  <2>1. CASE page = "inbox"
    <3>1. [InNext]_<<inVars, cookie, authed>>
      BY <2>1 DEF SiteNext, SessionPage, RefreshPage, ChannelDetail, Inbox, PipelinePage,
         VideoDetail, DialogSteps, ListSteps, ChartSteps, StockDetail, siteVars
    <3> QED
      BY <2>1, <3>1, InStep DEF PagesAreSound, InInv
  <2>2. CASE page # "inbox"
    BY <2>2 DEF PagesAreSound, NeverSkipsUnseen, inVars
  <2> QED
    BY <2>1, <2>2
<1>4. IF page' = "dialogs" THEN DgInv' ELSE dgShown'.own /\ ~dgUntold' /\ ~adUntold'
  <2>1. CASE page = "dialogs"
    <3>1. [DgNext]_<<dgVars, cookie, authed>>
      BY <2>1 DEF SiteNext, SessionPage, RefreshPage, ChannelDetail, Inbox, PipelinePage,
         VideoDetail, DialogSteps, ListSteps, ChartSteps, StockDetail, siteVars
    <3> QED
      BY <2>1, <3>1, DgStep DEF PagesAreSound
  <2>2. CASE page # "dialogs"
    BY <2>2 DEF PagesAreSound, dgVars
  <2> QED
    BY <2>1, <2>2
<1> QED
  BY <1>1, <1>2, <1>3, <1>4 DEF PagesAreSound

\* A channel's page shows its own writes on every page of the list they were made under,
\* and of lists first read since, for any rows, filters, pages and number of requests.
THEOREM ChannelPageShowsItsWrites == SiteSpec => []OwnWriteShows
<1>1. PagesAreSound => OwnWriteShows
  BY OldOnesAreNamed DEF PagesAreSound
<1> QED
  BY <1>1, PagesStartSound, PagesStaySound, PTL DEF SiteSpec

\* The inbox skips nothing unseen, for any videos, groups and number of submissions.
THEOREM InboxSkipsNothingUnseen == SiteSpec => []NeverSkipsUnseen
<1>1. PagesAreSound => NeverSkipsUnseen
  BY DEF PagesAreSound
<1> QED
  BY <1>1, PagesStartSound, PagesStaySound, PTL DEF SiteSpec

\* What a component announced is shown by the overview and told by the dialogs, for any
\* lists, tickers, page size and number of requests.
THEOREM AnnouncedChangesShow == SiteSpec => []OwnChangesShow
<1>1. PagesAreSound => OwnChangesShow
  <2> SUFFICES ASSUME PagesAreSound
               PROVE  OwnChangesShow
    OBVIOUS
  <2>1. OwnChangeShows
    BY DEF PagesAreSound, PgInv, MutateReadsAll, AllOwn, OwnChangeShows
  <2>2. ChangesAreTold
    <3>1. CASE page = "dialogs"
      BY <3>1 DEF PagesAreSound, DgInv, DgShapes, AwaitsAreSound, ChangesAreTold
    <3>2. CASE page # "dialogs"
      BY <3>2 DEF PagesAreSound, ChangesAreTold
    <3> QED
      BY <3>1, <3>2
  <2> QED
    BY <2>1, <2>2 DEF OwnChangesShow
<1> QED
  BY <1>1, PagesStartSound, PagesStaySound, PTL DEF SiteSpec

\* A list of the site that offers no more has shown everything, for any lists, page size
\* and filters.
THEOREM ListsEndWithEverything == SiteSpec => []ListsEverything
<1>1. PagesAreSound => ListsEverything
  BY EndIsTheEnd DEF PagesAreSound
<1> QED
  BY <1>1, PagesStartSound, PagesStaySound, PTL DEF SiteSpec

\* A ticker keeps its colour, for any number of slots.
THEOREM ChartKeepsColours == SiteSpec => ColoursAreStable
<1>1. SiteInit => SlotsAreSlots
  BY TcInitially DEF SiteInit
<1>2. [SiteNext]_siteVars => [TcNext]_tcVars
  BY PageSteps
<1> QED
  BY <1>1, <1>2, TcStep, ColoursStep, PTL DEF SiteSpec, ColoursAreStable

\* A closed table stays closed while the chart is as empty as it was.
THEOREM ChartLeavesTableClosed == SiteSpec => TableStaysClosed
<1>1. SiteInit => TableKnown
  BY DEF SiteInit, TcInit, TableKnown
<1>2. [SiteNext]_siteVars => [TcNext]_tcVars
  BY PageSteps
<1>3. ASSUME TableKnown, [TcNext]_tcVars
      PROVE  [~tcShowTable /\ tcShowTable' => ClickShowTable \/ tcReported # "empty"]_tcVars
  BY <1>3, TableStep
<1>4. ASSUME TableKnown, [TcNext]_tcVars
      PROVE  TableKnown'
  BY <1>4, TableStep
<1> QED
  BY <1>1, <1>2, <1>3, <1>4, PTL DEF SiteSpec, TableStaysClosed

\* The record's page shows one of the stocks there are.
StockIsKnown == trInput \in TrInputs

LEMMA StockStartsKnown ==
  ASSUME SiteInit
  PROVE  StockIsKnown
  BY TrackRecordAssumption DEF SiteInit, TrackRecordInit, StockIsKnown

LEMMA KnownStock ==
  ASSUME StockIsKnown
  PROVE  TrackRecordTypeOK
  BY TrackRecordAssumption DEF StockIsKnown, TrackRecordTypeOK

LEMMA StockStaysKnown ==
  ASSUME StockIsKnown, [SiteNext]_siteVars
  PROVE  StockIsKnown'
  BY PageSteps DEF StockIsKnown

\* The lines of a track record are whole, for any stock, days and closes.
THEOREM TrackRecordDrawsItAll == SiteSpec => []LineIsWhole
  BY StockStartsKnown, StockStaysKnown, KnownStock, EveryLineIsWhole, PTL DEF SiteSpec

\* An arrow of a track record stands on the line, at its call or after it, and the tooltip
\* there has the title of its call, or of a later one on that bar that says the same, for
\* any stock.
THEOREM TrackRecordMarksEveryCall == SiteSpec => []ArrowsFindTheirCall
  BY StockStartsKnown, StockStaysKnown, KnownStock, EveryArrowFindsItsCall, PTL DEF SiteSpec

\* The track-record chart is the picture of its controls, as a page of the site, for any
\* channel, number of slots and answers.
THEOREM ChartShowsItsControls == SiteSpec => []ChartAgrees
<1>1. SiteInit => ChartIsBuilt /\ AnswerIsRanked
  BY BuiltInitially, RankedInitially DEF SiteInit
<1>2. [SiteNext]_siteVars => [TcNext]_tcVars
  BY PageSteps
<1> QED
  BY <1>1, <1>2, BuiltStep, RankedStep, ChartIsThePicture, PTL DEF SiteSpec

\* So is the price chart, for any bars, stances and earnings.
THEOREM StockPageShowsItsControls == SiteSpec => []StockChartAgrees
<1>1. SiteInit => SpInv
  BY SpInitially DEF SiteInit
<1>2. [SiteNext]_siteVars => [SpNext]_spVars
  BY PageSteps
<1> QED
  BY <1>1, <1>2, SpStep, ChartShowsNow, PTL DEF SiteSpec
-----------------------------------------------------------------------------
(* Types of the site *)

\* Every page's type invariant, with what it needs to be inductive.
PagesAreTypedRight ==
  /\ RbTypeOK /\ InTypeOK /\ PvTypeOK /\ VpTypeOK /\ DgTypeOK
  /\ PgTypeOK /\ ListIsOnce /\ TcTypeOK /\ SpTypeOK

\* And what was shown of the pages before.
PagesAreKnown ==
  /\ page \in Pages /\ SessionIsTyped /\ PagesAreSound /\ StockIsKnown
  /\ AnswerIsRanked /\ ChartIsBuilt /\ SpInv

LEMMA PagesStartKnown ==
  ASSUME SiteInit
  PROVE  PagesAreKnown
<1>1. AnswerIsRanked /\ ChartIsBuilt /\ SpInv
  BY RankedInitially, BuiltInitially, SpInitially DEF SiteInit
<1> QED
  BY <1>1, SessionStartsTyped, PagesStartSound, StockStartsKnown DEF PagesAreKnown, SiteInit

LEMMA PagesStayKnown ==
  ASSUME PagesAreKnown, [SiteNext]_siteVars
  PROVE  PagesAreKnown'
<1> USE DEF PagesAreKnown
<1>1. [TcNext]_tcVars /\ [SpNext]_spVars
  BY PageSteps
<1>2. AnswerIsRanked' /\ ChartIsBuilt' /\ SpInv'
  BY <1>1, RankedStep, BuiltStep, SpStep
<1>3. SessionIsTyped'
  BY SessionStaysTyped
<1>4. PagesAreSound' /\ StockIsKnown'
  BY PagesStaySound, StockStaysKnown
<1>5. page' \in Pages
  BY PageSteps
<1> QED
  BY <1>2, <1>3, <1>4, <1>5

LEMMA SiteStartsTyped ==
  ASSUME SiteInit
  PROVE  PagesAreTypedRight
<1>0. RbInit /\ PvInit /\ VpInit /\ DgInit /\ PgInit /\ TcInit /\ SpInit /\ ChInit /\ InInit
  BY DEF SiteInit
<1>1. SessionTypeOK
  BY SessionStartsTyped DEF SessionIsTyped
<1>2. RbTypeOK
  <2>1. rbJob \in RbJob /\ rbShown \in RbJob
    <3>1. NoJob \in RbJob /\ [status |-> "running", found |-> FALSE] \in RbJob
      BY DEF RbJob, NoJob
    <3> QED
      BY <1>0, <3>1 DEF RbInit
  <2>2. rbLeft \in 0..RbMaxJobs
    BY <1>0, RefreshAssumption DEF RbInit
  <2> QED
    BY <1>0, <1>1, <2>1, <2>2 DEF RbInit, RbTypeOK
<1>3. VpTypeOK
  <2>1. vpVideo \in VpVideo /\ vpPoll = NoAnswer
    BY <1>0 DEF VpInit, VpVideo, FINAL
  <2>2. vpMoves \in 0..VpMaxMoves
    BY <1>0, VideoAssumption DEF VpInit
  <2>3. vpVideo.claimed => vpVideo.status \in Queued
    BY <1>0 DEF VpInit
  <2>4. vpOrphans \in 0..VpMaxPosts
    BY <1>0, VideoAssumption DEF VpInit
  <2>5. /\ vpCurrent = FALSE /\ vpDetail = "none" /\ vpFetch = "sent"
        /\ vpPhase = "idle" /\ vpPost = "none"
    BY <1>0 DEF VpInit
  <2> QED
    BY <1>1, <2>1, <2>2, <2>3, <2>4, <2>5 DEF VpTypeOK
<1>5. InTypeOK
  <2>1. inTotal \in 0..Cardinality(InVideos)
    BY <1>0, DiscoveredCount DEF InInit
  <2> QED
    BY <1>0, <1>1, <2>1, InboxAssumption DEF InInit, InTypeOK, InNoData, InNoRequest, InNotReviewed
<1>6. PvTypeOK
  <2>1. 0 \in 0..Cardinality(PvVideos)
    BY PipelineAssumption, FS_CardinalityType
  <2> QED
    BY <1>0, <1>1, <2>1, PipelineAssumption
       DEF PvInit, PvTypeOK, PvLane, ClosedDrawer, NoSummary, NoRetry
<1>7. DgTypeOK
  <2>1. dgHeld \subseteq DgTickers /\ dgShown \in [items : SUBSET DgTickers, own : BOOLEAN]
    BY <1>0 DEF DgInit
  <2>2. dgAdd \in [at : Awaits, of : SUBSET DgTickers] /\ dgRemove \in [DgTickers -> Awaits]
    BY <1>0 DEF DgInit, Awaits, NoAdd
  <2>3. dgFetch \in [on : BOOLEAN, read : BOOLEAN, own : BOOLEAN, items : SUBSET DgTickers]
    BY <1>0 DEF DgInit, NoDgFetch
  <2>4. adForm \in [open : BOOLEAN, message : BOOLEAN] /\ adSubmit \in Awaits \ {"own"}
    BY <1>0 DEF DgInit, Awaits
  <2>5. dgCalls \in 0..DgMaxCalls
    BY <1>0, DialogsAssumption DEF DgInit
  <2> QED
    BY <1>0, <1>1, <2>1, <2>2, <2>3, <2>4, <2>5 DEF DgInit, DgTypeOK
<1>8. PgTypeOK /\ ListIsOnce
  <2>1. pgSrv \in Seq(PgItems) /\ Once(pgSrv) /\ pgKind \in PgKinds
    BY <1>0, PagedAssumption DEF PgInit
  <2>2. pgPages = <<>> /\ pgFlight = [on |-> TRUE, all |-> FALSE, pages |-> <<>>]
    BY <1>0 DEF PgInit
  <2>3. Len(<<>>) = 0 /\ DOMAIN <<>> = {}
    OBVIOUS
  <2>4. ListIsOnce
    BY <2>1, <2>2, <2>3 DEF ListIsOnce, Counted
  <2>5. \A i \in DOMAIN pgSrv : pgSrv[i] \in PgItems
    BY <2>1
  <2>6. pgSize \in 1..PgMaxSize /\ 0 <= pgSize
    BY <1>0, PagedAssumption DEF PgInit
  <2>7. pgMoves \in 0..PgMaxMoves
    BY <1>0, PagedAssumption DEF PgInit
  <2>8. pgNarrowed = FALSE /\ pgError = FALSE /\ pgArmed = TRUE /\ pgOwn = "none"
    BY <1>0 DEF PgInit
  <2>9. /\ pgFlight.on \in BOOLEAN /\ pgFlight.all \in BOOLEAN /\ Len(pgFlight.pages) <= pgSize
        /\ \A i \in DOMAIN pgPages : pgPages[i].total \in 0..Cardinality(PgItems)
    BY <2>2, <2>3, <2>6
  <2>10. /\ pgOther.pages = <<>> /\ pgOther.size \in 1..PgMaxSize /\ pgOther.error = FALSE
    BY <1>0, PagedAssumption DEF PgInit
  <2>11. \A i \in DOMAIN pgOther.pages : pgOther.pages[i].total \in 0..Cardinality(PgItems)
    BY <2>3, <2>10
  <2> QED
    BY <2>1, <2>4, <2>5, <2>6, <2>7, <2>8, <2>9, <2>10, <2>11 DEF PgTypeOK
<1>9. TcTypeOK
  <2>1. /\ tcData.loaded = FALSE /\ tcData.range \in Ranges /\ tcData.world \in DOMAIN TcWorlds
        /\ Len(tcData.tickers) <= TcSlotCount
    BY <1>0, ChartAssumption DEF TcInit, NoData, Ranges
  <2>2. tcRange \in Ranges /\ tcView \in Views /\ tcWorld \in DOMAIN TcWorlds /\ tcMoves \in 0..TcMaxMoves
    BY <1>0, ChartAssumption DEF TcInit, Ranges, Views
  <2>3. tcChart.lines = {}
    BY <1>0 DEF TcInit, NoChart
  <2> QED
    BY <1>0, <2>1, <2>2, <2>3 DEF TcInit, TcTypeOK
<1>10. SpTypeOK
  <2>1. OnItsBars
    BY <1>0, SpInitially, PriceChartTyped
  <2>2. spTable \in [answer : 0..Len(SpMentions), error : BOOLEAN]
    BY <1>0, StockAssumption DEF SpInit
  <2>3. spRows \in 0..Len(SpStances) /\ spRange \in SpRanges
    BY <1>0, StockAssumption DEF SpInit
  <2>4. spCandles \in [SpRanges -> Nat] /\ \A range \in SpRanges : spCandles[range] <= Len(SpBars[range])
    BY <1>0, SpInitially DEF SpInv, CandlesKnown
  <2> QED
    BY <1>0, <2>1, <2>2, <2>3, <2>4 DEF SpInit, SpTypeOK, OnItsBars
<1> QED
  BY <1>2, <1>3, <1>5, <1>6, <1>7, <1>8, <1>9, <1>10 DEF PagesAreTypedRight

LEMMA SiteStaysTyped ==
  ASSUME PagesAreTypedRight, PagesAreKnown, [SiteNext]_siteVars
  PROVE  PagesAreTypedRight'
<1> USE PageSteps DEF PagesAreTypedRight
<1>1. SessionTypeOK' /\ authed \in BOOLEAN
  BY PagesStayKnown DEF PagesAreKnown, SessionIsTyped, SessionTypeOK
<1>2. RbTypeOK' /\ PvTypeOK' /\ VpTypeOK'
  BY <1>1, RefreshTyped, PipelineTyped, VideoTyped
<1>4. InTypeOK'
  <2>1. CASE page = "inbox"
    BY <1>1, <2>1, InboxTyped DEF PagesAreKnown, PagesAreSound
  <2>2. CASE page # "inbox"
    BY <1>1, <2>2 DEF InTypeOK, inVars
  <2> QED
    BY <2>1, <2>2
<1>5. DgTypeOK'
  BY <1>1, DialogsTyped
<1>6. PgTypeOK' /\ ListIsOnce'
  BY ListTyped DEF PagesAreKnown, PagesAreSound
<1>7. TcTypeOK' /\ SpTypeOK'
  BY ChartTyped, StockTyped DEF PagesAreKnown
<1> QED
  BY <1>2, <1>4, <1>5, <1>6, <1>7

\* What every page keeps is of its type, for any videos, filters, tickers, lists, bars and
\* bounds: a count is of what is there, a selection of what is listed, a line in a slot,
\* what is ticked was shown, and no poll is one too many.
THEOREM SiteIsTyped == SiteSpec => []SiteTypeOK
<1>1. PagesAreTypedRight /\ PagesAreKnown => SiteTypeOK
  <2> SUFFICES ASSUME PagesAreTypedRight, PagesAreKnown
               PROVE  SiteTypeOK
    OBVIOUS
  <2>1. ChTypeOK
    BY DEF PagesAreKnown, SessionIsTyped, PagesAreSound, ChInv, ChannelIsTyped, ChTypeOK
  <2> QED
    BY <2>1, KnownStock DEF PagesAreTypedRight, PagesAreKnown, SessionIsTyped, SiteTypeOK, Pages
<1> QED
  BY <1>1, PagesStartKnown, PagesStayKnown, SiteStartsTyped, SiteStaysTyped, PTL DEF SiteSpec
=============================================================================
