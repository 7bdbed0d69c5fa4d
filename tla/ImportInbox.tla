----------------------------- MODULE ImportInbox -----------------------------
(***************************************************************************)
(* The import inbox of the pipeline page: the discovered videos, ticked or *)
(* not, and one button that skips the ones left unticked and queues the    *)
(* others, in two requests. The list and the count above it are fetched on *)
(* their own and move while a person reads. A fetch is one step here: what *)
(* the api read and the page shows later is what it would show if both     *)
(* happened at once. A page that is locked unmounts the inbox and what it  *)
(* remembers.                                                              *)
(***************************************************************************)
EXTENDS Session, Naturals, FiniteSets

CONSTANTS
  InVideos,   \* videos a discover may find
  InShort,    \* those under DEFAULT_SELECT_MAX_SECONDS
  InGroups,   \* the videos of each channel
  InInitRows, \* the rows a behaviour may start from
  InMaxMoves, \* bound: rows that move on their own
  InMaxCalls  \* bound: submissions

\* What the inbox tells apart of where a video stands.
InRowStatus == {"absent", "discovered", "queued", "skipped"}

\* An inbox holds finitely many videos.
ASSUME InboxAssumption ==
  /\ IsFiniteSet(InVideos)
  /\ InInitRows \subseteq [InVideos -> InRowStatus]
  /\ InMaxMoves \in Nat /\ InMaxCalls \in Nat

VARIABLES
  inRows,      \* the api's rows
  inTotal,     \* the snapshot's stages.select.total
  inData,      \* SWR's data of the list: loaded, and the ids in it
  inChecked,   \* checked
  inDefaulted, \* defaultedIds
  inReviewed,  \* reviewedIds: null until a box was touched
  inReq,       \* the submission under way
  inMoves,     \* row moves and submissions left
  inLate       \* history: first shown after the review began

inVars == <<inRows, inTotal, inData, inChecked, inDefaulted, inReviewed, inReq,
            inMoves, inLate>>
inMemory == <<inChecked, inDefaulted, inReviewed, inLate>>
-----------------------------------------------------------------------------
InNotReviewed == [touched |-> FALSE, ids |-> {}]
InNoRequest == [phase |-> "idle", skip |-> {}, analyze |-> {}]
InNoData == [loaded |-> FALSE, ids |-> {}]

InTypeOK ==
  /\ SessionTypeOK
  /\ inRows \in [InVideos -> InRowStatus]
  /\ inTotal \in 0..Cardinality(InVideos)
  /\ inData \in [loaded : BOOLEAN, ids : SUBSET InVideos]
  /\ inChecked \subseteq inDefaulted /\ inDefaulted \subseteq InVideos
  /\ inLate \subseteq inDefaulted
  /\ inReviewed \in [touched : BOOLEAN, ids : SUBSET InVideos]
  /\ inReq \in [phase : {"idle", "skip", "analyze", "done", "refreshing"},
                skip : SUBSET InVideos, analyze : SUBSET InVideos]
  /\ inMoves \in (0..InMaxMoves) \X (0..InMaxCalls)

Discovered == {v \in InVideos : inRows[v] = "discovered"}

InInit ==
  /\ inRows \in InInitRows
  /\ inTotal = Cardinality(Discovered)
  /\ inData = InNoData
  /\ inChecked = {} /\ inDefaulted = {} /\ inLate = {}
  /\ inReviewed = InNotReviewed
  /\ inReq = InNoRequest
  /\ inMoves = <<InMaxMoves, InMaxCalls>>
-----------------------------------------------------------------------------
(* The api, and the fetches of the page *)

\* A discover lands, or another tab or auto_analyze decides.
RowMoves ==
  /\ inMoves[1] > 0 /\ inMoves' = [inMoves EXCEPT ![1] = @ - 1]
  /\ \E v \in InVideos :
       \/ inRows[v] = "absent" /\ inRows' = [inRows EXCEPT ![v] = "discovered"]
       \/ inRows[v] = "discovered" /\ inRows' = [inRows EXCEPT ![v] = "queued"]
  /\ UNCHANGED <<inTotal, inData, inMemory, inReq, cookie, authed>>

\* What the list shows: nothing is asked for, nor read from the cache, at a count of zero.
ShownIds(total, data) == IF total > 0 THEN data.ids ELSE {}
allIds == ShownIds(inTotal, inData)

\* The effect on what is shown after a step: a short video is ticked once, the first
\* time it appears.
Default ==
  LET fresh == ShownIds(inTotal', inData') \ inDefaulted IN
  /\ inDefaulted' = inDefaulted \cup fresh
  /\ inChecked' = inChecked \cup (fresh \cap InShort)
  /\ inLate' = IF inReviewed.touched THEN inLate \cup fresh ELSE inLate

\* The page polls the snapshot every three seconds while it is unlocked.
SnapshotPolled ==
  /\ authed
  /\ inTotal' = Cardinality(Discovered)
  /\ UNCHANGED <<inRows, inData, inReviewed, inReq, inMoves, cookie, authed>>
  /\ Default

\* On mount, when the count moves, on focus. One that fails leaves the list.
InboxFetched ==
  /\ authed /\ inTotal > 0
  /\ inData' = [loaded |-> TRUE, ids |-> Discovered]
  /\ UNCHANGED <<inRows, inTotal, inReviewed, inReq, inMoves, cookie, authed>>
  /\ Default
-----------------------------------------------------------------------------
(* The inbox *)

ListShown == authed /\ inTotal > 0 /\ inData.loaded
selectedIds == allIds \cap inChecked

\* Mutant: every touch takes in what is on screen by then.
ReviewedAnew == [touched |-> TRUE, ids |-> allIds]

\* The first touch fixes what is being reviewed.
Reviewed == IF inReviewed.touched THEN inReviewed ELSE [touched |-> TRUE, ids |-> allIds]

SetMany(ids, select) ==
  /\ inReviewed' = Reviewed
  /\ inChecked' = IF select THEN inChecked \cup ids ELSE inChecked \ ids
  /\ UNCHANGED <<inRows, inTotal, inData, inDefaulted, inReq, inMoves,
                 inLate, cookie, authed>>

\* A row's box, and a channel's "all" and "none"; not disabled by a submission.
Tick ==
  /\ ListShown
  /\ \/ \E v \in allIds : SetMany({v}, v \notin inChecked)
     \/ \E group \in {g \cap allIds : g \in InGroups} \ {{}}, select \in BOOLEAN :
          SetMany(group, select)

\* submit: ids are those of the render that was clicked. Either request is left out
\* when it would be empty.
Submit ==
  LET skipped == (IF inReviewed.touched THEN inReviewed.ids \cap allIds ELSE allIds) \ inChecked IN
  /\ ListShown /\ inReq.phase = "idle" /\ inMoves[2] > 0
  /\ inMoves' = [inMoves EXCEPT ![2] = @ - 1]
  /\ inReq' = [skip |-> skipped, analyze |-> selectedIds,
               phase |-> IF skipped # {} THEN "skip"
                         ELSE IF selectedIds # {} THEN "analyze" ELSE "done"]
  /\ UNCHANGED <<inRows, inTotal, inData, inChecked, inDefaulted, inReviewed, inLate,
                 cookie, authed>>

\* The inbox goes with the page, and with it what it remembered. The cache keeps the list.
\* What a submission under way still posts would be refused, or moves rows unseen, as
\* RowMoves does.
InForget ==
  /\ inChecked' = {} /\ inDefaulted' = {} /\ inLate' = {}
  /\ inReviewed' = InNotReviewed
  /\ inReq' = InNoRequest

\* The api handles the request of this phase, and its answer arrives or is lost; or it
\* refuses all of it: a video that a lane holds, an error of its own, no cookie. Nothing
\* is fetched again after a failure: ticks and review stay as they are, the button is
\* enabled. A 401 locks the page.
Posted(ids, status, next) ==
  /\ \/ /\ cookie
        /\ inRows' = [v \in InVideos |-> IF v \in ids THEN status ELSE inRows[v]]
        /\ inReq' \in {[inReq EXCEPT !.phase = next], InNoRequest}
        /\ UNCHANGED <<inMemory, cookie, authed>>
     \/ /\ cookie
        /\ inReq' = InNoRequest
        /\ UNCHANGED <<inRows, inMemory, cookie, authed>>
     \/ ~cookie /\ WriteRefused /\ InForget /\ UNCHANGED inRows
  /\ UNCHANGED <<inTotal, inData, inMoves>>

SkipPosted ==
  /\ inReq.phase = "skip"
  /\ Posted(inReq.skip, "skipped", IF inReq.analyze # {} THEN "analyze" ELSE "done")

AnalyzePosted ==
  /\ inReq.phase = "analyze"
  /\ Posted(inReq.analyze, "queued", "done")

\* Every tick is forgotten, also one made or defaulted since the click.
SubmitDone ==
  /\ inReq.phase = "done"
  /\ inChecked' = {} /\ inReviewed' = InNotReviewed /\ inLate' = {}
  /\ inReq' = [inReq EXCEPT !.phase = "refreshing"]
  /\ UNCHANGED <<inRows, inTotal, inData, inDefaulted, inMoves, cookie, authed>>

\* The list and the snapshot are back; only now is the button enabled again.
SubmitRefreshed ==
  /\ inReq.phase = "refreshing" /\ inReq' = InNoRequest
  /\ inTotal' = Cardinality(Discovered)
  /\ inData' = [loaded |-> TRUE, ids |-> Discovered]
  /\ UNCHANGED <<inRows, inReviewed, inMoves, cookie, authed>>
  /\ Default

\* Locked from the settings menu, or unlocked: then what the cache holds is shown.
InSession ==
  /\ SessionStep
  /\ UNCHANGED <<inRows, inTotal, inData, inMoves>>
  /\ IF authed' THEN UNCHANGED <<inReviewed, inReq>> /\ Default ELSE InForget

InNext ==
  \/ RowMoves \/ SnapshotPolled \/ InboxFetched
  \/ Tick \/ Submit
  \/ SkipPosted \/ AnalyzePosted \/ SubmitDone \/ SubmitRefreshed
  \/ InSession

InSpec == SessionInit /\ InInit /\ [][InNext]_<<inVars, cookie, authed>>
-----------------------------------------------------------------------------
\* No submission skips a video that came on screen after the operator began to tick:
\* not one that arrives during the review, during the requests, or between a
\* submission that failed halfway and its repetition. Nor does one skip what it queues.
NeverSkipsUnseen ==
  /\ inReq.skip \cap inLate = {}
  /\ inReq.skip \cap inReq.analyze = {}
=============================================================================
