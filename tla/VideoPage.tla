------------------------------ MODULE VideoPage ------------------------------
(***************************************************************************)
(* The page of one video: its detail, and the button that sends the video  *)
(* through the pipeline again and follows it under a cache key of its own, *)
(* until a lane has finished with it and the page is to read the detail    *)
(* anew. A failed read of the detail replaces the whole page, the button   *)
(* and its watch included. The api handles a request and its answer comes  *)
(* back in separate steps.                                                 *)
(***************************************************************************)
EXTENDS Session, Naturals

CONSTANTS
  VpMaxMoves,  \* bound: what is done to the video elsewhere
  VpMaxPosts   \* bound: requests under way at once

ASSUME VideoAssumption == VpMaxMoves \in Nat /\ VpMaxPosts \in Nat

VARIABLES
  vpVideo,   \* the api's video
  vpCurrent, \* history: the detail shown was read since the video last left the queue
  vpDetail,  \* SWR of the detail: none, loaded, error
  vpFetch,   \* its fetch: sent, or read by the api since the video left the queue, or before
  vpPhase,   \* phase of the button
  vpPost,    \* the button's request: sent, handled
  vpOrphans, \* requests of buttons that were unmounted
  vpPoll,    \* what the api has read for the poll of the watch
  vpMoves

vpVars == <<vpVideo, vpCurrent, vpDetail, vpFetch, vpPhase, vpPost, vpOrphans, vpPoll,
            vpMoves>>
vpButton == <<vpPhase, vpPost, vpOrphans, vpPoll>>
-----------------------------------------------------------------------------
\* A lane is done with the video.
FINAL == {"analyzed", "failed", "no_transcript", "skipped"}
Queued == {"pending", "transcribed"}
VpVideo == [status : FINAL \cup Queued, claimed : BOOLEAN]
NoAnswer == [status |-> "none", claimed |-> FALSE]

VpTypeOK ==
  /\ SessionTypeOK
  /\ vpVideo \in VpVideo
  /\ vpVideo.claimed => vpVideo.status \in Queued
  /\ vpCurrent \in BOOLEAN
  /\ vpDetail \in {"none", "loaded", "error"}
  /\ vpFetch \in {"none", "sent", "current", "older"}
  /\ vpPhase \in {"idle", "submitting", "watching"}
  /\ vpPost \in {"none", "sent", "handled"}
  /\ vpPost # "none" <=> vpPhase = "submitting"
  /\ vpOrphans \in 0..VpMaxPosts
  /\ vpPost # "none" => vpOrphans < VpMaxPosts
  /\ vpPoll \in VpVideo \cup {NoAnswer}
  /\ vpPoll # NoAnswer => vpPhase = "watching"
  /\ vpMoves \in 0..VpMaxMoves

VpInit ==
  /\ vpVideo = [status |-> "analyzed", claimed |-> FALSE]
  /\ vpCurrent = FALSE /\ vpDetail = "none" /\ vpFetch = "sent"
  /\ vpPhase = "idle" /\ vpPost = "none" /\ vpOrphans = 0
  /\ vpPoll = NoAnswer
  /\ vpMoves = VpMaxMoves
-----------------------------------------------------------------------------
(* Behind the api *)

LaneClaims ==
  /\ vpVideo.status \in Queued /\ ~vpVideo.claimed
  /\ vpVideo' = [vpVideo EXCEPT !.claimed = TRUE]
  /\ UNCHANGED <<vpCurrent, vpDetail, vpFetch, vpButton, vpMoves, cookie, authed>>

\* What was read of a video in the queue is older than its end.
Outdated ==
  IF vpVideo.status \in Queued /\ vpVideo'.status \in FINAL
  THEN /\ vpCurrent' = FALSE
       /\ vpFetch' = IF vpFetch = "current" THEN "older" ELSE vpFetch
  ELSE UNCHANGED <<vpCurrent, vpFetch>>

\* The transcript lane hands on, or either ends with the video.
LaneFinishes ==
  /\ vpVideo.claimed
  /\ vpVideo' \in [status : IF vpVideo.status = "pending"
                            THEN {"transcribed", "no_transcript", "failed"}
                            ELSE {"analyzed", "failed"}, claimed : {FALSE}]
  /\ Outdated
  /\ UNCHANGED <<vpDetail, vpButton, vpMoves, cookie, authed>>

\* Skipped on another page, or queued again by a retry.
MovedElsewhere ==
  /\ vpMoves > 0 /\ vpMoves' = vpMoves - 1
  /\ ~vpVideo.claimed
  /\ vpVideo' \in [status : (IF vpVideo.status = "analyzed" THEN {} ELSE {"skipped"}) \cup Queued,
                   claimed : {FALSE}]
  /\ vpVideo' # vpVideo
  /\ Outdated
  /\ UNCHANGED <<vpDetail, vpButton, cookie, authed>>
-----------------------------------------------------------------------------
(* The page *)

\* On focus, or again after an error; one that is under way is joined.
DetailAsked ==
  /\ vpFetch = "none" /\ vpFetch' = "sent"
  /\ UNCHANGED <<vpVideo, vpCurrent, vpDetail, vpButton, vpMoves, cookie, authed>>

DetailServed ==
  /\ vpFetch = "sent" /\ vpFetch' = "current"
  /\ UNCHANGED <<vpVideo, vpCurrent, vpDetail, vpButton, vpMoves, cookie, authed>>

\* For the first time, again, or after an error.
VideoFetched ==
  /\ vpFetch \in {"current", "older"} /\ vpFetch' = "none"
  /\ vpDetail' = "loaded" /\ vpCurrent' = (vpFetch = "current")
  /\ UNCHANGED <<vpVideo, vpButton, vpMoves, cookie, authed>>

\* Mutant: the request that is under way is taken for one of the next button's.
UnmountedSending ==
  /\ vpDetail' = "error" /\ vpPhase' = "idle" /\ vpPoll' = NoAnswer
  /\ UNCHANGED <<vpPost, vpOrphans>>

\* An error is shown instead of the page, even when its data is there: the button
\* is gone, and its poll reports to no one; a request that was sent is not undone.
Unmounted ==
  /\ vpDetail' = "error" /\ vpPhase' = "idle" /\ vpPoll' = NoAnswer
  /\ vpPost' = "none"
  /\ vpOrphans' = IF vpPost = "sent" THEN vpOrphans + 1 ELSE vpOrphans

VideoFetchFails ==
  /\ vpFetch # "none" /\ vpFetch' = "none"
  /\ Unmounted
  /\ UNCHANGED <<vpVideo, vpCurrent, vpMoves, cookie, authed>>

DetailStep == DetailServed \/ VideoFetched \/ VideoFetchFails
-----------------------------------------------------------------------------
(* The button *)

\* trigger(); a locked page has no button, and a busy one is disabled.
ClickReanalyze ==
  /\ vpDetail = "loaded" /\ authed /\ vpPhase = "idle"
  /\ vpOrphans < VpMaxPosts
  /\ vpPhase' = "submitting" /\ vpPost' = "sent"
  /\ UNCHANGED <<vpVideo, vpCurrent, vpDetail, vpFetch, vpOrphans, vpPoll, vpMoves,
                 cookie, authed>>

\* The api queues the video, for this button or one before it.
AnalyzeAccepted ==
  /\ cookie /\ ~vpVideo.claimed
  /\ vpVideo' \in [status : Queued, claimed : {FALSE}]
  /\ \/ vpPost = "sent" /\ vpPost' = "handled" /\ UNCHANGED vpOrphans
     \/ vpOrphans > 0 /\ vpOrphans' = vpOrphans - 1 /\ UNCHANGED vpPost
  /\ UNCHANGED <<vpCurrent, vpDetail, vpFetch, vpPhase, vpPoll, vpMoves, cookie, authed>>

\* The button starts to watch when it hears of it.
AnalyzeAnswered ==
  /\ vpPost = "handled" /\ vpPost' = "none"
  /\ vpPhase' \in {"watching", "idle"}
  /\ UNCHANGED <<vpVideo, vpCurrent, vpDetail, vpFetch, vpOrphans, vpPoll, vpMoves,
                 cookie, authed>>

\* 409 while a lane holds it, another error, or 401, which locks the page.
AnalyzeRefused ==
  /\ \/ vpPost = "sent" /\ vpPost' = "none" /\ vpPhase' = "idle" /\ UNCHANGED vpOrphans
     \/ vpOrphans > 0 /\ vpOrphans' = vpOrphans - 1 /\ UNCHANGED <<vpPost, vpPhase>>
  /\ IF cookie THEN UNCHANGED <<cookie, authed>> ELSE WriteRefused
  /\ UNCHANGED <<vpVideo, vpCurrent, vpDetail, vpFetch, vpPoll, vpMoves>>

\* A poll of the watch, on mount of its key and every two seconds.
WatchServed ==
  /\ vpPhase = "watching" /\ vpPoll = NoAnswer
  /\ vpPoll' = vpVideo
  /\ UNCHANGED <<vpVideo, vpCurrent, vpDetail, vpFetch, vpPhase, vpPost, vpOrphans, vpMoves, cookie, authed>>

\* onSuccess of the watch; also while the page is locked. onDone() has the detail read
\* anew: the answer of an older read is thrown away.
WatchAnswered ==
  /\ vpPoll # NoAnswer /\ vpPoll' = NoAnswer
  /\ IF vpPoll.status \in FINAL
     THEN vpPhase' = "idle" /\ vpFetch' = "sent"
     ELSE UNCHANGED <<vpPhase, vpFetch>>
  /\ UNCHANGED <<vpVideo, vpCurrent, vpDetail, vpPost, vpOrphans, vpMoves, cookie, authed>>

WatchStep == WatchServed \/ WatchAnswered

VpSession == SessionStep /\ UNCHANGED vpVars

VpNext ==
  \/ LaneClaims \/ LaneFinishes \/ MovedElsewhere
  \/ DetailAsked \/ DetailStep
  \/ ClickReanalyze \/ AnalyzeAccepted \/ AnalyzeAnswered \/ AnalyzeRefused \/ WatchStep
  \/ VpSession

\* A poll that fails is tried again: some poll is answered. A read is answered or fails.
\* No lane need ever finish: it may be paused.
VpFairness ==
  /\ WF_<<vpVars, cookie, authed>>(WatchStep)
  /\ WF_<<vpVars, cookie, authed>>(DetailStep)

VpSpec == SessionInit /\ VpInit /\ [][VpNext]_<<vpVars, cookie, authed>> /\ VpFairness
-----------------------------------------------------------------------------
\* A lane is done with the video that is watched ...
WatchedEndUnseen == vpPhase = "watching" /\ vpVideo.status \in FINAL

\* ... and the page shows what it made of it, or that it can't read it; or the video has
\* been queued again.
WatchedEndSeen == vpVideo.status \notin FINAL \/ vpCurrent \/ vpDetail = "error"
=============================================================================
