------------------------------- MODULE Lanes -------------------------------
(***************************************************************************)
(* The two pipeline lanes of stance-radar working through the videos       *)
(* table: the transcript lane (fetch container) takes pending videos, the  *)
(* analysis lane (analyze container) takes transcribed ones.  Each lane is *)
(* a loop that claims videos and hands each to a task of its own (a slot); *)
(* the loops, the slots and the api requests share only Postgres, so a     *)
(* step here is one committed transaction or one return of control to the  *)
(* event loop.  Containers crash and are restarted, transactions fail.     *)
(***************************************************************************)
EXTENDS Integers, FiniteSets, LaneStore

CONSTANTS
  Videos,           \* ids of the videos a channel publishes
  NoVideo,          \* what a slot holds between two videos
  TranscriptSlots,  \* in-flight places of the transcript lane (concurrency)
  AnalysisSlots,    \* in-flight places of the analysis lane
  Running,          \* the lanes whose container is deployed
  PauseAfter,       \* failures in a row that pause a lane, by lane
  SeedRows,         \* rows the table may hold at the start
  LimitTimes,       \* reset times a usage limit or a throttle may name
  Clock,            \* readings of utcnow()
  MaxRequests,      \* bound: api requests in a behaviour
  MaxFaults,        \* bound: faults in a behaviour
  FaultKinds,       \* what may go wrong: "fatal", "transaction", "loop", "crash"
  ReAddInFlight,    \* may a deleted video be ingested again under a live slot?
  LostAcks          \* may a transaction commit and still raise in the client?

VARIABLES
  row,       \* the videos table
  attempts,  \* transcript_attempts and analysis_attempts of each video
  lane,      \* the pipeline_lanes table
  loop,      \* where the run loop of each lane is
  slot,      \* the in-flight task of each slot
  chosen,    \* ids a retry request or reanalyze_stale selected, not yet requeued
  requests,  \* api requests left in this behaviour
  faults,    \* faults left in this behaviour
  late,      \* history: claims a lane made since it was last seen running
  ended      \* history: outcomes the stages wrote for each video, by lane

vars == <<row, attempts, lane, loop, slot, chosen, requests, faults, late, ended>>
-----------------------------------------------------------------------------
Lane == {"transcript", "analysis"}
Slots == TranscriptSlots \cup AnalysisSlots

LaneOf(s) == IF s \in TranscriptSlots THEN "transcript" ELSE "analysis"
SlotsOf(l) == IF l = "transcript" THEN TranscriptSlots ELSE AnalysisSlots
InputStatus(l) == IF l = "transcript" THEN "pending" ELSE "transcribed"

Status == {"absent", "discovered", "pending", "transcribed", "analyzed",
           "no_transcript", "failed", "skipped"}

\* error is the lane that wrote error_message, "none" for NULL; a status of
\* "absent" means the table has no such row.
Row == [status : Status, transcript : BOOLEAN, error : Lane \cup {"none"},
        claimed : BOOLEAN]

AbsentRow == [status |-> "absent", transcript |-> FALSE, error |-> "none",
              claimed |-> FALSE]
NewRow(st) == [AbsentRow EXCEPT !.status = st]

\* A queue holds only what its lane can work on, with no old error.
Routed(r) ==
  /\ r.claimed => r.status \in {"pending", "transcribed"}
  /\ r.status = "absent" => r = AbsentRow
  /\ r.status \in {"discovered", "pending", "no_transcript"} => ~r.transcript
  /\ r.status \in {"transcribed", "analyzed"} => r.transcript
  /\ r.status \in {"discovered", "pending", "transcribed", "analyzed", "no_transcript"}
       => r.error = "none"

\* A failure is the failure of the lane its transcript says it died in.
FailedWhereItDied(r) ==
  r.status = "failed" => r.error = IF r.transcript THEN "analysis" ELSE "transcript"

\* What the table can hold while no lane runs.
AtRest(r) == ~r.claimed /\ Routed(r) /\ FailedWhereItDied(r)

LoopPc == {"down", "fill", "check", "claim", "wait", "cancelling"}
HoldingPc == {"created", "calling", "writing", "committing", "givingBack", "failing"}
SlotPc == HoldingPc \cup {"idle", "recording", "throttling", "done", "raised"}
Outcome == {"none", "success", "noTranscript", "failure", "limit", "anomaly", "raise"}

Slot == [pc : SlotPc, vid : Videos \cup {NoVideo}, out : Outcome, cancel : BOOLEAN]
SlotAt(p) == [pc |-> p, vid |-> NoVideo, out |-> "none", cancel |-> FALSE]
IdleSlot == SlotAt("idle")

ASSUME LanesAssumption ==
  /\ NoVideo \notin Videos
  /\ TranscriptSlots \cap AnalysisSlots = {}
  /\ Running \subseteq Lane
  /\ PauseAfter \in [Lane -> Nat \ {0}]
  /\ SeedRows \subseteq {r \in Row : AtRest(r)}
  /\ LimitTimes \subseteq Nat
  /\ Clock \subseteq Nat
  /\ MaxRequests \in Nat
  /\ MaxFaults \in Nat
  /\ FaultKinds \subseteq {"fatal", "transaction", "loop", "crash"}
  /\ ReAddInFlight \in BOOLEAN
  /\ LostAcks \in BOOLEAN

NoAttempts == [l \in Lane |-> 0]

Init ==
  /\ row \in [Videos -> SeedRows]
  /\ attempts = [v \in Videos |-> NoAttempts]
  /\ lane = [l \in Lane |-> Healthy]
  /\ loop = [l \in Lane |-> "down"]
  /\ slot = [s \in Slots |-> IdleSlot]
  /\ chosen = {}
  /\ requests = MaxRequests
  /\ faults = MaxFaults
  /\ late = [l \in Lane |-> 0]
  /\ ended = [v \in Videos |-> NoAttempts]
-----------------------------------------------------------------------------
(* Helpers *)

Exists(v) == row[v].status # "absent"
Settled(s) == slot[s].pc \in {"idle", "done", "raised"}
Holds(s, v) == slot[s].vid = v

\* UPDATE videos ... WHERE id = v: hits no row once the video is deleted.
UpdateRow(v, r) == row' = [row EXCEPT ![v] = IF Exists(v) THEN r ELSE @]

\* A slot's task moves on.  A task that was cancelled while its transaction was
\* on the wire may find it committed, but runs nothing after it.
MoveTo(s, p, o) ==
  slot' = [slot EXCEPT ![s] =
             IF @.cancel THEN SlotAt("raised")
             ELSE [pc |-> p,
                   vid |-> IF p \in HoldingPc THEN @.vid ELSE NoVideo,
                   out |-> o,
                   cancel |-> FALSE]]

\* UPDATE pipeline_lanes; late starts again once the lane is seen running.
UpdateLane(l, ln) ==
  /\ lane' = [lane EXCEPT ![l] = ln]
  /\ late' = [late EXCEPT ![l] = IF lane[l].paused /\ ln.paused THEN @ ELSE 0]
-----------------------------------------------------------------------------
(* What the transactions of a slot's task leave in the videos table *)

StampedAttempts(v, l) == [attempts EXCEPT ![v][l] = IF Exists(v) THEN @ + 1 ELSE @]

\* Mutant: the stage clears its claim and keeps the attempt.
KeptAttempts(v, l) == attempts

\* greatest(attempts - 1, 0)
GivenBackAttempts(v, l) == [attempts EXCEPT ![v][l] = IF @ > 0 THEN @ - 1 ELSE 0]

\* Mutant: the attempt is given back, the claim is not.
GivenBackStillClaimed(r, o) == r

\* The anomaly (a transcribed row without its transcript) goes to the other lane.
GivenBack(r, o) ==
  [r EXCEPT !.claimed = FALSE,
            !.status = IF o = "anomaly" THEN "pending" ELSE @]

Failed(r, l) == [r EXCEPT !.status = "failed", !.error = l, !.claimed = FALSE]

\* TranscriptStage._write, AnalysisStage._fail and AnalysisStage._persist.
Written(r, l, o) ==
  CASE o = "failure"      -> Failed(r, l)
    [] o = "noTranscript" -> [r EXCEPT !.status = "no_transcript", !.error = "none",
                                       !.claimed = FALSE]
    [] OTHER              -> [r EXCEPT !.status = IF l = "transcript" THEN "transcribed"
                                                  ELSE "analyzed",
                                       !.transcript = @ \/ l = "transcript",
                                       !.error = "none",
                                       !.claimed = FALSE]

CountOutcome(v, l) == ended' = [ended EXCEPT ![v][l] = IF Exists(v) THEN @ + 1 ELSE @]
-----------------------------------------------------------------------------
(* The task of a slot: Lane._handle around Stage.process *)

\* _stamp_attempt commits the attempt before the long call, and reads the row.
Stamp(s) ==
  LET v == slot[s].vid
      l == LaneOf(s)
  IN /\ slot[s].pc = "created"
     /\ attempts' = StampedAttempts(v, l)
     /\ \/ ~Exists(v) /\ MoveTo(s, "done", "none")
        \/ /\ Exists(v)
           /\ l = "transcript" \/ row[v].transcript
           /\ MoveTo(s, "calling", "none")
        \/ /\ Exists(v)
           /\ l = "analysis" /\ ~row[v].transcript
           /\ MoveTo(s, "givingBack", "anomaly")
     /\ UNCHANGED <<row, lane, loop, chosen, requests, faults, late, ended>>

\* The transcript fetch, or the claude call and the ticker validation, ends.
Call(s, o) ==
  /\ slot[s].pc = "calling" /\ ~slot[s].cancel
  /\ \/ o \in {"success", "failure"}
        /\ MoveTo(s, "writing", o)
     \/ o = "noTranscript" /\ LaneOf(s) = "transcript"
        /\ MoveTo(s, "writing", o)
     \/ o = "limit" /\ LaneOf(s) = "analysis"
        /\ MoveTo(s, "givingBack", o)
  /\ UNCHANGED <<row, attempts, lane, loop, chosen, requests, faults, late, ended>>

\* CancelledError lands in the long call: the stage gives the attempt back, and
\* nobody cancels it a second time.
CancelledCall(s) ==
  /\ slot[s].pc = "calling" /\ slot[s].cancel
  /\ slot' = [slot EXCEPT ![s].pc = "givingBack", ![s].out = "raise", ![s].cancel = FALSE]
  /\ UNCHANGED <<row, attempts, lane, loop, chosen, requests, faults, late, ended>>

Persists(s) == LaneOf(s) = "analysis" /\ slot[s].out = "success"

\* One UPDATE by id clears the claim with the result.
Write(s) ==
  LET v == slot[s].vid
      l == LaneOf(s)
      o == slot[s].out
  IN /\ slot[s].pc = "writing" /\ ~Persists(s)
     /\ UpdateRow(v, Written(row[v], l, o))
     /\ CountOutcome(v, l)
     /\ \/ Exists(v) /\ o # "noTranscript" /\ MoveTo(s, "recording", o)
        \/ (~Exists(v) \/ o = "noTranscript") /\ MoveTo(s, "done", "none")
     /\ UNCHANGED <<attempts, lane, loop, chosen, requests, faults, late>>

\* _persist first reads the row with session.get ...
PersistRead(s) ==
  /\ slot[s].pc = "writing" /\ Persists(s)
  /\ \/ Exists(slot[s].vid) /\ MoveTo(s, "committing", "success")
     \/ ~Exists(slot[s].vid) /\ MoveTo(s, "done", "none")
  /\ UNCHANGED <<row, attempts, lane, loop, chosen, requests, faults, late, ended>>

\* ... and commits the result later; a row deleted in between fails the flush,
\* which _handle takes for a crash of the stage.
PersistCommit(s) ==
  LET v == slot[s].vid
  IN /\ slot[s].pc = "committing"
     /\ UpdateRow(v, Written(row[v], "analysis", "success"))
     /\ CountOutcome(v, "analysis")
     /\ \/ Exists(v) /\ MoveTo(s, "recording", "success")
        \/ ~Exists(v) /\ MoveTo(s, "failing", "none")
     /\ UNCHANGED <<attempts, lane, loop, chosen, requests, faults, late>>

\* _give_back: the attempt never happened.
GiveBack(s) ==
  LET v == slot[s].vid
      o == slot[s].out
  IN /\ slot[s].pc = "givingBack"
     /\ UpdateRow(v, GivenBack(row[v], o))
     /\ attempts' = GivenBackAttempts(v, LaneOf(s))
     /\ \/ o = "limit" /\ MoveTo(s, "recording", o)
        \/ o = "anomaly" /\ MoveTo(s, "done", "none")
        \/ o = "raise" /\ MoveTo(s, "raised", "none")
     /\ UNCHANGED <<lane, loop, chosen, requests, faults, late, ended>>

\* fail_video: after a stage crash, but only a video still in the lane's queue.
FailVideo(s) ==
  LET v == slot[s].vid
      l == LaneOf(s)
  IN /\ slot[s].pc = "failing"
     /\ row' = [row EXCEPT ![v] = IF @.status = InputStatus(l) THEN Failed(@, l) ELSE @]
     /\ MoveTo(s, "recording", "failure")
     /\ UNCHANGED <<attempts, lane, loop, chosen, requests, faults, late, ended>>

\* _record; only the analysis lane, whose calls report usage, may throttle after it.
Record(s) ==
  LET l == LaneOf(s)
      o == slot[s].out
  IN /\ slot[s].pc = "recording"
     /\ \/ /\ o = "success"
           /\ UpdateLane(l, RecordSuccess(lane[l]))
           /\ \/ MoveTo(s, "done", "none")
              \/ l = "analysis" /\ MoveTo(s, "throttling", "none")
        \/ /\ o = "failure"
           /\ UpdateLane(l, RecordFailure(lane[l], PauseAfter[l]))
           /\ MoveTo(s, "done", "none")
        \/ /\ o = "limit"
           /\ \E at \in LimitTimes : UpdateLane(l, PauseForLimit(lane[l], at))
           /\ MoveTo(s, "done", "none")
     /\ UNCHANGED <<row, attempts, loop, chosen, requests, faults, ended>>

\* _maybe_throttle found a usage window too full.
Throttle(s) ==
  /\ slot[s].pc = "throttling"
  /\ \E at \in LimitTimes : UpdateLane(LaneOf(s), PauseForLimit(lane[LaneOf(s)], at))
  /\ MoveTo(s, "done", "none")
  /\ UNCHANGED <<row, attempts, loop, chosen, requests, faults, ended>>

\* CancelledError lands in any other await: nothing handles it there, so the task
\* ends with its transaction undone and its claim kept.
Interrupt(s) ==
  /\ slot[s].cancel /\ slot[s].pc # "calling"
  /\ slot' = [slot EXCEPT ![s] = SlotAt("raised")]
  /\ UNCHANGED <<row, attempts, lane, loop, chosen, requests, faults, late, ended>>

SlotStep(s) ==
  \/ Stamp(s)
  \/ \E o \in Outcome : Call(s, o)
  \/ CancelledCall(s)
  \/ Write(s) \/ PersistRead(s) \/ PersistCommit(s)
  \/ GiveBack(s) \/ FailVideo(s) \/ Record(s) \/ Throttle(s)
  \/ Interrupt(s)
-----------------------------------------------------------------------------
(* The run loop of a lane: Lane.run_forever *)

\* Mutant: startup leaves the claims of the previous process alone.
NotReleased(r, l) == r

\* startup: drop the claims a previous process left on this lane's queue.
Released(r, l) == IF r.status = InputStatus(l) THEN [r EXCEPT !.claimed = FALSE] ELSE r

Startup(l) ==
  /\ loop[l] = "down"
  /\ row' = [v \in Videos |-> Released(row[v], l)]
  /\ loop' = [loop EXCEPT ![l] = "fill"]
  /\ UNCHANGED <<attempts, lane, slot, chosen, requests, faults, late, ended>>

HasFreeSlot(l) == \E s \in SlotsOf(l) : slot[s].pc = "idle"

\* _fill: lift a limit pause that is due, then look for work.
Fill(l) ==
  /\ loop[l] = "fill"
  /\ \E now \in Clock : UpdateLane(l, ResumeIfDue(lane[l], now))
  /\ loop' = [loop EXCEPT ![l] = IF HasFreeSlot(l) THEN "check" ELSE "wait"]
  /\ UNCHANGED <<row, attempts, slot, chosen, requests, faults, ended>>

\* is_paused, read again before every claim.
CheckPaused(l) ==
  /\ loop[l] = "check"
  /\ loop' = [loop EXCEPT ![l] = IF lane[l].paused THEN "wait" ELSE "claim"]
  /\ UNCHANGED <<row, attempts, lane, slot, chosen, requests, faults, late, ended>>

\* Mutant: claim_next without claimed_at IS NULL.
ClaimableTwice(l) == {v \in Videos : row[v].status = InputStatus(l)}

Claimable(l) == {v \in Videos : row[v].status = InputStatus(l) /\ ~row[v].claimed}

\* Mutant: _fill reads is_paused once, before its loop.
AfterClaimUnchecked(l, s) ==
  IF \E t \in SlotsOf(l) \ {s} : slot[t].pc = "idle" THEN "claim" ELSE "wait"

\* Where _fill goes after a claim that fills slot s.
AfterClaim(l, s) ==
  IF \E t \in SlotsOf(l) \ {s} : slot[t].pc = "idle" THEN "check" ELSE "wait"

\* claim_next and create_task.  The newest row is preferred, but any row may be
\* the newest one that no request holds locked (SKIP LOCKED).
ClaimNext(l, s, v) ==
  /\ loop[l] = "claim"
  /\ slot[s].pc = "idle"
  /\ v \in Claimable(l)
  /\ row' = [row EXCEPT ![v].claimed = TRUE]
  /\ slot' = [slot EXCEPT ![s] = [SlotAt("created") EXCEPT !.vid = v]]
  /\ loop' = [loop EXCEPT ![l] = AfterClaim(l, s)]
  /\ late' = [late EXCEPT ![l] = IF lane[l].paused THEN @ + 1 ELSE 0]
  /\ UNCHANGED <<attempts, lane, chosen, requests, faults, ended>>

\* claim_next finds nothing.  (Rows locked by a request are found at the next poll.)
ClaimNothing(l) ==
  /\ loop[l] = "claim"
  /\ Claimable(l) = {}
  /\ loop' = [loop EXCEPT ![l] = "wait"]
  /\ UNCHANGED <<row, attempts, lane, slot, chosen, requests, faults, late, ended>>

\* task.cancel() for every task still in flight; finished ones are dropped.
Cancelled(sl) ==
  IF sl.pc \in {"idle", "done", "raised"} THEN IdleSlot ELSE [sl EXCEPT !.cancel = TRUE]

CancelAll(l) == [s \in Slots |-> IF s \in SlotsOf(l) THEN Cancelled(slot[s]) ELSE slot[s]]

\* Mutant: the loop forgets to discard the tasks that are done.
WakeKeepingDone(l) ==
  /\ loop[l] = "wait"
  /\ loop' = [loop EXCEPT ![l] = "fill"]
  /\ UNCHANGED <<row, attempts, lane, slot, chosen, requests, faults, late, ended>>

\* asyncio.wait or the poll returns: finished tasks leave in_flight, and the
\* result() of one that raised takes the lane down.
Wake(l) ==
  /\ loop[l] = "wait"
  /\ \/ /\ \A s \in SlotsOf(l) : slot[s].pc # "raised"
        /\ slot' = [s \in Slots |-> IF s \in SlotsOf(l) /\ slot[s].pc = "done"
                                    THEN IdleSlot ELSE slot[s]]
        /\ loop' = [loop EXCEPT ![l] = "fill"]
     \/ /\ \E s \in SlotsOf(l) : slot[s].pc = "raised"
        /\ slot' = CancelAll(l)
        /\ loop' = [loop EXCEPT ![l] = "cancelling"]
  /\ UNCHANGED <<row, attempts, lane, chosen, requests, faults, late, ended>>

\* Every cancelled task has ended: the process exits, and Docker restarts it.
Exit(l) ==
  /\ loop[l] = "cancelling"
  /\ \A s \in SlotsOf(l) : Settled(s)
  /\ slot' = [s \in Slots |-> IF s \in SlotsOf(l) THEN IdleSlot ELSE slot[s]]
  /\ loop' = [loop EXCEPT ![l] = "down"]
  /\ UNCHANGED <<row, attempts, lane, chosen, requests, faults, late, ended>>

LoopStep(l) ==
  \/ Startup(l) \/ Fill(l) \/ CheckPaused(l)
  \/ \E s \in SlotsOf(l), v \in Videos : ClaimNext(l, s, v)
  \/ ClaimNothing(l) \/ Wake(l) \/ Exit(l)
-----------------------------------------------------------------------------
(* Faults of the environment; each one is charged to the behaviour's budget *)

SpendFault(kind) == kind \in FaultKinds /\ faults > 0 /\ faults' = faults - 1

\* AnalysisInfrastructureError: the process cannot run claude any more.
FatalCall(s) ==
  /\ slot[s].pc = "calling" /\ ~slot[s].cancel
  /\ LaneOf(s) = "analysis"
  /\ SpendFault("fatal")
  /\ MoveTo(s, "givingBack", "raise")
  /\ UNCHANGED <<row, attempts, lane, loop, chosen, requests, late, ended>>

\* A transaction of a task raises.  Inside process the lane calls it a stage
\* crash; in fail_video or _record nothing is left to catch it.
DbError(s) ==
  /\ ~slot[s].cancel
  /\ SpendFault("transaction")
  /\ \/ slot[s].pc \in {"created", "writing", "committing", "givingBack"}
        /\ MoveTo(s, "failing", "none")
     \/ slot[s].pc \in {"failing", "recording", "throttling"}
        /\ MoveTo(s, "raised", "none")
  /\ UNCHANGED <<row, attempts, lane, loop, chosen, requests, late, ended>>

\* The same, but the transaction had committed before its connection broke.
LostAck(s) ==
  LET v == slot[s].vid
      l == LaneOf(s)
      o == slot[s].out
  IN /\ LostAcks
     /\ ~slot[s].cancel
     /\ SpendFault("transaction")
     /\ \/ /\ slot[s].pc = "created"
           /\ attempts' = StampedAttempts(v, l)
           /\ UNCHANGED <<row, ended>>
        \/ /\ slot[s].pc = "committing" \/ (slot[s].pc = "writing" /\ ~Persists(s))
           /\ UpdateRow(v, Written(row[v], l, o))
           /\ CountOutcome(v, l)
           /\ UNCHANGED attempts
        \/ /\ slot[s].pc = "givingBack"
           /\ UpdateRow(v, GivenBack(row[v], o))
           /\ attempts' = GivenBackAttempts(v, l)
           /\ UNCHANGED ended
     /\ MoveTo(s, "failing", "none")
     /\ UNCHANGED <<lane, loop, chosen, requests, late>>

\* A transaction of the loop raises, or another loop of the same process does:
\* run_forever's finally cancels every slot and the process exits.
LoopError(l) ==
  /\ loop[l] \in {"fill", "check", "claim", "wait"}
  /\ SpendFault("loop")
  /\ slot' = CancelAll(l)
  /\ loop' = [loop EXCEPT ![l] = "cancelling"]
  /\ UNCHANGED <<row, attempts, lane, chosen, requests, late, ended>>

\* The container is killed: what is committed stays, everything else is gone.
Crash(l) ==
  /\ loop[l] # "down"
  /\ SpendFault("crash")
  /\ slot' = [s \in Slots |-> IF s \in SlotsOf(l) THEN IdleSlot ELSE slot[s]]
  /\ loop' = [loop EXCEPT ![l] = "down"]
  /\ UNCHANGED <<row, attempts, lane, chosen, requests, late, ended>>

Fault ==
  \/ \E s \in Slots : FatalCall(s) \/ DbError(s) \/ LostAck(s)
  \/ \E l \in Running : LoopError(l) \/ Crash(l)
-----------------------------------------------------------------------------
(* Requests to the api container, and reanalyze_stale; each is charged too *)

SpendRequest == requests > 0 /\ requests' = requests - 1

\* Mutant: a status the models do not have.
QueueStatusUnknown(hasTranscript) == "queued"

\* Mutant: every requeued video is fetched again.
QueueStatusAlwaysPending(hasTranscript) == "pending"

\* queue_status_for
QueueStatusFor(hasTranscript) == IF hasTranscript THEN "transcribed" ELSE "pending"

Requeued(r) == [r EXCEPT !.status = QueueStatusFor(r.transcript), !.error = "none"]

\* Mutant: no 409 for a video a lane is working on.
NeverBusy(ids) == FALSE

\* _load_videos answers 404 when one is missing, _busy 409 when one is claimed.
Busy(ids) == \E v \in ids : row[v].claimed
Loaded(ids) == ids # {} /\ \A v \in ids : Exists(v)

AnalyzeVideos(ids) ==
  /\ Loaded(ids) /\ ~Busy(ids)
  /\ SpendRequest
  /\ row' = [v \in Videos |-> IF v \in ids THEN Requeued(row[v]) ELSE row[v]]
  /\ UNCHANGED <<attempts, lane, loop, slot, chosen, faults, late, ended>>

SkipVideos(ids) ==
  /\ Loaded(ids) /\ ~Busy(ids)
  /\ \A v \in ids : row[v].status # "analyzed"
  /\ SpendRequest
  /\ row' = [v \in Videos |-> IF v \in ids THEN [row[v] EXCEPT !.status = "skipped"]
                              ELSE row[v]]
  /\ UNCHANGED <<attempts, lane, loop, slot, chosen, faults, late, ended>>

\* retry_failures reads the ids its filters match and locks nothing; kind is
\* derived from the transcript, channel and max_attempts may drop any of them.
OfKind(v, kind) == kind = "any" \/ row[v].transcript = (kind = "analysis")

RetryFailures(ids, kind) ==
  /\ chosen = {} /\ ids # {}
  /\ ids \subseteq {v \in Videos : row[v].status = "failed" /\ OfKind(v, kind)}
  /\ SpendRequest
  /\ chosen' = ids
  /\ UNCHANGED <<row, attempts, lane, loop, slot, faults, late, ended>>

\* reanalyze_stale selects the same way; the cutoff and --limit may drop any.
ReanalyzeStale(ids) ==
  /\ chosen = {} /\ ids # {}
  /\ ids \subseteq {v \in Videos : row[v].status = "analyzed" /\ ~row[v].claimed}
  /\ SpendRequest
  /\ chosen' = ids
  /\ UNCHANGED <<row, attempts, lane, loop, slot, faults, late, ended>>

\* requeue_ids and the commit, later: by id, whatever became of the rows.
RequeueIds ==
  /\ chosen # {}
  /\ row' = [v \in Videos |-> IF v \in chosen /\ Exists(v) THEN Requeued(row[v])
                              ELSE row[v]]
  /\ chosen' = {}
  /\ UNCHANGED <<attempts, lane, loop, slot, requests, faults, late, ended>>

\* delete_channel cascades to the channel's videos (here a channel is one video).
DeleteChannel(v) ==
  /\ Exists(v)
  /\ SpendRequest
  /\ row' = [row EXCEPT ![v] = AbsentRow]
  /\ attempts' = [attempts EXCEPT ![v] = NoAttempts]
  /\ ended' = [ended EXCEPT ![v] = NoAttempts]
  /\ UNCHANGED <<lane, loop, slot, chosen, faults, late>>

\* discover and load_older insert a video YouTube lists and the table lacks.
Ingest(v, st) ==
  /\ ~Exists(v)
  /\ ReAddInFlight \/ \A s \in Slots : ~Holds(s, v)
  /\ SpendRequest
  /\ row' = [row EXCEPT ![v] = NewRow(st)]
  /\ UNCHANGED <<attempts, lane, loop, slot, chosen, faults, late, ended>>

\* POST /pipeline/{lane}/pause and /resume
PauseLane(l) ==
  /\ SpendRequest
  /\ UpdateLane(l, Pause(lane[l]))
  /\ UNCHANGED <<row, attempts, loop, slot, chosen, faults, ended>>

ResumeLane(l) ==
  /\ SpendRequest
  /\ UpdateLane(l, Resume(lane[l]))
  /\ UNCHANGED <<row, attempts, loop, slot, chosen, faults, ended>>

Request ==
  \/ \E ids \in SUBSET Videos : AnalyzeVideos(ids) \/ SkipVideos(ids) \/ ReanalyzeStale(ids)
  \/ \E ids \in SUBSET Videos, kind \in {"any", "transcript", "analysis"} :
       RetryFailures(ids, kind)
  \/ RequeueIds
  \/ \E v \in Videos : DeleteChannel(v)
  \/ \E v \in Videos, st \in {"discovered", "pending", "skipped"} : Ingest(v, st)
  \/ \E l \in Lane : PauseLane(l) \/ ResumeLane(l)
-----------------------------------------------------------------------------
Next ==
  \/ \E s \in Slots : SlotStep(s)
  \/ \E l \in Running : LoopStep(l)
  \/ Fault
  \/ Request

\* The event loop runs every ready task and every container is restarted
\* (restart: unless-stopped); calls to YouTube and claude are taken to end.
\* Nobody has to send a request, and nothing has to fail.
Fairness ==
  /\ \A s \in Slots : WF_vars(SlotStep(s))
  /\ \A l \in Running : WF_vars(LoopStep(l))
  /\ WF_vars(RequeueIds)

Spec == Init /\ [][Next]_vars
FairSpec == Spec /\ Fairness
-----------------------------------------------------------------------------
(* Properties *)

TypeOK ==
  /\ row \in [Videos -> Row]
  /\ attempts \in [Videos -> [Lane -> Nat]]
  /\ lane \in [Lane -> LaneRow]
  /\ loop \in [Lane -> LoopPc]
  /\ slot \in [Slots -> Slot]
  /\ chosen \subseteq Videos
  /\ requests \in Nat
  /\ faults \in Nat
  /\ late \in [Lane -> Nat]
  /\ ended \in [Videos -> [Lane -> Nat]]

\* While a task works on a video, the video stays claimed and in its lane's
\* queue, whatever requests, retries and restarts do: what the 409 of _busy, SKIP
\* LOCKED and the scope of release_claims are for.
SlotHoldsItsClaim ==
  \A s \in Slots : \A v \in Videos :
    Holds(s, v) /\ Exists(v) =>
      row[v].claimed /\ row[v].status = InputStatus(LaneOf(s))

\* No video is worked on by two tasks at once (claim_next: "without ...
\* double-claiming"), so no attempt is paid for twice.
ExclusiveHold ==
  \A s, t \in Slots : \A v \in Videos : Holds(s, v) /\ Holds(t, v) => s = t

\* Every claim is on a row in a queue, where the startup of the lane will find
\* it, and a queue holds only what its lane can work on: no transcript waits for
\* analysis unfetched, none is fetched twice, and no stale error is shown.
QueuesAreSound ==
  \A v \in Videos : Routed(row[v])

\* "failed with no transcript" is "died fetching", with one it is "died in the
\* LLM" (_failure_conditions): the lane that wrote the error is the one a retry
\* sends the video back to.
FailureKindIsDerivable == \A v \in Videos : FailedWhereItDied(row[v])

\* A claim never outlives its task in a process that keeps running: only a lane
\* that is stopped, or has a dead task to stop for, leaves one behind.
Stopping(l) ==
  loop[l] \in {"down", "cancelling"} \/ \E s \in SlotsOf(l) : slot[s].pc = "raised"

NoOrphanClaim ==
  \A v \in Videos, l \in Lane :
    row[v].claimed /\ row[v].status = InputStatus(l) /\ ~Stopping(l)
      => \E s \in SlotsOf(l) : Holds(s, v)

\* A pause, by hand or by the lane itself, lets at most one more video start.
PauseStopsClaims == \A l \in Lane : late[l] <= 1

\* Tries the stage has stamped and not yet written or given back.
InFlight(v, l) ==
  Cardinality({s \in SlotsOf(l) : Holds(s, v) /\ slot[s].pc \in HoldingPc \ {"created", "failing"}})

\* The counters that max_attempts spends: every outcome a stage wrote has been
\* counted, and beyond them a failure of the environment adds at most one try.
AttemptsAreHonest ==
  \A v \in {u \in Videos : Exists(u)}, l \in Lane :
    LET counted == ended[v][l] + InFlight(v, l)
    IN attempts[v][l] \in counted .. (counted + MaxFaults - faults)

\* A claimed video is finished, given back or released by the next startup.
ClaimsEnd == \A v \in Videos : row[v].claimed ~> ~row[v].claimed

\* A queued video leaves its queue unless the lane is paused.
QueuesDrain ==
  \A v \in Videos, l \in Running :
    row[v].status = InputStatus(l) ~> (row[v].status # InputStatus(l) \/ lane[l].paused)

\* A video that vanishes in mid-analysis is neutral: it never counts as a crash of
\* the stage when no transaction fails.
VanishedVideoIsNeutral ==
  faults = MaxFaults => \A s \in Slots : slot[s].pc # "failing"

\* A process that can no longer run claude charges no video for it: once the
\* lane is down, every attempt that did not end has been given back.
FatalErrorCostsNothing ==
  \A v \in Videos, l \in Lane : loop[l] = "down" => attempts[v][l] = ended[v][l]
=============================================================================
