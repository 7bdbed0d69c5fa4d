----------------------------- MODULE LanePause -----------------------------
(***************************************************************************)
(* One lane's pauses against a clock: the analysis lane pauses itself on a *)
(* streak of failures ("auto", waits for a person) and on a usage limit    *)
(* ("limit", lifts itself when the window resets), a person pauses and     *)
(* resumes it, and slots that were in flight when it paused still report.  *)
(* Lanes.tla has the videos, the faults and both lanes, with any reading   *)
(* of the clock; here the clock moves and usage reports name real times.   *)
(***************************************************************************)
EXTENDS UsageThrottle

CONSTANTS
  Slots,        \* in-flight places of the lane (concurrency)
  PauseAfter,   \* failures in a row that pause it
  Reports,      \* usage reports a call may bring back
  MaxTime,      \* bound: the last instant of the clock
  MaxRequests   \* bound: pauses and resumes by a person

ASSUME LanePauseAssumption ==
  /\ PauseAfter \in Nat \ {0}
  /\ Reports \subseteq Usage
  /\ MaxTime \in Nat
  /\ MaxRequests \in Nat

VARIABLES
  now,       \* the clock
  ln,        \* the lane's row
  loop,      \* where the run loop is
  seen,      \* the time the loop read for resume_if_due
  task,      \* the task of each slot, and the reset it is about to write
  requests,  \* clicks left in this behaviour
  named,     \* history: resets written to the lane since it was limit-paused
  fails      \* history: failures since the last success or click on resume

vars == <<now, ln, loop, seen, task, requests, named, fails>>
-----------------------------------------------------------------------------
LoopPc == {"fill", "lift", "check", "claim"}
Task == [pc : {"idle", "working"}, at : {NoTime}] \cup [pc : {"pausing"}, at : Nat]
IdleTask == [pc |-> "idle", at |-> NoTime]

Init ==
  /\ now = 0
  /\ ln = Healthy
  /\ loop = "fill"
  /\ seen = 0
  /\ task = [s \in Slots |-> IdleTask]
  /\ requests = MaxRequests
  /\ named = {}
  /\ fails = 0

FreeSlot == \E s \in Slots : task[s].pc = "idle"

\* The lane's row becomes r; a pause that is no longer a limit pause forgets what
\* was named.
UpdateLane(r) ==
  /\ ln' = r
  /\ named' = IF LimitPaused(r) THEN named ELSE {}
-----------------------------------------------------------------------------
(* The run loop: _fill *)

\* utcnow() is evaluated before the session is opened ...
ReadClock ==
  /\ loop = "fill"
  /\ seen' = now
  /\ loop' = "lift"
  /\ UNCHANGED <<now, ln, task, requests, named, fails>>

\* Mutant: _fill looks at is_paused before resume_if_due.
LiftIfRunning ==
  /\ loop = "lift"
  /\ UpdateLane(IF ln.paused THEN ln ELSE ResumeIfDue(ln, seen))
  /\ loop' = IF FreeSlot THEN "check" ELSE "fill"
  /\ UNCHANGED <<now, seen, task, requests, fails>>

\* ... and the UPDATE of resume_if_due compares with it.
Lift ==
  /\ loop = "lift"
  /\ UpdateLane(ResumeIfDue(ln, seen))
  /\ loop' = IF FreeSlot THEN "check" ELSE "fill"
  /\ UNCHANGED <<now, seen, task, requests, fails>>

CheckPaused ==
  /\ loop = "check"
  /\ loop' = IF ln.paused THEN "fill" ELSE "claim"
  /\ UNCHANGED <<now, ln, seen, task, requests, named, fails>>

\* claim_next and create_task; the lane may have paused since is_paused was read.
Claim(s) ==
  /\ loop = "claim"
  /\ task[s].pc = "idle"
  /\ task' = [task EXCEPT ![s].pc = "working"]
  /\ loop' = IF \E t \in Slots \ {s} : task[t].pc = "idle" THEN "check" ELSE "fill"
  /\ UNCHANGED <<now, ln, seen, requests, named, fails>>

\* The queue is empty.
ClaimNothing ==
  /\ loop = "claim"
  /\ loop' = "fill"
  /\ UNCHANGED <<now, ln, seen, task, requests, named, fails>>
-----------------------------------------------------------------------------
(* A slot's task: _record *)

\* What the slot does after its outcome: write a pause, or leave.
PauseAt(s, at) ==
  task' = [task EXCEPT ![s] = IF at = NoTime THEN IdleTask
                              ELSE [pc |-> "pausing", at |-> at]]

\* record_success, and the decision of _maybe_throttle at this instant.
Success(s, usage) ==
  /\ task[s].pc = "working"
  /\ UpdateLane(RecordSuccess(ln))
  /\ PauseAt(s, ThrottleUntil(usage, now))
  /\ fails' = 0
  /\ UNCHANGED <<now, loop, seen, requests>>

\* UsageLimitReached: the video is handed back, the lane will be paused.  The
\* fallback's reset has to lie within the clock.
Limit(s, usage) ==
  /\ task[s].pc = "working"
  /\ LimitUntil(usage, now) <= MaxTime
  /\ PauseAt(s, LimitUntil(usage, now))
  /\ UNCHANGED <<now, ln, loop, seen, requests, named, fails>>

\* record_failure.  (fails stops counting at PauseAfter: no property looks further.)
Failure(s) ==
  /\ task[s].pc = "working"
  /\ UpdateLane(RecordFailure(ln, PauseAfter))
  /\ task' = [task EXCEPT ![s] = IdleTask]
  /\ fails' = IF fails < PauseAfter THEN fails + 1 ELSE fails
  /\ UNCHANGED <<now, loop, seen, requests>>

\* pause_for_limit, in a transaction of its own some time after the decision.
WritePause(s) ==
  /\ task[s].pc = "pausing"
  /\ ln' = PauseForLimit(ln, task[s].at)
  /\ named' = IF LimitPaused(ln') THEN named \cup {task[s].at} ELSE {}
  /\ task' = [task EXCEPT ![s] = IdleTask]
  /\ UNCHANGED <<now, loop, seen, requests, fails>>
-----------------------------------------------------------------------------
(* A person, and the clock *)

PauseLane ==
  /\ requests > 0
  /\ requests' = requests - 1
  /\ UpdateLane(Pause(ln))
  /\ UNCHANGED <<now, loop, seen, task, fails>>

ResumeLane ==
  /\ requests > 0
  /\ requests' = requests - 1
  /\ UpdateLane(Resume(ln))
  /\ fails' = 0
  /\ UNCHANGED <<now, loop, seen, task>>

Tick ==
  /\ now < MaxTime
  /\ now' = now + 1
  /\ UNCHANGED <<ln, loop, seen, task, requests, named, fails>>
-----------------------------------------------------------------------------
LoopStep == ReadClock \/ Lift \/ CheckPaused \/ (\E s \in Slots : Claim(s)) \/ ClaimNothing

TaskStep(s) ==
  \/ \E usage \in Reports : Success(s, usage) \/ Limit(s, usage)
  \/ Failure(s)
  \/ WritePause(s)

Next ==
  \/ LoopStep
  \/ \E s \in Slots : TaskStep(s)
  \/ PauseLane \/ ResumeLane
  \/ Tick

Spec == Init /\ [][Next]_vars

\* Time passes, and the loop of a live process comes back to _fill.
FairSpec == Spec /\ WF_vars(Tick) /\ WF_vars(LoopStep)
-----------------------------------------------------------------------------
(* Properties *)

TypeOK ==
  /\ now \in Nat
  /\ ln \in LaneRow
  /\ loop \in LoopPc
  /\ seen \in Nat
  /\ task \in [Slots -> Task]
  /\ requests \in Nat
  /\ named \subseteq Nat
  /\ fails \in Nat

\* A lane whose streak has reached pauseAfter is paused, and every pause has a
\* reason that says what may lift it; a limit pause has the time it waits for.
PausesAreSound ==
  /\ ln.streak >= PauseAfter => ln.paused
  /\ ln.paused <=> ln.reason # "none"
  /\ LimitPaused(ln) => ln.resumeAt # NoTime

\* Two limits reported by slots that end together keep the lane paused until the
\* later one has reset (pause_for_limit): no step but a click on resume lifts a
\* limit pause before every reset named during it has passed.
LimitPauseHolds ==
  [][LimitPaused(ln) /\ ~ln'.paused => ResumeLane \/ \A at \in named : at <= now]_vars

\* A manual or error pause waits for a person: no late report of a slot and no
\* clock lifts it or turns it into a pause that lifts itself.
OnlyAPersonLifts ==
  [][ln.reason \in {"manual", "auto"} => ln'.reason \in {"manual", "auto"} \/ ResumeLane]_vars

\* A limit pause ends once its window has reset; it cannot wedge the lane.
LimitPauseEnds == LimitPaused(ln) ~> ~LimitPaused(ln)

\* throttle_until pauses exactly as long as needed: at the time it names nothing
\* trips any more, and at any earlier time something would trip again.
ThrottleIsExact ==
  \A usage \in Reports :
    LET until == ThrottleUntil(usage, now)
    IN until # NoTime =>
         /\ until > now
         /\ ThrottleUntil(usage, until) = NoTime
         /\ \A t \in now .. until - 1 : ThrottleUntil(usage, t) # NoTime

\* A lane pauses itself after pauseAfter failures in a row (lanes.py), and that
\* pause is a person's to lift.
StreakStaysPaused == fails >= PauseAfter => ln.paused
=============================================================================
