----------------------------- MODULE LaneStore -----------------------------
(***************************************************************************)
(* The pipeline_lanes row and the single-UPDATE operations of              *)
(* app/pipeline/lane_store.py on it, as functions from a row to a row.     *)
(* Each one is one SQL statement in one short transaction, so a caller     *)
(* applies it in one step.  Times are numbers; NoTime is SQL's NULL.       *)
(* last_error, usage, paused_at and the heartbeat are shown to a person    *)
(* and steer nothing, so the row leaves them out.                          *)
(***************************************************************************)
EXTENDS Integers

NoTime == -1

Reason == {"none", "manual", "auto", "limit"}

LaneRow == [paused   : BOOLEAN,
            reason   : Reason,
            streak   : Nat,
            resumeAt : Nat \cup {NoTime}]

Healthy == [paused |-> FALSE, reason |-> "none", streak |-> 0, resumeAt |-> NoTime]

Later(a, b) == IF a >= b THEN a ELSE b

RecordSuccess(ln) == [ln EXCEPT !.streak = 0]

\* Mutant: the lane pauses one failure too late.
TripsLate(ln, pauseAfter) == ln.streak >= pauseAfter /\ ~ln.paused

\* record_failure: the streak that reaches pauseAfter pauses a running lane; a
\* lane that is paused already keeps its reason.
Trips(ln, pauseAfter) == ln.streak + 1 >= pauseAfter /\ ~ln.paused

\* Mutant: a reason nobody knows how to lift.
RecordFailureUnknown(ln, pauseAfter) ==
  [ln EXCEPT !.streak = @ + 1,
             !.paused = @ \/ Trips(ln, pauseAfter),
             !.reason = IF Trips(ln, pauseAfter) THEN "error" ELSE @]

RecordFailure(ln, pauseAfter) ==
  [ln EXCEPT !.streak = @ + 1,
             !.paused = @ \/ Trips(ln, pauseAfter),
             !.reason = IF Trips(ln, pauseAfter) THEN "auto" ELSE @]

\* pause: the operator's button; whatever the reason was, it is "manual" now.
\* resume_at is left as it was.
Pause(ln) == [ln EXCEPT !.paused = TRUE, !.reason = "manual"]

\* _RESUMED: the pause, its reason, the streak and the clock all go together.
Resume(ln) == Healthy

\* pause_for_limit: WHERE the lane runs or is already limit-paused; the later of
\* the two reset times stands.
LimitPaused(ln) == ln.paused /\ ln.reason = "limit"

\* Mutant: the last report wins, whatever was named before.
PauseForLimitLast(ln, at) ==
  IF ln.paused /\ ln.reason # "limit"
  THEN ln
  ELSE [ln EXCEPT !.paused = TRUE, !.reason = "limit", !.resumeAt = at]

\* Mutant: the UPDATE without its WHERE on the reason.
PauseForLimitAlways(ln, at) ==
  [ln EXCEPT !.paused = TRUE,
             !.reason = "limit",
             !.resumeAt = IF LimitPaused(ln) /\ @ # NoTime THEN Later(@, at) ELSE at]

PauseForLimit(ln, at) ==
  IF ln.paused /\ ln.reason # "limit"
  THEN ln
  ELSE [ln EXCEPT !.paused = TRUE,
                  !.reason = "limit",
                  !.resumeAt = IF LimitPaused(ln) /\ @ # NoTime THEN Later(@, at) ELSE at]

\* resume_if_due: a limit pause whose time has come, or that has no time.
Due(ln, now) == ln.reason = "limit" /\ (ln.resumeAt = NoTime \/ ln.resumeAt <= now)

ResumeIfDue(ln, now) == IF Due(ln, now) THEN Resume(ln) ELSE ln
=============================================================================
