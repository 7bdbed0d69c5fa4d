-------------------------- MODULE LanePauseProofs --------------------------
(***************************************************************************)
(* LanePause, for every number of slots, set of usage reports and length   *)
(* of the clock: the lane's row is sound, a limit pause is not lifted too  *)
(* early, and nothing but a person lifts any other.                        *)
(***************************************************************************)
EXTENDS LanePause, LaneStoreProofs

\* What was named since the lane was limit-paused lies no later than the time it
\* waits for, and the loop's reading of the clock is never ahead of it.
NamedIsCovered ==
  /\ seen <= now
  /\ ~LimitPaused(ln) => named = {}
  /\ LimitPaused(ln) => \A at \in named : at <= ln.resumeAt

Inv == TypeOK /\ PausesAreSound /\ NamedIsCovered
-----------------------------------------------------------------------------
LEMMA ThrottleType ==
  ASSUME NEW usage \in Usage, NEW t \in Nat
  PROVE  ThrottleUntil(usage, t) \in Nat \cup {NoTime}
  BY DEF ThrottleUntil, Usage, Window, NoWindow, Tripped, Later, NoTime

LEMMA LimitUntilType ==
  ASSUME NEW usage \in Usage, NEW t \in Nat
  PROVE  LimitUntil(usage, t) \in Nat
<1>1. LimitReset(usage) \in Nat \cup {NoTime}
  BY DEF LimitReset, Usage, Window, NoWindow, Later, NoTime
<1>2. t + Fallback \in Nat
  BY ThrottleAssumption
<1> QED
  BY <1>1, <1>2 DEF LimitUntil

\* throttle_until names a later time, at which nothing trips, and before which
\* something does: the lane waits neither too short nor too long.
THEOREM ThrottleExactly ==
  ASSUME NEW usage \in Usage, NEW t \in Nat, ThrottleUntil(usage, t) # NoTime
  PROVE  LET until == ThrottleUntil(usage, t)
         IN /\ until > t
            /\ ThrottleUntil(usage, until) = NoTime
            /\ \A u \in t .. until - 1 : ThrottleUntil(usage, u) # NoTime
<1> DEFINE five == usage.fiveHour.resetsAt
           seven == usage.sevenDay.resetsAt
           fiveFull == usage.fiveHour.utilization >= Max5h
           sevenFull == usage.sevenDay.utilization >= Max7d
           until == ThrottleUntil(usage, t)
<1>1. five \in Nat \cup {NoTime} /\ seven \in Nat \cup {NoTime}
  BY DEF Usage, Window, NoWindow
<1>2. \A u : ThrottleUntil(usage, u) =
               IF (five > u /\ fiveFull) /\ (seven > u /\ sevenFull)
               THEN Later(five, seven)
               ELSE IF five > u /\ fiveFull THEN five
               ELSE IF seven > u /\ sevenFull THEN seven
               ELSE NoTime
  BY DEF ThrottleUntil, Tripped
<1> HIDE DEF five, seven, fiveFull, sevenFull
<1>3. until > t
  BY <1>1, <1>2 DEF Later, NoTime
<1>4. ThrottleUntil(usage, until) = NoTime
  BY <1>1, <1>2 DEF Later, NoTime
<1>5. \A u \in t .. until - 1 : ThrottleUntil(usage, u) # NoTime
  BY <1>1, <1>2 DEF Later, NoTime
<1> QED
  BY <1>3, <1>4, <1>5

LEMMA Initially == ASSUME Init PROVE Inv
<1>1. TypeOK
  BY LanePauseAssumption, HealthyType DEF Init, TypeOK, LoopPc, Task, IdleTask
<1>2. PausesAreSound /\ NamedIsCovered
  BY LanePauseAssumption DEF Init, Healthy, PausesAreSound, NamedIsCovered, LimitPaused
<1> QED
  BY <1>1, <1>2 DEF Inv

\* The row that an operation leaves has its type, and is sound when the row it was
\* applied to is.
SoundRow(r) ==
  /\ r \in LaneRow
  /\ r.streak >= PauseAfter => r.paused
  /\ r.paused <=> r.reason # "none"
  /\ LimitPaused(r) => r.resumeAt # NoTime

LEMMA SoundOperations ==
  ASSUME NEW r, SoundRow(r)
  PROVE  /\ SoundRow(RecordSuccess(r))
         /\ SoundRow(RecordFailure(r, PauseAfter))
         /\ SoundRow(Pause(r))
         /\ SoundRow(Resume(r))
         /\ \A at \in Nat : SoundRow(PauseForLimit(r, at))
         /\ \A t \in Nat : SoundRow(ResumeIfDue(r, t))
<1> USE LanePauseAssumption
<1>0. r \in LaneRow
  BY DEF SoundRow
<1>1. SoundRow(RecordSuccess(r))
  BY <1>0, RecordSuccessType DEF SoundRow, RecordSuccess, LaneRow, LimitPaused
<1>2. SoundRow(RecordFailure(r, PauseAfter))
  <2>1. RecordFailure(r, PauseAfter) \in LaneRow
    BY <1>0, RecordFailureType
  <2>2. CASE Trips(r, PauseAfter)
    BY <1>0, <2>1, <2>2 DEF SoundRow, RecordFailure, LaneRow, LimitPaused
  <2>3. CASE ~Trips(r, PauseAfter)
    BY <1>0, <2>1, <2>3 DEF SoundRow, RecordFailure, Trips, LaneRow, LimitPaused
  <2> QED
    BY <2>2, <2>3
<1>3. SoundRow(Pause(r))
  BY <1>0, PauseType DEF SoundRow, Pause, LaneRow, LimitPaused
<1>4. SoundRow(Resume(r))
  BY HealthyType DEF SoundRow, Resume, Healthy, LimitPaused
<1>5. ASSUME NEW at \in Nat PROVE SoundRow(PauseForLimit(r, at))
  <2>1. PauseForLimit(r, at) \in LaneRow
    BY <1>0, PauseForLimitType
  <2>2. CASE r.paused /\ r.reason # "limit"
    BY <2>2 DEF SoundRow, PauseForLimit
  <2>3. CASE ~(r.paused /\ r.reason # "limit")
    BY <1>0, <2>1, <2>3 DEF SoundRow, PauseForLimit, LaneRow, LimitPaused, Later, NoTime
  <2> QED
    BY <2>2, <2>3
<1>6. ASSUME NEW t \in Nat PROVE SoundRow(ResumeIfDue(r, t))
  BY <1>4 DEF ResumeIfDue
<1> QED
  BY <1>1, <1>2, <1>3, <1>4, <1>5, <1>6

\* Which operation keeps a limit pause, its clock or its absence.
LEMMA LimitKept ==
  ASSUME NEW r, SoundRow(r)
  PROVE  /\ \A q \in {RecordSuccess(r), RecordFailure(r, PauseAfter)} :
              LimitPaused(q) <=> LimitPaused(r)
         /\ \A q \in {RecordSuccess(r), RecordFailure(r, PauseAfter)} :
              q.resumeAt = r.resumeAt
         /\ ~LimitPaused(Pause(r))
         /\ ~LimitPaused(Resume(r))
<1>1. r \in LaneRow
  BY DEF SoundRow
<1>2. /\ LimitPaused(RecordSuccess(r)) <=> LimitPaused(r)
      /\ RecordSuccess(r).resumeAt = r.resumeAt
  BY <1>1 DEF RecordSuccess, LimitPaused, LaneRow
<1>3. /\ LimitPaused(RecordFailure(r, PauseAfter)) <=> LimitPaused(r)
      /\ RecordFailure(r, PauseAfter).resumeAt = r.resumeAt
  <2>1. CASE Trips(r, PauseAfter)
    BY <1>1, <2>1 DEF RecordFailure, Trips, LimitPaused, LaneRow
  <2>2. CASE ~Trips(r, PauseAfter)
    BY <1>1, <2>2 DEF RecordFailure, LimitPaused, LaneRow
  <2> QED
    BY <2>1, <2>2
<1>4. ~LimitPaused(Pause(r)) /\ ~LimitPaused(Resume(r))
  BY <1>1 DEF Pause, Resume, Healthy, LimitPaused, LaneRow
<1> QED
  BY <1>2, <1>3, <1>4

LEMMA InvIsSound == Inv => SoundRow(ln)
  BY DEF Inv, TypeOK, PausesAreSound, SoundRow

LEMMA TaskType ==
  ASSUME TypeOK, NEW s \in Slots, NEW at \in Nat \cup {NoTime}, PauseAt(s, at)
  PROVE  task' \in [Slots -> Task]
  BY DEF TypeOK, PauseAt, Task, IdleTask

\* An UPDATE of the row by record_success, record_failure or a person.
LEMMA UpdateKeeps ==
  ASSUME Inv, NEW r, UpdateLane(r), seen' <= now',
         \/ r \in {RecordSuccess(ln), RecordFailure(ln, PauseAfter), Pause(ln), Resume(ln)}
         \/ \E t \in Nat : r = ResumeIfDue(ln, t)
  PROVE  PausesAreSound' /\ NamedIsCovered' /\ ln' \in LaneRow /\ named' \subseteq Nat
<1>1. SoundRow(ln) /\ SoundRow(r)
  BY InvIsSound, SoundOperations
<1>2. ln' = r /\ named' = IF LimitPaused(r) THEN named ELSE {}
  BY DEF UpdateLane
<1>3. PausesAreSound' /\ ln' \in LaneRow
  BY <1>1, <1>2 DEF SoundRow, PausesAreSound
<1>4. named' \subseteq Nat
  BY <1>2 DEF Inv, TypeOK
<1>5. LimitPaused(r) => LimitPaused(ln) /\ r.resumeAt = ln.resumeAt
  BY <1>1, LimitKept DEF ResumeIfDue
<1>6. NamedIsCovered'
  BY <1>2, <1>5 DEF Inv, NamedIsCovered
<1> QED
  BY <1>3, <1>4, <1>6

LEMMA WritePauseKeeps ==
  ASSUME Inv, NEW s \in Slots, WritePause(s)
  PROVE  Inv'
<1> DEFINE at == task[s].at
<1>1. at \in Nat
  BY DEF Inv, TypeOK, WritePause, Task
<1>2. SoundRow(ln) /\ SoundRow(ln')
  BY <1>1, InvIsSound, SoundOperations DEF WritePause
<1>3. named' = IF LimitPaused(ln') THEN named \cup {at} ELSE {}
  BY DEF WritePause
<1>4. task' \in [Slots -> Task]
  BY DEF WritePause, Inv, TypeOK, Task, IdleTask
<1>5. NamedIsCovered'
  <2>1. CASE ln.paused /\ ln.reason # "limit"
    BY <1>2, <1>3, <2>1 DEF WritePause, PauseForLimit, LimitPaused, Inv, NamedIsCovered
  <2>2. CASE LimitPaused(ln)
    <3>1. ln.resumeAt \in Nat
      BY <1>2, <2>2 DEF SoundRow, LaneRow
    <3>2. ln'.resumeAt = Later(ln.resumeAt, at)
      BY <1>2, <2>2, <3>1 DEF WritePause, PauseForLimit, LimitPaused, SoundRow, LaneRow, NoTime
    <3> QED
      BY <1>1, <1>3, <2>2, <3>1, <3>2 DEF WritePause, Inv, TypeOK, NamedIsCovered, Later
  <2>3. CASE ~ln.paused
    <3>1. ln'.resumeAt = at
      BY <1>2, <2>3 DEF WritePause, PauseForLimit, LimitPaused, SoundRow, LaneRow
    <3>2. named = {}
      BY <2>3 DEF Inv, NamedIsCovered, LimitPaused
    <3> QED
      BY <1>1, <1>3, <3>1, <3>2 DEF WritePause, Inv, NamedIsCovered
  <2> QED
    BY <2>1, <2>2, <2>3 DEF LimitPaused
<1>6. named' \subseteq Nat
  BY <1>1, <1>3 DEF Inv, TypeOK
<1> QED
  BY <1>2, <1>4, <1>5, <1>6 DEF WritePause, Inv, TypeOK, PausesAreSound, SoundRow

LEMMA InvStep == ASSUME Inv, [Next]_vars PROVE Inv'
<1> USE LanePauseAssumption
<1>1. CASE UNCHANGED vars
  BY <1>1 DEF vars, Inv, TypeOK, PausesAreSound, NamedIsCovered
<1>2. CASE ReadClock \/ CheckPaused \/ ClaimNothing \/ Tick
  <2>1. UNCHANGED <<ln, task, requests, named, fails>>
    BY <1>2 DEF ReadClock, CheckPaused, ClaimNothing, Tick
  <2>2. now' \in Nat /\ seen' \in Nat /\ seen' <= now' /\ loop' \in LoopPc
    BY <1>2 DEF ReadClock, CheckPaused, ClaimNothing, Tick, Inv, TypeOK, NamedIsCovered, LoopPc
  <2> QED
    BY <2>1, <2>2 DEF Inv, TypeOK, PausesAreSound, NamedIsCovered
<1>3. ASSUME NEW s \in Slots, Claim(s) PROVE Inv'
  <2>1. task' \in [Slots -> Task]
    BY <1>3 DEF Claim, Inv, TypeOK, Task
  <2>2. loop' \in LoopPc
    BY <1>3 DEF Claim, LoopPc
  <2> QED
    BY <1>3, <2>1, <2>2 DEF Claim, Inv, TypeOK, PausesAreSound, NamedIsCovered
<1>4. CASE Lift
  <2>1. UpdateLane(ResumeIfDue(ln, seen)) /\ UNCHANGED <<now, seen, task, requests, fails>>
    BY <1>4 DEF Lift
  <2>2. PausesAreSound' /\ NamedIsCovered' /\ ln' \in LaneRow /\ named' \subseteq Nat
    BY <2>1, UpdateKeeps DEF Inv, TypeOK, NamedIsCovered
  <2>3. loop' \in LoopPc
    BY <1>4 DEF Lift, LoopPc
  <2> QED
    BY <2>1, <2>2, <2>3 DEF Inv, TypeOK
<1>5. CASE PauseLane \/ ResumeLane
  <2>1. PausesAreSound' /\ NamedIsCovered' /\ ln' \in LaneRow /\ named' \subseteq Nat
    BY <1>5, UpdateKeeps DEF PauseLane, ResumeLane, Inv, NamedIsCovered
  <2>2. requests' \in Nat
    BY <1>5 DEF PauseLane, ResumeLane, Inv, TypeOK
  <2> QED
    BY <1>5, <2>1, <2>2 DEF PauseLane, ResumeLane, Inv, TypeOK
<1>6. ASSUME NEW s \in Slots, NEW usage \in Reports, Success(s, usage) PROVE Inv'
  <2>1. PausesAreSound' /\ NamedIsCovered' /\ ln' \in LaneRow /\ named' \subseteq Nat
    BY <1>6, UpdateKeeps DEF Success, Inv, NamedIsCovered
  <2>2. task' \in [Slots -> Task]
    BY <1>6, ThrottleType, TaskType DEF Success, Inv, TypeOK
  <2> QED
    BY <1>6, <2>1, <2>2 DEF Success, Inv, TypeOK
<1>7. ASSUME NEW s \in Slots, NEW usage \in Reports, Limit(s, usage) PROVE Inv'
  <2>1. task' \in [Slots -> Task]
    BY <1>7, LimitUntilType, TaskType DEF Limit, Inv, TypeOK
  <2> QED
    BY <1>7, <2>1 DEF Limit, Inv, TypeOK, PausesAreSound, NamedIsCovered
<1>8. ASSUME NEW s \in Slots, Failure(s) PROVE Inv'
  <2>1. PausesAreSound' /\ NamedIsCovered' /\ ln' \in LaneRow /\ named' \subseteq Nat
    BY <1>8, UpdateKeeps DEF Failure, Inv, NamedIsCovered
  <2>2. task' \in [Slots -> Task]
    BY <1>8 DEF Failure, Inv, TypeOK, Task, IdleTask
  <2>3. fails' \in Nat
    BY <1>8 DEF Failure, Inv, TypeOK
  <2> QED
    BY <1>8, <2>1, <2>2, <2>3 DEF Failure, Inv, TypeOK
<1>9. ASSUME NEW s \in Slots, WritePause(s) PROVE Inv'
  BY <1>9, WritePauseKeeps
<1> QED
  BY <1>1, <1>2, <1>3, <1>4, <1>5, <1>6, <1>7, <1>8, <1>9 DEF Next, LoopStep, TaskStep

LEMMA Invariance == Spec => []Inv
  BY Initially, InvStep, PTL DEF Spec

\* The clock, the row, the loop and the tasks keep their types.
THEOREM Typing == Spec => []TypeOK
  BY Invariance, PTL DEF Inv

\* However many slots report and whenever, a lane whose streak reached pauseAfter is
\* paused, a pause has a reason, and a limit pause a time.
THEOREM RowIsSound == Spec => []PausesAreSound
  BY Invariance, PTL DEF Inv

\* No limit pause is lifted before every reset named during it, but by a person.
THEOREM LimitPauseIsKept == Spec => LimitPauseHolds
<1>1. ASSUME Inv, [Next]_vars
      PROVE  LimitPaused(ln) /\ ~ln'.paused => ResumeLane \/ \A at \in named : at <= now
  <2>1. SUFFICES ASSUME LimitPaused(ln), ~ln'.paused, ~ResumeLane
                 PROVE  \A at \in named : at <= now
    OBVIOUS
  <2>2. SoundRow(ln) /\ ln \in LaneRow
    BY <1>1, InvIsSound DEF SoundRow
  <2>3. CASE ln' = ln
    BY <2>1, <2>3 DEF LimitPaused
  <2>4. CASE Lift
    <3>1. Due(ln, seen)
      BY <2>1, <2>4 DEF Lift, UpdateLane, ResumeIfDue, LimitPaused
    <3>2. ln.resumeAt <= seen /\ seen <= now /\ \A at \in named : at <= ln.resumeAt
      BY <1>1, <2>1, <2>2, <3>1 DEF Due, SoundRow, Inv, NamedIsCovered
    <3> QED
      BY <1>1, <2>2, <3>2 DEF Inv, TypeOK, LaneRow, NoTime
  <2>5. ASSUME NEW s \in Slots, NEW usage \in Reports, Success(s, usage) PROVE FALSE
    BY <2>1, <2>2, <2>5 DEF Success, UpdateLane, RecordSuccess, LimitPaused, LaneRow
  <2>6. ASSUME NEW s \in Slots, Failure(s) PROVE FALSE
    <3>1. ~Trips(ln, PauseAfter)
      BY <2>1 DEF Trips, LimitPaused
    <3>2. ln'.paused
      BY <2>1, <2>2, <2>6, <3>1 DEF Failure, UpdateLane, RecordFailure, LimitPaused, LaneRow
    <3> QED
      BY <2>1, <3>2
  <2>7. ASSUME NEW s \in Slots, WritePause(s) PROVE FALSE
    BY <2>1, <2>2, <2>7 DEF WritePause, PauseForLimit, LimitPaused, LaneRow
  <2>8. CASE PauseLane
    BY <2>1, <2>2, <2>8 DEF PauseLane, UpdateLane, Pause, LaneRow
  <2> QED
    BY <1>1, <2>1, <2>3, <2>4, <2>5, <2>6, <2>7, <2>8
    DEF Next, LoopStep, TaskStep, vars, ReadClock, CheckPaused, Claim, ClaimNothing, Limit, Tick
<1> QED
  BY <1>1, Invariance, PTL DEF Spec, LimitPauseHolds

\* A manual or error pause waits for a person, whatever the slots still in flight
\* report and whatever the clock says.
THEOREM OtherPausesWait == Spec => OnlyAPersonLifts
<1> DEFINE Waits(r) == r.reason \in {"manual", "auto"}
<1>1. ASSUME Inv, [Next]_vars
      PROVE  Waits(ln) => Waits(ln') \/ ResumeLane
  <2>1. SUFFICES ASSUME Waits(ln), ~ResumeLane
                 PROVE  Waits(ln')
    OBVIOUS
  <2>2. ln \in LaneRow /\ ln.paused
    BY <1>1, <2>1 DEF Inv, TypeOK, PausesAreSound
  <2>3. CASE ln' = ln
    BY <2>1, <2>3
  <2>4. CASE Lift
    BY <2>1, <2>4 DEF Lift, UpdateLane, ResumeIfDue, Due
  <2>5. ASSUME NEW s \in Slots, NEW usage \in Reports, Success(s, usage) PROVE Waits(ln')
    BY <2>1, <2>2, <2>5 DEF Success, UpdateLane, RecordSuccess, LaneRow
  <2>6. ASSUME NEW s \in Slots, Failure(s) PROVE Waits(ln')
    <3>1. ~Trips(ln, PauseAfter)
      BY <2>2 DEF Trips
    <3> QED
      BY <2>1, <2>2, <2>6, <3>1 DEF Failure, UpdateLane, RecordFailure, LaneRow
  <2>7. ASSUME NEW s \in Slots, WritePause(s) PROVE Waits(ln')
    BY <2>1, <2>2, <2>7 DEF WritePause, PauseForLimit
  <2>8. CASE PauseLane
    BY <2>2, <2>8 DEF PauseLane, UpdateLane, Pause, LaneRow
  <2> QED
    BY <1>1, <2>1, <2>3, <2>4, <2>5, <2>6, <2>7, <2>8
    DEF Next, LoopStep, TaskStep, vars, ReadClock, CheckPaused, Claim, ClaimNothing, Limit, Tick
<1> QED
  BY <1>1, Invariance, PTL DEF Spec, OnlyAPersonLifts

\* throttle_until pauses exactly as long as needed, for any usage report and limits,
\* whenever a slot asks.
THEOREM ThrottlesAreExact == Spec => []ThrottleIsExact
<1>1. TypeOK => ThrottleIsExact
  <2>1. Reports \subseteq Usage
    BY LanePauseAssumption
  <2> QED
    BY <2>1, ThrottleExactly DEF TypeOK, ThrottleIsExact
<1> QED
  BY <1>1, Typing, PTL
=============================================================================
