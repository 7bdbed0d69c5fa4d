----------------------------- MODULE JobsProofs -----------------------------
(***************************************************************************)
(* Jobs, for every number of rows and faults: the types, each job executed *)
(* once, waiting work left alone, and the job slot of JobSlot implemented. *)
(***************************************************************************)
EXTENDS Jobs, TLAPS

\* An open enqueue_job transaction holds the lock; the scheduler's is open only
\* while the container is up and no task of its own is executing.
LockIsHeld ==
  \A p \in Process :
    enq[p].pc # "idle" =>
      /\ lock = p
      /\ p = "fetch" => fetch /\ exec["scheduler"].pc = "idle"

\* Nothing can start between the check and the insert.
CheckStands ==
  \A p \in Process : enq[p].pc = "checked" /\ ~enq[p].saw => RunningJobs = {}

OneRuns == \A j, k \in RunningJobs : j = k

\* An executor has a running, claimed row, and is the only executor.
ExecutorHolds ==
  \A x \in Executor :
    exec[x].pc # "idle" =>
      /\ fetch
      /\ exec[x].id \in RunningJobs
      /\ job[exec[x].id].claimed
      /\ \A y \in Executor : exec[y].pc # "idle" => x = y

Inv == TypeOK /\ LockIsHeld /\ CheckStands /\ OneRuns /\ ExecutorHolds
-----------------------------------------------------------------------------
LEMMA Initially == ASSUME Init PROVE Inv
<1>1. TypeOK
  <2>1. job \in [JobIds -> Job]
    <3>1. NoRow \in Job
      BY DEF NoRow, Job, Kind
    <3>2. \A kind \in Kind, claimed \in BOOLEAN :
            [status |-> "running", kind |-> kind, claimed |-> claimed] \in Job
      BY DEF Job
    <3> QED
      BY <3>1, <3>2 DEF Init
  <2>2. enq \in [Process -> Enq] /\ exec \in [Executor -> Exec]
    BY DEF Init, Enq, IdleEnq, Exec, IdleExec
  <2> QED
    BY <2>1, <2>2, JobsAssumption DEF Init, TypeOK
<1>2. LockIsHeld /\ CheckStands /\ ExecutorHolds
  BY DEF Init, LockIsHeld, CheckStands, ExecutorHolds, IdleEnq, IdleExec
<1>3. OneRuns
  BY DEF Init, OneRuns, RunningJobs, NoRow
<1> QED
  BY <1>1, <1>2, <1>3 DEF Inv

\* A transaction that ends leaves the types of the lock and of the callers alone.
LEMMA LeaveTypes ==
  ASSUME TypeOK, NEW p \in Process, Leave(p)
  PROVE  lock' \in Process \cup {"none"} /\ enq' \in [Process -> Enq]
  BY DEF TypeOK, Leave, Enq, IdleEnq

LEMMA NewRowType == ASSUME NEW p \in Process PROVE NewRow(p) \in Job
  BY DEF NewRow, ClaimedBy, Job, Kind

\* Every step keeps the types.
LEMMA TypeStep == ASSUME TypeOK, [Next]_vars PROVE TypeOK'
<1>1. CASE UNCHANGED vars
  BY <1>1 DEF vars, TypeOK
<1>2. ASSUME NEW p \in Process, Lock(p) \/ CheckRunning(p) PROVE TypeOK'
  <2>1. [enq[p] EXCEPT !.pc = "locked"] \in Enq
    BY DEF TypeOK, Enq
  <2>2. [pc |-> "checked", saw |-> RunningJobs # {}] \in Enq
    BY Zenon DEF Enq
  <2>3. enq' \in [Process -> Enq]
    BY <1>2, <2>1, <2>2 DEF TypeOK, Lock, CheckRunning
  <2> QED
    BY <1>2, <2>3 DEF TypeOK, Lock, CheckRunning
<1>3. ASSUME NEW p \in Process, AlreadyRunning(p) \/ Abandon(p) PROVE TypeOK'
  <2>1. Leave(p) /\ UNCHANGED <<job, exec, fetch, faults>>
    BY <1>3 DEF AlreadyRunning, Abandon
  <2> QED
    BY <2>1, LeaveTypes DEF TypeOK
<1>4. ASSUME NEW p \in Process, NEW j \in JobIds, Insert(p, j) PROVE TypeOK'
  <2>1. job' \in [JobIds -> Job]
    BY <1>4, NewRowType DEF Insert, TypeOK
  <2>2. exec' \in [Executor -> Exec]
    BY <1>4 DEF Insert, TypeOK, Exec
  <2> QED
    BY <1>4, <2>1, <2>2, LeaveTypes DEF Insert, TypeOK
<1>5. ASSUME NEW x \in Executor, RunEnds(x) PROVE TypeOK'
  <2>1. exec' \in [Executor -> Exec]
    <3>1. PICK ok \in BOOLEAN : exec' = [exec EXCEPT ![x].pc = "finishing", ![x].ok = ok]
      BY <1>5 DEF RunEnds
    <3>2. [exec[x] EXCEPT !.pc = "finishing", !.ok = ok] \in Exec
      BY DEF TypeOK, Exec
    <3> QED
      BY <3>1, <3>2 DEF TypeOK
  <2> QED
    BY <1>5, <2>1 DEF RunEnds, TypeOK
<1>6. ASSUME NEW x \in Executor, Finish(x) PROVE TypeOK'
  <2>1. exec' \in [Executor -> Exec]
    BY <1>6 DEF Finish, TypeOK, Exec, IdleExec
  <2>2. job' \in [JobIds -> Job]
    BY <1>6 DEF Finish, TypeOK, Job
  <2> QED
    BY <1>6, <2>1, <2>2 DEF Finish, TypeOK
<1>7. CASE Startup
  <2>1. job' \in [JobIds -> Job]
    BY <1>7 DEF Startup, TypeOK, Job
  <2> QED
    BY <1>7, <2>1 DEF Startup, TypeOK
<1>8. ASSUME NEW j \in JobIds, Claim(j) PROVE TypeOK'
  <2>1. job' \in [JobIds -> Job]
    BY <1>8 DEF Claim, TypeOK, Job
  <2>2. exec' \in [Executor -> Exec]
    BY <1>8 DEF Claim, TypeOK, Exec
  <2> QED
    BY <1>8, <2>1, <2>2 DEF Claim, TypeOK
<1>9. CASE Crash \/ WorkerFinishFails
  <2>1. Down /\ faults' = faults - 1 /\ faults > 0 /\ UNCHANGED job
    BY <1>9 DEF Crash, WorkerFinishFails, SpendFault
  <2>2. exec' \in [Executor -> Exec]
    BY <2>1 DEF Down, Exec, IdleExec
  <2>3. lock' \in Process \cup {"none"} /\ enq' \in [Process -> Enq]
    BY <2>1, LeaveTypes DEF Down, Process
  <2>4. faults' \in Nat
    BY <2>1 DEF TypeOK
  <2>5. fetch' \in BOOLEAN
    BY <2>1, Zenon DEF Down
  <2> QED
    BY <2>1, <2>2, <2>3, <2>4, <2>5 DEF TypeOK
<1>10. CASE SchedulerFinishFails
  <2>1. exec' \in [Executor -> Exec]
    BY <1>10 DEF SchedulerFinishFails, TypeOK, Exec, IdleExec
  <2> QED
    BY <1>10, <2>1 DEF SchedulerFinishFails, SpendFault, TypeOK
<1>11. ASSUME NEW p \in Process, NEW j \in JobIds, LostAck(p, j) PROVE TypeOK'
  <2>1. job' \in [JobIds -> Job]
    BY <1>11, NewRowType DEF LostAck, TypeOK
  <2> QED
    BY <1>11, <2>1, LeaveTypes DEF LostAck, SpendFault, TypeOK
<1> QED
  BY <1>1, <1>2, <1>3, <1>4, <1>5, <1>6, <1>7, <1>8, <1>9, <1>10, <1>11
  DEF Next, Enqueue, Execute, ClaimSome, Fault
-----------------------------------------------------------------------------
\* The steps of a call of enqueue_job keep the rest of the invariant: the lock makes
\* the check stand until the insert.
LEMMA EnqueueStep ==
  ASSUME Inv, TypeOK', NEW p \in Process, Enqueue(p)
  PROVE  LockIsHeld' /\ CheckStands' /\ OneRuns' /\ ExecutorHolds'
<1> USE DEF Inv
<1>1. CASE Lock(p) \/ CheckRunning(p) \/ AlreadyRunning(p) \/ Abandon(p)
  <2>1. UNCHANGED <<job, exec, fetch>>
    BY <1>1 DEF Lock, CheckRunning, AlreadyRunning, Abandon
  <2>2. OneRuns' /\ ExecutorHolds'
    BY <2>1 DEF OneRuns, ExecutorHolds, RunningJobs
  <2>3. LockIsHeld'
    BY <1>1, <2>1 DEF Lock, CheckRunning, AlreadyRunning, Abandon, Leave, LockIsHeld,
       MayEnqueue, TypeOK, Enq, IdleEnq, Process
  <2>4. CheckStands'
    BY <1>1, <2>1 DEF Lock, CheckRunning, AlreadyRunning, Abandon, Leave, CheckStands,
       RunningJobs, TypeOK, Enq, IdleEnq
  <2> QED
    BY <2>2, <2>3, <2>4
<1>2. ASSUME NEW j \in JobIds, Insert(p, j)
      PROVE  LockIsHeld' /\ CheckStands' /\ OneRuns' /\ ExecutorHolds'
  <2>1. RunningJobs = {} /\ lock = p
    BY <1>2 DEF Insert, CheckStands, LockIsHeld
  <2>2. RunningJobs' = {j} /\ job'[j] = NewRow(p)
    BY <1>2, <2>1 DEF Insert, RunningJobs, NewRow, TypeOK
  <2>3. \A x \in Executor : exec[x].pc = "idle"
    BY <2>1 DEF ExecutorHolds
  <2>4. OneRuns'
    BY <2>2 DEF OneRuns
  <2>5. LockIsHeld'
    BY <1>2, <2>1 DEF Insert, Leave, LockIsHeld, TypeOK, IdleEnq
  <2>6. CheckStands'
    BY <1>2, <2>1 DEF Insert, Leave, LockIsHeld, CheckStands, TypeOK, IdleEnq
  <2>7. ExecutorHolds'
    <3>1. CASE p = "fetch"
      <4>1. exec' = [exec EXCEPT !["scheduler"] = [pc |-> "running", id |-> j, ok |-> FALSE]]
        BY <1>2, <3>1 DEF Insert
      <4>2. fetch'
        BY <1>2, <3>1 DEF Insert, LockIsHeld
      <4>3. job'[j].claimed
        <5>1. ClaimedBy(p) = TRUE
          BY <3>1, Zenon DEF ClaimedBy
        <5>2. job'[j] = [status |-> "running", kind |-> "listing", claimed |-> TRUE]
          BY <2>2, <5>1 DEF NewRow
        <5> QED
          BY <5>2
      <4> QED
        BY <2>2, <2>3, <4>1, <4>2, <4>3 DEF ExecutorHolds, Executor, TypeOK
    <3>2. CASE p # "fetch"
      BY <1>2, <2>3, <3>2 DEF Insert, ExecutorHolds
    <3> QED
      BY <3>1, <3>2
  <2> QED
    BY <2>4, <2>5, <2>6, <2>7
<1> QED
  BY <1>1, <1>2 DEF Enqueue

\* The steps of the fetch container and the faults.
LEMMA FetchStep ==
  ASSUME Inv, TypeOK',
         \/ \E x \in Executor : Execute(x)
         \/ Startup \/ ClaimSome \/ Fault
  PROVE  LockIsHeld' /\ CheckStands' /\ OneRuns' /\ ExecutorHolds'
<1> USE DEF Inv
<1>1. ASSUME NEW x \in Executor, RunEnds(x)
      PROVE  LockIsHeld' /\ CheckStands' /\ OneRuns' /\ ExecutorHolds'
  <2>1. UNCHANGED <<job, lock, enq, fetch>>
    BY <1>1 DEF RunEnds
  <2>2. \A y \in Executor : /\ exec'[y].id = exec[y].id
                            /\ exec'[y].pc # "idle" <=> exec[y].pc # "idle"
    BY <1>1 DEF RunEnds, TypeOK, Exec
  <2>3. "scheduler" \in Executor
    BY DEF Executor
  <2> QED
    BY <2>1, <2>2, <2>3 DEF LockIsHeld, CheckStands, OneRuns, ExecutorHolds, RunningJobs
<1>2. ASSUME NEW x \in Executor, Finish(x)
      PROVE  LockIsHeld' /\ CheckStands' /\ OneRuns' /\ ExecutorHolds'
  <2>1. exec[x].id \in RunningJobs /\ \A y \in Executor : exec[y].pc # "idle" => x = y
    BY <1>2 DEF Finish, ExecutorHolds
  <2>2. RunningJobs' = {} /\ RunningJobs = {exec[x].id}
    BY <1>2, <2>1 DEF Finish, RunningJobs, OneRuns, TypeOK, Job
  <2>3. \A y \in Executor : exec'[y].pc = "idle"
    BY <1>2, <2>1 DEF Finish, IdleExec, TypeOK
  <2>4. UNCHANGED <<lock, enq, fetch>>
    BY <1>2 DEF Finish
  <2>5. "scheduler" \in Executor
    BY DEF Executor
  <2> QED
    BY <2>2, <2>3, <2>4, <2>5 DEF LockIsHeld, CheckStands, OneRuns, ExecutorHolds
<1>3. CASE Startup
  <2>1. \A x \in Executor : exec[x].pc = "idle"
    BY <1>3 DEF Startup, ExecutorHolds
  <2>2. RunningJobs' \subseteq RunningJobs
    BY <1>3 DEF Startup, RunningJobs, TypeOK, Job
  <2> QED
    BY <1>3, <2>1, <2>2 DEF Startup, LockIsHeld, CheckStands, OneRuns, ExecutorHolds
<1>4. ASSUME NEW j \in JobIds, Claim(j)
      PROVE  LockIsHeld' /\ CheckStands' /\ OneRuns' /\ ExecutorHolds'
  <2>1. j \in RunningJobs /\ ~job[j].claimed
    BY <1>4 DEF Claim, Unclaimed
  <2>2. \A y \in Executor : exec[y].pc = "idle"
    BY <2>1 DEF ExecutorHolds, OneRuns
  <2>3. RunningJobs' = RunningJobs /\ job'[j].claimed
    BY <1>4 DEF Claim, RunningJobs, TypeOK, Job
  <2>4. exec'["worker"].id = j /\ exec'["scheduler"] = exec["scheduler"] /\ fetch'
    BY <1>4 DEF Claim, TypeOK, Executor
  <2>5. ExecutorHolds'
    BY <2>1, <2>2, <2>3, <2>4 DEF ExecutorHolds, Executor
  <2>6. UNCHANGED <<lock, enq, fetch>>
    BY <1>4 DEF Claim
  <2>7. LockIsHeld' /\ CheckStands' /\ OneRuns'
    BY <2>3, <2>4, <2>6 DEF LockIsHeld, CheckStands, OneRuns
  <2> QED
    BY <2>5, <2>7
<1>5. CASE Crash \/ WorkerFinishFails
  <2>1. Down /\ UNCHANGED job
    BY <1>5 DEF Crash, WorkerFinishFails
  <2>2. ExecutorHolds' /\ OneRuns'
    BY <2>1 DEF Down, ExecutorHolds, OneRuns, RunningJobs, IdleExec
  <2>3. LockIsHeld' /\ CheckStands'
    BY <2>1 DEF Down, Leave, LockIsHeld, CheckStands, RunningJobs, TypeOK, IdleEnq, Process
  <2> QED
    BY <2>2, <2>3
<1>6. CASE SchedulerFinishFails
  <2>1. UNCHANGED <<job, lock, enq, fetch>> /\ exec' = [exec EXCEPT !["scheduler"] = IdleExec]
    BY <1>6 DEF SchedulerFinishFails
  <2>2. ExecutorHolds'
    BY <2>1 DEF ExecutorHolds, RunningJobs, IdleExec, TypeOK, Executor
  <2>3. LockIsHeld' /\ CheckStands' /\ OneRuns'
    BY <2>1 DEF LockIsHeld, CheckStands, OneRuns, RunningJobs, IdleExec, TypeOK, Executor
  <2> QED
    BY <2>2, <2>3
<1>7. ASSUME NEW p \in Process, NEW j \in JobIds, LostAck(p, j)
      PROVE  LockIsHeld' /\ CheckStands' /\ OneRuns' /\ ExecutorHolds'
  <2>1. RunningJobs = {} /\ lock = p
    BY <1>7 DEF LostAck, CheckStands, LockIsHeld
  <2>2. RunningJobs' = {j}
    BY <1>7, <2>1 DEF LostAck, RunningJobs, NewRow, TypeOK
  <2>3. ExecutorHolds' /\ OneRuns'
    BY <1>7, <2>1, <2>2 DEF LostAck, ExecutorHolds, OneRuns
  <2>4. LockIsHeld' /\ CheckStands'
    BY <1>7, <2>1 DEF LostAck, Leave, LockIsHeld, CheckStands, TypeOK, IdleEnq
  <2> QED
    BY <2>3, <2>4
<1> QED
  BY <1>1, <1>2, <1>3, <1>4, <1>5, <1>6, <1>7 DEF Execute, ClaimSome, Fault

LEMMA InvStep == ASSUME Inv, [Next]_vars PROVE Inv'
<1>1. TypeOK'
  BY TypeStep DEF Inv
<1>2. CASE UNCHANGED vars
  BY <1>1, <1>2 DEF vars, Inv, LockIsHeld, CheckStands, OneRuns, ExecutorHolds, RunningJobs
<1>3. CASE Next
  BY <1>1, <1>3, EnqueueStep, FetchStep DEF Next, Inv
<1> QED
  BY <1>2, <1>3

LEMMA Invariance == Spec => []Inv
  BY Initially, InvStep, PTL DEF Spec

\* Every value the table, the lock, the calls and the executors take has its type.
THEOREM Typing == Spec => []TypeOK
  BY Invariance, PTL DEF Inv

\* However enqueues, claims, crashes and failed commits interleave, a job that is
\* executed is running, claimed, and executed by one executor.
THEOREM ExecutedOnceAlways == Spec => []ExecutedOnce
<1>1. Inv => ExecutedOnce
  BY DEF Inv, ExecutorHolds, ExecutedOnce, Executing, RunningJobs
<1> QED
  BY <1>1, Invariance, PTL

\* No step ends a job nobody has claimed: not the finish of another job, and not
\* fail_orphan_jobs.
THEOREM WaitingWorkIsLeftAlone == Spec => WaitingWorkSurvives
<1>1. ASSUME Inv, [Next]_vars
      PROVE  \A j \in Unclaimed : job'[j].status = "running"
  <2>1. SUFFICES ASSUME NEW j \in Unclaimed
                 PROVE  job'[j].status = "running"
    OBVIOUS
  <2>2. j \in JobIds /\ job[j].status = "running" /\ ~job[j].claimed /\ TypeOK
    BY <1>1 DEF Unclaimed, RunningJobs, Inv
  <2>3. CASE UNCHANGED job
    BY <2>2, <2>3
  <2>4. ASSUME NEW p \in Process, NEW k \in JobIds, Insert(p, k) \/ LostAck(p, k)
        PROVE  job'[j].status = "running"
    BY <2>2, <2>4 DEF Insert, LostAck, Unused, TypeOK
  <2>5. ASSUME NEW x \in Executor, Finish(x)
        PROVE  job'[j].status = "running"
    BY <1>1, <2>2, <2>5 DEF Inv, ExecutorHolds, Finish, TypeOK
  <2>6. CASE Startup
    BY <2>2, <2>6 DEF Startup, Orphaned, TypeOK
  <2>7. ASSUME NEW k \in JobIds, Claim(k)
        PROVE  job'[j].status = "running"
    BY <2>2, <2>7 DEF Claim, TypeOK, Job
  <2> QED
    BY <1>1, <2>3, <2>4, <2>5, <2>6, <2>7
    DEF Next, vars, Enqueue, Lock, CheckRunning, AlreadyRunning, Abandon, Execute, RunEnds,
        ClaimSome, Fault, Crash, WorkerFinishFails, SchedulerFinishFails
<1> QED
  BY <1>1, Invariance, PTL DEF Spec, WaitingWorkSurvives

\* The status of every job, as JobSlot sees it.
Status == [j \in JobIds |-> job[j].status]

\* A step that changes only the status of job j, and ends it, is JobSlot's End.
LEMMA EndsOne ==
  ASSUME TypeOK, NEW j \in RunningJobs, NEW outcome \in {"done", "failed"},
         Status' = [Status EXCEPT ![j] = outcome]
  PROVE  Slot!Next
<1>1. j \in JobIds /\ Status[j] = "running"
  BY DEF RunningJobs, Status
<1>2. Slot!End(j)
  BY <1>1 DEF Slot!End, Status
<1> QED
  BY <1>1, <1>2 DEF Slot!Next

\* So is a step that puts a new running row into a table where nothing runs a Start.
LEMMA StartsOne ==
  ASSUME TypeOK, RunningJobs = {}, NEW p \in Process, NEW j \in JobIds, Unused(j),
         job' = [job EXCEPT ![j] = NewRow(p)]
  PROVE  Slot!Next
<1>1. Status[j] = "none" /\ \A k \in JobIds : Status[k] # "running"
  BY DEF Status, Unused, RunningJobs
<1>2. Status' = [Status EXCEPT ![j] = "running"]
  BY DEF Status, NewRow, TypeOK
<1>3. Slot!Start(j)
  BY <1>1, <1>2 DEF Slot!Start, Status
<1> QED
  BY <1>3 DEF Slot!Next

\* The jobs table implements one job slot: the advisory lock makes check-then-insert
\* a Start, every end of a run and every orphan failed at startup is an End, and
\* nothing else touches a status.
THEOREM ImplementsOneJobSlot == Spec => OneJobSlot
<1>1. Init => Slot!Init
  BY DEF Init, Slot!Init, Slot!OneRuns, NoRow
<1>2. ASSUME Inv, [Next]_vars
      PROVE  [Slot!Next]_Status
  <2> USE <1>2 DEF Inv
  <2>1. CASE UNCHANGED job
    BY <2>1 DEF Status
  <2>2. ASSUME NEW p \in Process, NEW j \in JobIds, Insert(p, j) \/ LostAck(p, j)
        PROVE  Slot!Next
    BY <2>2, StartsOne DEF Insert, LostAck, CheckStands
  <2>3. ASSUME NEW x \in Executor, Finish(x)
        PROVE  Slot!Next
    <3>1. exec[x].id \in RunningJobs
      BY <2>3 DEF Finish, ExecutorHolds
    <3>2. PICK outcome \in {"done", "failed"} : job' = [job EXCEPT ![exec[x].id].status = outcome]
      BY <2>3 DEF Finish
    <3>3. Status' = [Status EXCEPT ![exec[x].id] = outcome]
      BY <3>1, <3>2 DEF Status, RunningJobs, TypeOK, Job
    <3> QED
      BY <3>1, <3>3, EndsOne
  <2>4. CASE Startup
    <3>1. CASE \E j \in JobIds : Orphaned(j)
      <4>1. PICK j \in JobIds : Orphaned(j)
        BY <3>1
      <4>2. j \in RunningJobs /\ \A k \in JobIds : Orphaned(k) => k = j
        BY <4>1 DEF Orphaned, OneRuns
      <4>3. Status' = [Status EXCEPT ![j] = "failed"]
        BY <2>4, <4>1, <4>2 DEF Startup, Status, TypeOK, Job
      <4> QED
        BY <4>2, <4>3, EndsOne
    <3>2. CASE \A j \in JobIds : ~Orphaned(j)
      BY <2>4, <3>2 DEF Startup, Status, TypeOK
    <3> QED
      BY <3>1, <3>2
  <2>5. ASSUME NEW j \in JobIds, Claim(j)
        PROVE  Status' = Status
    BY <2>5 DEF Claim, Status, TypeOK, Job
  <2> QED
    BY <2>1, <2>2, <2>3, <2>4, <2>5
    DEF Next, vars, Enqueue, Lock, CheckRunning, AlreadyRunning, Abandon, Execute, RunEnds,
        ClaimSome, Fault, Crash, WorkerFinishFails, SchedulerFinishFails
<1> QED
  BY <1>1, <1>2, Invariance, PTL DEF Spec, OneJobSlot, Slot!Spec, Status

\* "Only one runs at a time" (RefreshRunner), over both processes that enqueue.
THEOREM OnlyOneRuns == Spec => []Slot!OneRuns
<1>1. Inv => Slot!OneRuns
  BY DEF Inv, OneRuns, RunningJobs, Slot!OneRuns
<1> QED
  BY <1>1, Invariance, PTL
=============================================================================
