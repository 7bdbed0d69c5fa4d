-------------------------------- MODULE Jobs --------------------------------
(***************************************************************************)
(* The YouTube listing jobs (discover, load_older): the api process        *)
(* enqueues them, the auto-refresh scheduler of the fetch container        *)
(* enqueues and runs its own, and the fetch container's JobWorker claims   *)
(* and runs what the api enqueued.  The two processes share only Postgres: *)
(* an advisory lock around check-then-insert, and claimed_at, are all that *)
(* keeps one job running at a time and each job run once.                  *)
(***************************************************************************)
EXTENDS Integers, FiniteSets

CONSTANTS
  JobIds,      \* bound: the rows the jobs table may get
  MaxFaults,   \* bound: faults in a behaviour
  FaultKinds   \* what may go wrong: "crash", "worker", "scheduler", "ack"

ASSUME JobsAssumption ==
  /\ JobIds \subseteq Nat
  /\ MaxFaults \in Nat
  /\ FaultKinds \subseteq {"crash", "worker", "scheduler", "ack"}

VARIABLES
  job,     \* the jobs table
  lock,    \* who holds pg_advisory_xact_lock
  enq,     \* the enqueue_job call of each process (_start_lock admits one)
  exec,    \* what the JobWorker and the scheduler's task execute
  fetch,   \* is the fetch container up, past its startup?
  faults   \* faults left in this behaviour

vars == <<job, lock, enq, exec, fetch, faults>>
-----------------------------------------------------------------------------
NoJob == -1
Kind == {"listing", "analyze"}
Process == {"api", "fetch"}
Executor == {"worker", "scheduler"}

Job == [status : {"none", "running", "done", "failed"}, kind : Kind, claimed : BOOLEAN]
NoRow == [status |-> "none", kind |-> "listing", claimed |-> FALSE]

\* saw: did get_running_job find one?
Enq == [pc : {"idle", "locked", "checked"}, saw : BOOLEAN]
IdleEnq == [pc |-> "idle", saw |-> FALSE]

Exec == [pc : {"idle", "running", "finishing"}, id : JobIds \cup {NoJob}, ok : BOOLEAN]
IdleExec == [pc |-> "idle", id |-> NoJob, ok |-> FALSE]

RunningJobs == {j \in JobIds : job[j].status = "running"}
Unclaimed == {j \in RunningJobs : ~job[j].claimed}

\* A job row left from before the deploy, an analyze row among them: at most one
\* runs, and a worker may have died holding it.
Init ==
  /\ \/ job = [j \in JobIds |-> NoRow]
     \/ \E j \in JobIds, kind \in Kind, claimed \in BOOLEAN :
          job = [i \in JobIds |->
                   IF i = j THEN [status |-> "running", kind |-> kind, claimed |-> claimed]
                   ELSE NoRow]
  /\ lock = "none"
  /\ enq = [p \in Process |-> IdleEnq]
  /\ exec = [x \in Executor |-> IdleExec]
  /\ fetch = FALSE
  /\ faults = MaxFaults
-----------------------------------------------------------------------------
(* enqueue_job *)

\* Who may call it: the api on any request, the scheduler's loop when no task of
\* its own is left to await.
MayEnqueue(p) == p = "fetch" => fetch /\ exec["scheduler"].pc = "idle"

\* Mutant: the advisory lock is gone.
LockNothing(p) ==
  /\ enq[p].pc = "idle"
  /\ MayEnqueue(p)
  /\ enq' = [enq EXCEPT ![p].pc = "locked"]
  /\ UNCHANGED <<job, lock, exec, fetch, faults>>

Lock(p) ==
  /\ enq[p].pc = "idle"
  /\ MayEnqueue(p)
  /\ lock = "none"
  /\ lock' = p
  /\ enq' = [enq EXCEPT ![p].pc = "locked"]
  /\ UNCHANGED <<job, exec, fetch, faults>>

\* get_running_job, READ COMMITTED: jobs may be claimed and finished meanwhile.
CheckRunning(p) ==
  /\ enq[p].pc = "locked"
  /\ enq' = [enq EXCEPT ![p] = [pc |-> "checked", saw |-> RunningJobs # {}]]
  /\ UNCHANGED <<job, lock, exec, fetch, faults>>

\* The transaction ends, and with it the lock.
Leave(p) ==
  /\ lock' = IF lock = p THEN "none" ELSE lock
  /\ enq' = [enq EXCEPT ![p] = IdleEnq]

\* created=False: the caller is told of the job that runs.
AlreadyRunning(p) ==
  /\ enq[p].pc = "checked" /\ enq[p].saw
  /\ Leave(p)
  /\ UNCHANGED <<job, exec, fetch, faults>>

\* The transaction fails, or its process dies, and is rolled back.  The scheduler's
\* loop swallows the error and sleeps.
Abandon(p) ==
  /\ enq[p].pc # "idle"
  /\ Leave(p)
  /\ UNCHANGED <<job, exec, fetch, faults>>

\* Mutant: start() enqueues like the api does, unclaimed.
ClaimedByNobody(p) == FALSE

\* start() runs the job itself, so its row is born claimed.
ClaimedBy(p) == p = "fetch"

\* Mutant: a status of its own for a job that waits.
NewRowQueued(p) == [status |-> "queued", kind |-> "listing", claimed |-> ClaimedBy(p)]

NewRow(p) == [status |-> "running", kind |-> "listing", claimed |-> ClaimedBy(p)]

Unused(j) == job[j].status = "none"

\* The INSERT commits; in the fetch process create_task follows with no other
\* await, and the scheduler's loop awaits the task.
Insert(p, j) ==
  /\ enq[p].pc = "checked" /\ ~enq[p].saw
  /\ Unused(j)
  /\ job' = [job EXCEPT ![j] = NewRow(p)]
  /\ Leave(p)
  /\ exec' = IF p = "fetch"
             THEN [exec EXCEPT !["scheduler"] = [pc |-> "running", id |-> j, ok |-> FALSE]]
             ELSE exec
  /\ UNCHANGED <<fetch, faults>>
-----------------------------------------------------------------------------
(* The fetch container *)

\* Mutant: waiting work is failed with the interrupted work.
OrphanedOrWaiting(j) == j \in RunningJobs

\* Mutant: a restart leaves interrupted jobs as they are.
OrphanedNever(j) == FALSE

\* Claimed: a worker that is gone was executing it.
Orphaned(j) == j \in RunningJobs /\ job[j].claimed

\* fail_orphan_jobs, then the lane, the JobWorker and the scheduler start.
Startup ==
  /\ ~fetch
  /\ job' = [j \in JobIds |-> IF Orphaned(j) THEN [job[j] EXCEPT !.status = "failed"]
                              ELSE job[j]]
  /\ fetch' = TRUE
  /\ UNCHANGED <<lock, enq, exec, faults>>

\* claim_next_job; run_job closes a leftover analyze row without running it.
Claim(j) ==
  /\ fetch
  /\ exec["worker"].pc = "idle"
  /\ j \in Unclaimed
  /\ \A k \in Unclaimed : j <= k
  /\ job' = [job EXCEPT ![j].claimed = TRUE]
  /\ exec' = [exec EXCEPT !["worker"] =
                [pc |-> IF job[j].kind = "analyze" THEN "finishing" ELSE "running",
                 id |-> j,
                 ok |-> FALSE]]
  /\ UNCHANGED <<lock, enq, fetch, faults>>

\* _run_discover or _run_load_older returns or raises: _run_safely catches it.
RunEnds(x) ==
  /\ exec[x].pc = "running"
  /\ \E ok \in BOOLEAN : exec' = [exec EXCEPT ![x].pc = "finishing", ![x].ok = ok]
  /\ UNCHANGED <<job, lock, enq, fetch, faults>>

\* finish_job
Finish(x) ==
  /\ exec[x].pc = "finishing"
  /\ job' = [job EXCEPT ![exec[x].id].status = IF exec[x].ok THEN "done" ELSE "failed"]
  /\ exec' = [exec EXCEPT ![x] = IdleExec]
  /\ UNCHANGED <<lock, enq, fetch, faults>>

\* The process is gone: its tasks, its transaction and its lock with it.
Down ==
  /\ fetch' = FALSE
  /\ exec' = [x \in Executor |-> IdleExec]
  /\ Leave("fetch")
-----------------------------------------------------------------------------
(* Faults *)

SpendFault(kind) == kind \in FaultKinds /\ faults > 0 /\ faults' = faults - 1

\* Killed, or any loop of the process raised (_run_until_failure).
Crash ==
  /\ fetch
  /\ SpendFault("crash")
  /\ Down
  /\ UNCHANGED job

\* finish_job raises in the JobWorker: nothing catches it and the process exits.
WorkerFinishFails ==
  /\ exec["worker"].pc = "finishing"
  /\ SpendFault("worker")
  /\ Down
  /\ UNCHANGED job

\* finish_job raises in the scheduler's task: run_once re-raises it and _loop
\* swallows it.
SchedulerFinishFails ==
  /\ exec["scheduler"].pc = "finishing"
  /\ SpendFault("scheduler")
  /\ exec' = [exec EXCEPT !["scheduler"] = IdleExec]
  /\ UNCHANGED <<job, lock, enq, fetch>>

\* The INSERT committed but the caller got an error: an api request answers 500, the
\* scheduler's loop swallows it and no task is created.
LostAck(p, j) ==
  /\ enq[p].pc = "checked" /\ ~enq[p].saw
  /\ Unused(j)
  /\ SpendFault("ack")
  /\ job' = [job EXCEPT ![j] = NewRow(p)]
  /\ Leave(p)
  /\ UNCHANGED <<exec, fetch>>
-----------------------------------------------------------------------------
Enqueue(p) ==
  \/ Lock(p) \/ CheckRunning(p) \/ AlreadyRunning(p) \/ Abandon(p)
  \/ \E j \in JobIds : Insert(p, j)

Execute(x) == RunEnds(x) \/ Finish(x)

ClaimSome == \E j \in JobIds : Claim(j)

Fault ==
  \/ Crash \/ WorkerFinishFails \/ SchedulerFinishFails
  \/ \E p \in Process, j \in JobIds : LostAck(p, j)

Next ==
  \/ \E p \in Process : Enqueue(p)
  \/ \E x \in Executor : Execute(x)
  \/ Startup \/ ClaimSome
  \/ Fault

Spec == Init /\ [][Next]_vars

\* Docker restarts the container, the JobWorker polls, and a listing ends: the
\* YouTube client's calls return or raise.
FairSpec ==
  /\ Spec
  /\ WF_vars(Startup) /\ WF_vars(ClaimSome)
  /\ \A x \in Executor : WF_vars(Execute(x))
-----------------------------------------------------------------------------
(* Properties *)

TypeOK ==
  /\ job \in [JobIds -> Job]
  /\ lock \in Process \cup {"none"}
  /\ enq \in [Process -> Enq]
  /\ exec \in [Executor -> Exec]
  /\ fetch \in BOOLEAN
  /\ faults \in Nat

\* The jobs table, with its lock, its claims and its two executors, is one job slot.
Slot == INSTANCE JobSlot WITH status <- [j \in JobIds |-> job[j].status]
OneJobSlot == Slot!Spec

Executing(x, j) == exec[x].pc # "idle" /\ exec[x].id = j

\* What runs is running and claimed, and runs once: or a restart would not see that
\* it was interrupted, and the JobWorker would pick up what the scheduler runs
\* (enqueue_job: "getting this wrong bites twice").
ExecutedOnce ==
  \A x \in Executor, j \in JobIds :
    Executing(x, j) =>
      /\ job[j].status = "running" /\ job[j].claimed
      /\ \A y \in Executor : Executing(y, j) => x = y

\* A restart fails only interrupted work; a job that waits is still there for the
\* next worker to claim, and no job ends that nobody claimed.
WaitingWorkSurvives ==
  [][\A j \in Unclaimed : job'[j].status = "running"]_vars

\* What an api request enqueued is worked off, through crashes of the worker and
\* failures to write its end: it never holds the single slot for ever.
WaitingWorkEnds == \A j \in JobIds : j \in Unclaimed ~> job[j].status # "running"

\* claimed_at says whether someone is executing the row right now: while the
\* container is up, a running claimed job has an executor.
ClaimIsExecution ==
  \A j \in JobIds :
    fetch /\ job[j].status = "running" /\ job[j].claimed
      => \E x \in Executor : Executing(x, j)
=============================================================================
