---------------------------- MODULE RefreshButton ----------------------------
(***************************************************************************)
(* The button that starts a discover and follows it: SWR asks for the      *)
(* current job, every two seconds while one was last seen running, and the *)
(* callback on the answer has the other lists read again when a running    *)
(* job is over. Jobs also start without the button. SWR's data and the     *)
(* ref prevStatus always hold the same answer and are one variable.        *)
(***************************************************************************)
EXTENDS Session, Naturals

CONSTANTS
  RbMaxJobs  \* bound: jobs that start

ASSUME RefreshAssumption == RbMaxJobs \in Nat

VARIABLES
  rbJob,     \* the api's running or last job
  rbShown,   \* SWR's data: that job as it was last answered
  rbPolling, \* pollMs > 0
  rbTrigger, \* the request of a click, then its fetch
  rbNotes,   \* triggerError, noNew
  rbLists,   \* history: a job this button saw running is over and its lists not read
  rbLeft     \* jobs left

rbVars == <<rbJob, rbShown, rbPolling, rbTrigger, rbNotes, rbLists, rbLeft>>
-----------------------------------------------------------------------------
\* found: a discover that found something, or a job of another kind.
RbJob == [status : {"none", "running", "done", "failed"}, found : BOOLEAN]
NoJob == [status |-> "none", found |-> FALSE]
Running(job) == job.status = "running"

RbTypeOK ==
  /\ SessionTypeOK
  /\ rbJob \in RbJob /\ rbShown \in RbJob
  /\ rbPolling \in BOOLEAN
  /\ rbTrigger \in {"idle", "sent", "fetch"}
  /\ rbNotes \subseteq {"triggerError", "noNew"}
  /\ rbLists \in {"read", "stale"}
  /\ rbLeft \in 0..RbMaxJobs

RbInit ==
  /\ rbJob \in {NoJob, [status |-> "running", found |-> FALSE]}
  /\ rbShown = NoJob
  /\ rbPolling = FALSE /\ rbTrigger = "idle" /\ rbNotes = {}
  /\ rbLists = "read"
  /\ rbLeft = RbMaxJobs
-----------------------------------------------------------------------------
(* The api *)

\* runner.enqueue(discover): a new job, or the one that already runs.
Enqueue ==
  IF Running(rbJob) THEN UNCHANGED <<rbJob, rbLeft>>
  ELSE /\ rbLeft > 0 /\ rbLeft' = rbLeft - 1
       /\ rbJob' = [status |-> "running", found |-> FALSE]

\* Auto refresh, another tab, a load_older, an added channel.
JobStarts ==
  /\ ~Running(rbJob) /\ Enqueue
  /\ UNCHANGED <<rbShown, rbPolling, rbTrigger, rbNotes, rbLists, cookie, authed>>

JobEnds ==
  /\ Running(rbJob)
  /\ rbJob' \in [status : {"done", "failed"}, found : BOOLEAN]
  /\ rbLists' = IF Running(rbShown) THEN "stale" ELSE rbLists
  /\ UNCHANGED <<rbShown, rbPolling, rbTrigger, rbNotes, rbLeft, cookie, authed>>
-----------------------------------------------------------------------------
(* The button *)

\* Mutant: once a job was seen to end, polling is off for good.
PollingOnce == Running(rbJob) /\ rbShown.status \in {"none", "running"}

\* setPollMs: as long as the answer says running.
Polling == Running(rbJob)

\* onSuccess: the moment running -> done or failed, the lists the job changed are read.
JobAnswered ==
  LET ended == Running(rbShown) /\ ~Running(rbJob) IN
  /\ rbShown' = rbJob
  /\ rbPolling' = Polling
  /\ rbLists' = IF ended THEN "read" ELSE rbLists
  /\ rbNotes' = IF ended /\ rbJob.status = "done" /\ ~rbJob.found
                THEN rbNotes \cup {"noNew"} ELSE rbNotes
  /\ UNCHANGED <<rbJob, rbLeft, cookie, authed>>

\* On mount and on focus, also while the button is hidden; or the poll.
JobFetched == JobAnswered /\ UNCHANGED rbTrigger

PollFetched == rbPolling /\ JobFetched

\* trigger(); the button is there for the admin and disabled while a job is shown running.
ClickRefresh ==
  /\ authed /\ ~Running(rbShown) /\ rbTrigger = "idle"
  /\ rbTrigger' = "sent"
  /\ rbNotes' = {}
  /\ UNCHANGED <<rbJob, rbShown, rbPolling, rbLists, rbLeft, cookie, authed>>

\* The api takes the request, and its answer is in or lost.
RefreshPosted ==
  /\ rbTrigger = "sent" /\ cookie
  /\ Enqueue
  /\ \/ rbTrigger' = "fetch" /\ UNCHANGED rbNotes
     \/ rbTrigger' = "idle" /\ rbNotes' = rbNotes \cup {"triggerError"}
  /\ UNCHANGED <<rbShown, rbPolling, rbLists, cookie, authed>>

\* It refuses: 401 locks the page, another error is shown.
RefreshRefused ==
  /\ rbTrigger = "sent"
  /\ rbTrigger' = "idle"
  /\ rbNotes' = rbNotes \cup {"triggerError"}
  /\ IF cookie THEN UNCHANGED <<cookie, authed>> ELSE WriteRefused
  /\ UNCHANGED <<rbJob, rbShown, rbPolling, rbLists, rbLeft>>

\* mutate("/api/jobs/current"), answered or failed.
TriggerFetched ==
  /\ rbTrigger = "fetch" /\ rbTrigger' = "idle"
  /\ \/ JobAnswered
     \/ UNCHANGED <<rbJob, rbShown, rbPolling, rbNotes, rbLists, rbLeft, cookie, authed>>

RbSession == SessionStep /\ UNCHANGED rbVars

RbNext ==
  \/ JobStarts \/ JobEnds
  \/ JobFetched \/ PollFetched
  \/ ClickRefresh \/ RefreshPosted \/ RefreshRefused \/ TriggerFetched
  \/ RbSession

\* A poll that fails is tried again: some poll is answered. Jobs end by their own
\* time limits, so that an answer finds the job over at some time.
RbFairness ==
  /\ WF_<<rbVars, cookie, authed>>(PollFetched)
  /\ WF_<<rbVars, cookie, authed>>(JobEnds)

RbSpec == SessionInit /\ RbInit /\ [][RbNext]_<<rbVars, cookie, authed>> /\ RbFairness
-----------------------------------------------------------------------------
\* A job that the button saw running is over, and the lists it changed are not read
\* again yet.
JobEndUnseen == rbLists = "stale"
=============================================================================
