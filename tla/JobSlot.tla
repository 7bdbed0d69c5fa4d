------------------------------ MODULE JobSlot ------------------------------
(***************************************************************************)
(* What the jobs table promises: one job slot.  A job starts only when no  *)
(* job runs, ends once, and never runs again.                              *)
(***************************************************************************)
CONSTANT JobIds

VARIABLE status

JobStatus == {"none", "running", "done", "failed"}

\* "Only one runs at a time" (RefreshRunner).
OneRuns ==
  \A j, k \in JobIds : status[j] = "running" /\ status[k] = "running" => j = k

Init == status \in [JobIds -> {"none", "running"}] /\ OneRuns

Start(j) ==
  /\ status[j] = "none"
  /\ \A k \in JobIds : status[k] # "running"
  /\ status' = [status EXCEPT ![j] = "running"]

End(j) ==
  /\ status[j] = "running"
  /\ \E outcome \in {"done", "failed"} : status' = [status EXCEPT ![j] = outcome]

Next == \E j \in JobIds : Start(j) \/ End(j)

Spec == Init /\ [][Next]_status
=============================================================================
