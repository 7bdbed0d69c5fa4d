-------------------------- MODULE LaneStoreProofs --------------------------
(***************************************************************************)
(* The operations on a lane's row: their types, and when they keep a pause *)
(* or lift it.                                                             *)
(***************************************************************************)
EXTENDS LaneStore, TLAPS

LEMMA HealthyType == Healthy \in LaneRow
  BY DEF Healthy, LaneRow, Reason, NoTime

LEMMA RecordSuccessType == ASSUME NEW ln \in LaneRow PROVE RecordSuccess(ln) \in LaneRow
  BY DEF RecordSuccess, LaneRow

LEMMA RecordFailureType ==
  ASSUME NEW ln \in LaneRow, NEW k \in Nat
  PROVE  RecordFailure(ln, k) \in LaneRow
<1> DEFINE paused == ln.paused \/ Trips(ln, k)
           reason == IF Trips(ln, k) THEN "auto" ELSE ln.reason
<1>1. paused \in BOOLEAN
  BY Zenon
<1>2. reason \in Reason
  BY DEF LaneRow, Reason
<1>3. ln.streak + 1 \in Nat
  BY DEF LaneRow
<1>4. RecordFailure(ln, k) = [ln EXCEPT !.streak = ln.streak + 1, !.paused = paused, !.reason = reason]
  BY DEF RecordFailure
<1> HIDE DEF paused, reason
<1> QED
  BY <1>1, <1>2, <1>3, <1>4 DEF LaneRow

LEMMA PauseType == ASSUME NEW ln \in LaneRow PROVE Pause(ln) \in LaneRow
  BY DEF Pause, LaneRow, Reason

LEMMA PauseForLimitType ==
  ASSUME NEW ln \in LaneRow, NEW at \in Nat
  PROVE  PauseForLimit(ln, at) \in LaneRow
<1> DEFINE until == IF LimitPaused(ln) /\ ln.resumeAt # NoTime THEN Later(ln.resumeAt, at) ELSE at
<1>1. until \in Nat \cup {NoTime}
  BY DEF Later, LaneRow
<1>2. [ln EXCEPT !.paused = TRUE, !.reason = "limit", !.resumeAt = until] \in LaneRow
  BY <1>1 DEF LaneRow, Reason
<1>3. PauseForLimit(ln, at) \in {ln, [ln EXCEPT !.paused = TRUE, !.reason = "limit", !.resumeAt = until]}
  BY DEF PauseForLimit
<1> QED
  BY <1>2, <1>3

LEMMA ResumeIfDueType ==
  ASSUME NEW ln \in LaneRow, NEW now \in Nat
  PROVE  ResumeIfDue(ln, now) \in LaneRow
  BY HealthyType DEF ResumeIfDue, Resume
=============================================================================
