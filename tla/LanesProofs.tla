---------------------------- MODULE LanesProofs ----------------------------
(***************************************************************************)
(* Lanes, for any videos, slots, requests and faults.  With every fault:   *)
(* the types, and that a pause lets one more pass.  When no deleted video  *)
(* comes back under a live slot: that no claim is orphaned.  When, beyond  *)
(* that, no commit loses its answer: that a slot's claim stands, that no   *)
(* video is held twice, that the queues and the failures are what they     *)
(* say, and that the attempts are honest.                                  *)
(***************************************************************************)
EXTENDS Lanes, LaneStoreProofs, FiniteSetTheorems

-----------------------------------------------------------------------------
(* Types of the rows, the slots and the lanes that the actions leave *)

LEMMA LaneOfType == ASSUME NEW s \in Slots PROVE LaneOf(s) \in Lane
  BY DEF LaneOf, Lane

LEMMA StatusTypes ==
  /\ AbsentRow \in Row
  /\ \A l \in Lane : InputStatus(l) \in {"pending", "transcribed"}
  /\ \A st \in {"discovered", "pending", "skipped"} : NewRow(st) \in Row
  BY DEF AbsentRow, NewRow, Row, Status, InputStatus, Lane

LEMMA RowTypes ==
  ASSUME NEW r \in Row, NEW l \in Lane
  PROVE  /\ \A o \in Outcome : Written(r, l, o) \in Row /\ GivenBack(r, o) \in Row
         /\ Failed(r, l) \in Row
         /\ Released(r, l) \in Row
         /\ Requeued(r) \in Row
         /\ [r EXCEPT !.claimed = TRUE] \in Row
         /\ [r EXCEPT !.status = "skipped"] \in Row
<1>1. Failed(r, l) \in Row
  BY DEF Failed, Row, Status
<1>2. \A o \in Outcome : Written(r, l, o) \in Row
  <2>1. [r EXCEPT !.status = "no_transcript", !.error = "none", !.claimed = FALSE] \in Row
    BY DEF Row, Status
  <2> DEFINE st == IF l = "transcript" THEN "transcribed" ELSE "analyzed"
             tr == r.transcript \/ l = "transcript"
  <2>2. st \in Status
    BY DEF Status
  <2>3. tr \in BOOLEAN
    BY Zenon
  <2> HIDE DEF st, tr
  <2>4. [r EXCEPT !.status = st, !.transcript = tr, !.error = "none", !.claimed = FALSE] \in Row
    BY <2>2, <2>3 DEF Row
  <2> QED
    BY <1>1, <2>1, <2>4 DEF Written, st, tr
<1>3. \A o \in Outcome : GivenBack(r, o) \in Row
  BY DEF GivenBack, Row, Status
<1>4. Released(r, l) \in Row
  BY DEF Released, Row
<1>5. Requeued(r) \in Row
  BY DEF Requeued, QueueStatusFor, Row, Status
<1>6. [r EXCEPT !.claimed = TRUE] \in Row /\ [r EXCEPT !.status = "skipped"] \in Row
  BY DEF Row, Status
<1> QED
  BY <1>1, <1>2, <1>3, <1>4, <1>5, <1>6

LEMMA SlotAtType == \A p \in SlotPc : SlotAt(p) \in Slot
  BY DEF SlotAt, Slot, Outcome

LEMMA MoveToType ==
  ASSUME TypeOK, NEW s \in Slots, NEW p \in SlotPc, NEW o \in Outcome, MoveTo(s, p, o)
  PROVE  slot' \in [Slots -> Slot]
<1> DEFINE moved == [pc |-> p, vid |-> IF p \in HoldingPc THEN slot[s].vid ELSE NoVideo,
                     out |-> o, cancel |-> FALSE]
<1>1. moved \in Slot
  BY DEF TypeOK, Slot
<1>2. SlotAt("raised") \in Slot
  BY SlotAtType DEF SlotPc
<1>3. slot' = [slot EXCEPT ![s] = IF slot[s].cancel THEN SlotAt("raised") ELSE moved]
  BY DEF MoveTo
<1> QED
  BY <1>1, <1>2, <1>3 DEF TypeOK

LEMMA CancelAllType ==
  ASSUME TypeOK, NEW l \in Lane
  PROVE  CancelAll(l) \in [Slots -> Slot]
<1>1. \A s \in Slots : Cancelled(slot[s]) \in Slot
  <2>1. IdleSlot \in Slot
    BY SlotAtType DEF IdleSlot, SlotPc
  <2>2. ASSUME NEW s \in Slots PROVE [slot[s] EXCEPT !.cancel = TRUE] \in Slot
    BY DEF TypeOK, Slot
  <2> QED
    BY <2>1, <2>2 DEF Cancelled
<1> QED
  BY <1>1 DEF CancelAll, TypeOK

LEMMA UpdateRowType ==
  ASSUME TypeOK, NEW v, NEW r, v \in Videos => r \in Row, UpdateRow(v, r)
  PROVE  row' \in [Videos -> Row]
  BY DEF TypeOK, UpdateRow

LEMMA UpdateLaneType ==
  ASSUME TypeOK, NEW l \in Lane, NEW ln \in LaneRow, UpdateLane(l, ln)
  PROVE  lane' \in [Lane -> LaneRow] /\ late' \in [Lane -> Nat]
  BY DEF TypeOK, UpdateLane

\* The counters: a stamp, a give-back and an outcome.
LEMMA CounterTypes ==
  ASSUME TypeOK, NEW v, NEW l \in Lane
  PROVE  /\ StampedAttempts(v, l) \in [Videos -> [Lane -> Nat]]
         /\ GivenBackAttempts(v, l) \in [Videos -> [Lane -> Nat]]
         /\ CountOutcome(v, l) => ended' \in [Videos -> [Lane -> Nat]]
<1>1. CASE v \in Videos
  <2>1. attempts[v] \in [Lane -> Nat] /\ ended[v] \in [Lane -> Nat]
    BY <1>1 DEF TypeOK
  <2>2. [attempts[v] EXCEPT ![l] = IF Exists(v) THEN @ + 1 ELSE @] \in [Lane -> Nat]
    BY <2>1
  <2>3. [attempts[v] EXCEPT ![l] = IF @ > 0 THEN @ - 1 ELSE 0] \in [Lane -> Nat]
    BY <2>1
  <2>4. [ended[v] EXCEPT ![l] = IF Exists(v) THEN @ + 1 ELSE @] \in [Lane -> Nat]
    BY <2>1
  <2> QED
    BY <2>2, <2>3, <2>4 DEF TypeOK, StampedAttempts, GivenBackAttempts, CountOutcome
<1>2. CASE v \notin Videos
  BY <1>2 DEF TypeOK, StampedAttempts, GivenBackAttempts, CountOutcome
<1> QED
  BY <1>1, <1>2
-----------------------------------------------------------------------------
(* Type correctness *)

LEMMA TypeInit == ASSUME Init PROVE TypeOK
<1>1. row \in [Videos -> Row]
  BY LanesAssumption DEF Init
<1>2. slot \in [Slots -> Slot]
  BY SlotAtType DEF Init, IdleSlot, SlotPc
<1>3. lane \in [Lane -> LaneRow]
  BY HealthyType DEF Init
<1>4. attempts \in [Videos -> [Lane -> Nat]] /\ ended \in [Videos -> [Lane -> Nat]]
  BY DEF Init, NoAttempts
<1> QED
  BY <1>1, <1>2, <1>3, <1>4, LanesAssumption DEF Init, TypeOK, LoopPc

LEMMA SlotStepTypes == ASSUME TypeOK, NEW s \in Slots, SlotStep(s) PROVE TypeOK'
<1> DEFINE v == slot[s].vid
           l == LaneOf(s)
           o == slot[s].out
<1>0. l \in Lane /\ o \in Outcome /\ lane[l] \in LaneRow /\ PauseAfter[l] \in Nat
      /\ (v \in Videos => row[v] \in Row)
  BY LaneOfType, LanesAssumption DEF TypeOK, Slot
<1> HIDE DEF l, v, o
<1>1. CASE Stamp(s)
  <2>1. attempts' \in [Videos -> [Lane -> Nat]]
    BY <1>0, <1>1, CounterTypes DEF Stamp, v, l
  <2>2. slot' \in [Slots -> Slot]
    BY <1>1, MoveToType DEF Stamp, SlotPc, HoldingPc, Outcome
  <2> QED
    BY <1>1, <2>1, <2>2 DEF Stamp, TypeOK
<1>2. ASSUME NEW out \in Outcome, Call(s, out) PROVE TypeOK'
  <2>1. slot' \in [Slots -> Slot]
    BY <1>2, MoveToType DEF Call, SlotPc, HoldingPc
  <2> QED
    BY <1>2, <2>1 DEF Call, TypeOK
<1>3. CASE CancelledCall(s)
  <2>1. [slot[s] EXCEPT !.pc = "givingBack", !.out = "raise", !.cancel = FALSE] \in Slot
    BY DEF TypeOK, Slot, SlotPc, HoldingPc, Outcome
  <2> QED
    BY <1>3, <2>1 DEF CancelledCall, TypeOK
<1>4. CASE Write(s)
  <2>1. row' \in [Videos -> Row]
    BY <1>0, <1>4, RowTypes, UpdateRowType DEF Write, v, l, o
  <2>2. ended' \in [Videos -> [Lane -> Nat]]
    BY <1>0, <1>4, CounterTypes DEF Write, v, l
  <2>3. slot' \in [Slots -> Slot]
    BY <1>0, <1>4, MoveToType DEF Write, SlotPc, Outcome, o
  <2> QED
    BY <1>4, <2>1, <2>2, <2>3 DEF Write, TypeOK
<1>5. CASE PersistRead(s)
  <2>1. slot' \in [Slots -> Slot]
    BY <1>5, MoveToType DEF PersistRead, SlotPc, HoldingPc, Outcome
  <2> QED
    BY <1>5, <2>1 DEF PersistRead, TypeOK
<1>6. CASE PersistCommit(s)
  <2>1. row' \in [Videos -> Row]
    BY <1>0, <1>6, RowTypes, UpdateRowType DEF PersistCommit, v, Lane, Outcome
  <2>2. ended' \in [Videos -> [Lane -> Nat]]
    BY <1>6, CounterTypes DEF PersistCommit, Lane
  <2>3. slot' \in [Slots -> Slot]
    BY <1>6, MoveToType DEF PersistCommit, SlotPc, HoldingPc, Outcome
  <2> QED
    BY <1>6, <2>1, <2>2, <2>3 DEF PersistCommit, TypeOK
<1>7. CASE GiveBack(s)
  <2>1. row' \in [Videos -> Row]
    BY <1>0, <1>7, RowTypes, UpdateRowType DEF GiveBack, v, o
  <2>2. attempts' \in [Videos -> [Lane -> Nat]]
    BY <1>0, <1>7, CounterTypes DEF GiveBack, v, l
  <2>3. slot' \in [Slots -> Slot]
    BY <1>0, <1>7, MoveToType DEF GiveBack, SlotPc, Outcome, o
  <2> QED
    BY <1>7, <2>1, <2>2, <2>3 DEF GiveBack, TypeOK
<1>8. CASE FailVideo(s)
  <2>1. row' \in [Videos -> Row]
    BY <1>0, <1>8, RowTypes DEF FailVideo, v, l, TypeOK
  <2>2. slot' \in [Slots -> Slot]
    BY <1>8, MoveToType DEF FailVideo, SlotPc, Outcome
  <2> QED
    BY <1>8, <2>1, <2>2 DEF FailVideo, TypeOK
<1>9. CASE Record(s)
  <2>1. slot' \in [Slots -> Slot]
    BY <1>9, MoveToType DEF Record, SlotPc, Outcome
  <2>2. \A at \in LimitTimes : PauseForLimit(lane[l], at) \in LaneRow
    BY <1>0, PauseForLimitType, LanesAssumption
  <2>3. lane' \in [Lane -> LaneRow] /\ late' \in [Lane -> Nat]
    BY <1>0, <1>9, <2>2, RecordSuccessType, RecordFailureType, UpdateLaneType DEF Record, l
  <2> QED
    BY <1>9, <2>1, <2>3 DEF Record, TypeOK
<1>10. CASE Throttle(s)
  <2>1. slot' \in [Slots -> Slot]
    BY <1>10, MoveToType DEF Throttle, SlotPc, Outcome
  <2>2. \A at \in LimitTimes : PauseForLimit(lane[l], at) \in LaneRow
    BY <1>0, PauseForLimitType, LanesAssumption
  <2>3. lane' \in [Lane -> LaneRow] /\ late' \in [Lane -> Nat]
    BY <1>0, <1>10, <2>2, UpdateLaneType DEF Throttle, l
  <2> QED
    BY <1>10, <2>1, <2>3 DEF Throttle, TypeOK
<1>11. CASE Interrupt(s)
  BY <1>11, SlotAtType DEF Interrupt, SlotPc, TypeOK
<1> QED
  BY <1>1, <1>2, <1>3, <1>4, <1>5, <1>6, <1>7, <1>8, <1>9, <1>10, <1>11 DEF SlotStep

LEMMA LoopStepTypes == ASSUME TypeOK, NEW l \in Lane, LoopStep(l) PROVE TypeOK'
<1>1. CASE Startup(l)
  <2>1. row' \in [Videos -> Row]
    BY <1>1, RowTypes DEF Startup, TypeOK
  <2> QED
    BY <1>1, <2>1 DEF Startup, TypeOK, LoopPc
<1>2. CASE Fill(l)
  <2>1. \A now \in Clock : ResumeIfDue(lane[l], now) \in LaneRow
    BY ResumeIfDueType, LanesAssumption DEF TypeOK
  <2>2. lane' \in [Lane -> LaneRow] /\ late' \in [Lane -> Nat]
    BY <1>2, <2>1, UpdateLaneType DEF Fill
  <2> QED
    BY <1>2, <2>2 DEF Fill, TypeOK, LoopPc
<1>3. CASE CheckPaused(l) \/ ClaimNothing(l)
  BY <1>3 DEF CheckPaused, ClaimNothing, TypeOK, LoopPc
<1>4. ASSUME NEW s \in SlotsOf(l), NEW v \in Videos, ClaimNext(l, s, v) PROVE TypeOK'
  <2>1. row' \in [Videos -> Row]
    BY <1>4, RowTypes DEF ClaimNext, TypeOK
  <2>2. [SlotAt("created") EXCEPT !.vid = v] \in Slot
    BY SlotAtType DEF SlotPc, HoldingPc, Slot
  <2>3. slot' \in [Slots -> Slot]
    BY <1>4, <2>2 DEF ClaimNext, TypeOK
  <2>4. loop' \in [Lane -> LoopPc]
    BY <1>4 DEF ClaimNext, AfterClaim, TypeOK, LoopPc
  <2>5. late' \in [Lane -> Nat]
    BY <1>4 DEF ClaimNext, TypeOK
  <2> QED
    BY <1>4, <2>1, <2>3, <2>4, <2>5 DEF ClaimNext, TypeOK
<1>5. CASE Wake(l)
  <2>1. slot' \in [Slots -> Slot]
    BY <1>5, CancelAllType, SlotAtType DEF Wake, TypeOK, IdleSlot, SlotPc
  <2> QED
    BY <1>5, <2>1 DEF Wake, TypeOK, LoopPc
<1>6. CASE Exit(l)
  <2>1. slot' \in [Slots -> Slot]
    BY <1>6, SlotAtType DEF Exit, TypeOK, IdleSlot, SlotPc
  <2> QED
    BY <1>6, <2>1 DEF Exit, TypeOK, LoopPc
<1> QED
  BY <1>1, <1>2, <1>3, <1>4, <1>5, <1>6 DEF LoopStep

LEMMA FaultTypes == ASSUME TypeOK, Fault PROVE TypeOK'
<1>1. \A kind : SpendFault(kind) => faults' \in Nat
  BY DEF SpendFault, TypeOK
<1>2. ASSUME NEW s \in Slots, FatalCall(s) PROVE TypeOK'
  <2>1. slot' \in [Slots -> Slot]
    BY <1>2, MoveToType DEF FatalCall, SlotPc, HoldingPc, Outcome
  <2> QED
    BY <1>1, <1>2, <2>1 DEF FatalCall, TypeOK
<1>3. ASSUME NEW s \in Slots, DbError(s) PROVE TypeOK'
  <2>1. slot' \in [Slots -> Slot]
    BY <1>3, MoveToType DEF DbError, SlotPc, HoldingPc, Outcome
  <2> QED
    BY <1>1, <1>3, <2>1 DEF DbError, TypeOK
<1>4. ASSUME NEW s \in Slots, LostAck(s) PROVE TypeOK'
  <2> DEFINE v == slot[s].vid
             l == LaneOf(s)
             o == slot[s].out
  <2>0. l \in Lane /\ o \in Outcome /\ (v \in Videos => row[v] \in Row)
    BY LaneOfType DEF TypeOK, Slot
  <2>1. slot' \in [Slots -> Slot]
    BY <1>4, MoveToType DEF LostAck, SlotPc, HoldingPc, Outcome
  <2> HIDE DEF v, l, o
  <2>2. row' \in [Videos -> Row]
    BY <1>4, <2>0, RowTypes, UpdateRowType DEF LostAck, v, l, o, TypeOK
  <2>3. attempts' \in [Videos -> [Lane -> Nat]] /\ ended' \in [Videos -> [Lane -> Nat]]
    BY <1>4, <2>0, CounterTypes DEF LostAck, v, l, o, TypeOK
  <2> QED
    BY <1>1, <1>4, <2>1, <2>2, <2>3 DEF LostAck, TypeOK
<1>5. ASSUME NEW l \in Lane, LoopError(l) \/ Crash(l) PROVE TypeOK'
  <2>1. slot' \in [Slots -> Slot]
    BY <1>5, CancelAllType, SlotAtType DEF LoopError, Crash, TypeOK, IdleSlot, SlotPc
  <2> QED
    BY <1>1, <1>5, <2>1 DEF LoopError, Crash, TypeOK, LoopPc
<1> QED
  BY <1>2, <1>3, <1>4, <1>5, LanesAssumption DEF Fault

LEMMA RequestTypes == ASSUME TypeOK, Request PROVE TypeOK'
<1>0. SpendRequest => requests' \in Nat
  BY DEF SpendRequest, TypeOK
<1>1. ASSUME NEW ids \in SUBSET Videos, AnalyzeVideos(ids) \/ SkipVideos(ids) PROVE TypeOK'
  <2>0. \A v \in Videos :
          row[v] \in Row /\ Requeued(row[v]) \in Row /\ [row[v] EXCEPT !.status = "skipped"] \in Row
    BY RowTypes DEF TypeOK, Lane
  <2>1. row' \in [Videos -> Row]
    BY <1>1, <2>0 DEF AnalyzeVideos, SkipVideos
  <2> QED
    BY <1>0, <1>1, <2>1 DEF AnalyzeVideos, SkipVideos, TypeOK
<1>2. ASSUME NEW ids \in SUBSET Videos, ReanalyzeStale(ids) PROVE TypeOK'
  BY <1>0, <1>2 DEF ReanalyzeStale, TypeOK
<1>3. ASSUME NEW ids \in SUBSET Videos, NEW kind, RetryFailures(ids, kind) PROVE TypeOK'
  BY <1>0, <1>3 DEF RetryFailures, TypeOK
<1>4. CASE RequeueIds
  <2>1. row' \in [Videos -> Row]
    BY <1>4, RowTypes DEF RequeueIds, TypeOK, Lane
  <2> QED
    BY <1>4, <2>1 DEF RequeueIds, TypeOK
<1>5. ASSUME NEW v \in Videos, DeleteChannel(v) PROVE TypeOK'
  <2>1. NoAttempts \in [Lane -> Nat]
    BY DEF NoAttempts
  <2> QED
    BY <1>0, <1>5, <2>1, StatusTypes DEF DeleteChannel, TypeOK
<1>6. ASSUME NEW v \in Videos, NEW st \in {"discovered", "pending", "skipped"}, Ingest(v, st)
      PROVE  TypeOK'
  <2>1. row' \in [Videos -> Row]
    BY <1>6, StatusTypes DEF Ingest, TypeOK
  <2> QED
    BY <1>0, <1>6, <2>1 DEF Ingest, TypeOK
<1>7. ASSUME NEW l \in Lane, PauseLane(l) \/ ResumeLane(l) PROVE TypeOK'
  <2>1. lane[l] \in LaneRow
    BY DEF TypeOK
  <2>2. lane' \in [Lane -> LaneRow] /\ late' \in [Lane -> Nat]
    BY <1>7, <2>1, PauseType, HealthyType, UpdateLaneType DEF PauseLane, ResumeLane, Resume
  <2> QED
    BY <1>0, <1>7, <2>2 DEF PauseLane, ResumeLane, TypeOK
<1> QED
  BY <1>1, <1>2, <1>3, <1>4, <1>5, <1>6, <1>7 DEF Request

LEMMA TypeStep == ASSUME TypeOK, [Next]_vars PROVE TypeOK'
<1>1. CASE UNCHANGED vars
  BY <1>1 DEF vars, TypeOK
<1>2. CASE Next
  BY <1>2, SlotStepTypes, LoopStepTypes, FaultTypes, RequestTypes, LanesAssumption DEF Next
<1> QED
  BY <1>1, <1>2

\* Rows, counters, lanes, loops and slots keep their types, with every fault there
\* is: lost commits and videos deleted and ingested again included.
THEOREM Typing == Spec => []TypeOK
  BY TypeInit, TypeStep, PTL DEF Spec
-----------------------------------------------------------------------------
(* The claims: the inductive invariant *)

\* What a slot may look like: it holds a video exactly while it works on one, writes
\* only what its lane can write, and no anomaly is ever found.
SoundSlot(sl, l) ==
  /\ sl.pc \in HoldingPc <=> sl.vid # NoVideo
  /\ sl.pc \in {"writing", "committing"} => sl.out \in {"success", "failure", "noTranscript"}
  /\ sl.pc = "committing" => l = "analysis" /\ sl.out = "success"
  /\ sl.out = "noTranscript" => l = "transcript"
  /\ sl.out # "anomaly"

SlotsAreSound == \A s \in Slots : SoundSlot(slot[s], LaneOf(s))

\* A process that is down has no slots: its startup releases only claims left over.
DownIsIdle ==
  \A l \in Lane : loop[l] = "down" => \A s \in SlotsOf(l) : slot[s].vid = NoVideo

RowsAreSound == QueuesAreSound /\ FailureKindIsDerivable
ClaimsAreSound == SlotHoldsItsClaim /\ ExclusiveHold /\ RowsAreSound
IInv == TypeOK /\ ClaimsAreSound /\ SlotsAreSound /\ DownIsIdle

SoundRow(r) == Routed(r) /\ FailedWhereItDied(r)
-----------------------------------------------------------------------------
(* What the operations make of a sound row *)

LEMMA WrittenIsSound ==
  ASSUME NEW r \in Row, NEW l \in Lane, NEW o \in {"success", "failure", "noTranscript"},
         SoundRow(r), r.status = InputStatus(l), o = "noTranscript" => l = "transcript"
  PROVE  SoundRow(Written(r, l, o))
<1>1. r.transcript <=> l = "analysis"
  BY DEF SoundRow, Routed, InputStatus, Lane
<1>2. CASE o = "failure"
  BY <1>1, <1>2 DEF Written, Failed, SoundRow, Routed, FailedWhereItDied, Row, Lane
<1>3. CASE o = "noTranscript"
  BY <1>1, <1>3 DEF Written, SoundRow, Routed, FailedWhereItDied, Row, Lane
<1>4. CASE o = "success" /\ l = "transcript"
  BY <1>1, <1>4 DEF Written, SoundRow, Routed, FailedWhereItDied, Row
<1>5. CASE o = "success" /\ l = "analysis"
  BY <1>1, <1>5 DEF Written, SoundRow, Routed, FailedWhereItDied, Row
<1> QED
  BY <1>2, <1>3, <1>4, <1>5 DEF Lane

LEMMA FailedIsSound ==
  ASSUME NEW r \in Row, NEW l \in Lane, SoundRow(r), r.status = InputStatus(l)
  PROVE  SoundRow(Failed(r, l))
<1>1. r.transcript <=> l = "analysis"
  BY DEF SoundRow, Routed, InputStatus, Lane
<1> QED
  BY <1>1 DEF Failed, SoundRow, Routed, FailedWhereItDied, Row, Lane

LEMMA GivenBackIsSound ==
  ASSUME NEW r \in Row, NEW o, o # "anomaly", SoundRow(r), r.status # "absent"
  PROVE  SoundRow(GivenBack(r, o))
  BY DEF GivenBack, SoundRow, Routed, FailedWhereItDied, Row

\* A requeue, however late, leaves a claimed row in the queue it is claimed from.
LEMMA RequeuedIsSound ==
  ASSUME NEW r \in Row, SoundRow(r)
  PROVE  /\ SoundRow(Requeued(r))
         /\ Requeued(r).claimed = r.claimed
         /\ r.claimed => Requeued(r).status = r.status
<1>1. CASE r.transcript
  BY <1>1 DEF Requeued, QueueStatusFor, SoundRow, Routed, FailedWhereItDied, Row, AbsentRow
<1>2. CASE ~r.transcript
  BY <1>2 DEF Requeued, QueueStatusFor, SoundRow, Routed, FailedWhereItDied, Row, AbsentRow
<1> QED
  BY <1>1, <1>2

LEMMA SkippedIsSound ==
  ASSUME NEW r \in Row, ~r.claimed
  PROVE  SoundRow([r EXCEPT !.status = "skipped"])
  BY DEF SoundRow, Routed, FailedWhereItDied, Row

LEMMA ReleasedIsSound ==
  ASSUME NEW r \in Row, NEW l \in Lane, SoundRow(r)
  PROVE  SoundRow(Released(r, l))
  BY DEF Released, SoundRow, Routed, FailedWhereItDied, Row, AbsentRow, InputStatus, Lane

LEMMA NewRowIsSound ==
  ASSUME NEW st \in {"discovered", "pending", "skipped"}
  PROVE  SoundRow(NewRow(st)) /\ SoundRow(AbsentRow)
  BY DEF NewRow, SoundRow, Routed, FailedWhereItDied, AbsentRow
-----------------------------------------------------------------------------
(* What a step must not do *)

\* Slots keep or drop what they hold.
KeepOrDrop == \A s \in Slots : slot'[s].vid \in {slot[s].vid, NoVideo}

\* A row that a slot still holds stays claimed and in its queue, or is deleted.
Respects(v) ==
  \/ row'[v].status = row[v].status /\ row'[v].claimed = row[v].claimed
  \/ row'[v].status = "absent"
  \/ \A s \in Slots : slot'[s].vid # v

LEMMA ClaimsKept ==
  ASSUME ClaimsAreSound, KeepOrDrop,
         \A v \in Videos : Respects(v) /\ SoundRow(row'[v])
  PROVE  ClaimsAreSound'
<1>1. \A s \in Slots, v \in Videos : Holds(s, v)' => Holds(s, v)
  BY LanesAssumption DEF KeepOrDrop, Holds
<1>2. SlotHoldsItsClaim'
  BY <1>1 DEF ClaimsAreSound, SlotHoldsItsClaim, Respects, Holds, Exists
<1>3. ExclusiveHold'
  BY <1>1 DEF ClaimsAreSound, ExclusiveHold
<1>4. RowsAreSound'
  BY DEF SoundRow, RowsAreSound, QueuesAreSound, FailureKindIsDerivable
<1> QED
  BY <1>2, <1>3, <1>4 DEF ClaimsAreSound

LEMMA ClaimsKeptByRows ==
  ASSUME ClaimsAreSound, KeepOrDrop, UNCHANGED row
  PROVE  ClaimsAreSound'
<1>1. \A v \in Videos : Respects(v) /\ SoundRow(row'[v])
  BY DEF Respects, SoundRow, ClaimsAreSound, RowsAreSound, QueuesAreSound, FailureKindIsDerivable
<1> QED
  BY <1>1, ClaimsKept

LEMMA DownKept ==
  ASSUME DownIsIdle, KeepOrDrop, \A l \in Lane : loop'[l] = "down" => loop[l] = "down"
  PROVE  DownIsIdle'
  BY DEF DownIsIdle, KeepOrDrop, SlotsOf, Slots

LEMMA SlotAtIsSound ==
  \A p \in SlotPc \ HoldingPc, l \in Lane : SoundSlot(SlotAt(p), l) /\ SlotAt(p).vid = NoVideo
  BY DEF SoundSlot, SlotAt, SlotPc, HoldingPc

\* A task moves on with what its lane can have as its outcome.
LEMMA Moved ==
  ASSUME IInv, NEW s \in Slots, NEW p \in SlotPc, NEW o \in Outcome, MoveTo(s, p, o),
         p \in HoldingPc => slot[s].pc \in HoldingPc,
         p \in {"writing", "committing"} => o \in {"success", "failure", "noTranscript"},
         p = "committing" => LaneOf(s) = "analysis" /\ o = "success",
         o = "noTranscript" => LaneOf(s) = "transcript",
         o # "anomaly",
         UNCHANGED loop
  PROVE  SlotsAreSound' /\ DownIsIdle' /\ KeepOrDrop
         /\ (p \notin HoldingPc => \A v \in Videos : slot'[s].vid # v)
         /\ \A t \in Slots \ {s} : slot'[t] = slot[t]
<1> DEFINE moved == [pc |-> p, vid |-> IF p \in HoldingPc THEN slot[s].vid ELSE NoVideo,
                     out |-> o, cancel |-> FALSE]
<1>1. slot' = [slot EXCEPT ![s] = IF slot[s].cancel THEN SlotAt("raised") ELSE moved]
  BY DEF MoveTo
<1>2. SoundSlot(moved, LaneOf(s)) /\ moved.vid \in {slot[s].vid, NoVideo}
  BY DEF SoundSlot, IInv, SlotsAreSound
<1>3. p \notin HoldingPc => moved.vid = NoVideo
  OBVIOUS
<1> HIDE DEF moved
<1>4. SoundSlot(SlotAt("raised"), LaneOf(s)) /\ SlotAt("raised").vid = NoVideo
  BY SlotAtIsSound, LaneOfType DEF SlotPc, HoldingPc
<1>5. slot'[s] \in {SlotAt("raised"), moved} /\ \A t \in Slots \ {s} : slot'[t] = slot[t]
  BY <1>1 DEF IInv, TypeOK
<1>6. SlotsAreSound'
  BY <1>2, <1>4, <1>5 DEF IInv, SlotsAreSound
<1>7. KeepOrDrop
  BY <1>2, <1>4, <1>5 DEF KeepOrDrop
<1>8. DownIsIdle'
  BY <1>7, DownKept DEF IInv
<1>9. p \notin HoldingPc => \A v \in Videos : slot'[s].vid # v
  BY <1>3, <1>4, <1>5, LanesAssumption
<1> QED
  BY <1>5, <1>6, <1>7, <1>8, <1>9
-----------------------------------------------------------------------------
(* The tasks of the slots *)

Safe == ClaimsAreSound' /\ SlotsAreSound' /\ DownIsIdle'

\* The video a working slot holds, if it still exists, is a sound row of its queue.
LEMMA HeldRow ==
  ASSUME IInv, NEW s \in Slots, slot[s].pc \in HoldingPc
  PROVE  LET v == slot[s].vid
         IN /\ v \in Videos
            /\ row[v] \in Row
            /\ SoundRow(row[v])
            /\ Exists(v) => row[v].status = InputStatus(LaneOf(s))
<1>1. slot[s].vid \in Videos
  BY DEF IInv, SlotsAreSound, SoundSlot, TypeOK, Slot
<1>2. Holds(s, slot[s].vid)
  BY DEF Holds
<1> QED
  BY <1>1, <1>2 DEF IInv, TypeOK, ClaimsAreSound, RowsAreSound, SlotHoldsItsClaim,
     QueuesAreSound, FailureKindIsDerivable, SoundRow

\* A task that writes its own row and drops it leaves everybody else's alone.
LEMMA OwnRowDropped ==
  ASSUME IInv, NEW s \in Slots, NEW r, slot[s].pc \in HoldingPc,
         UpdateRow(slot[s].vid, r),
         Exists(slot[s].vid) => SoundRow(r),
         KeepOrDrop,
         Exists(slot[s].vid) => \A v \in Videos : slot'[s].vid # v
  PROVE  ClaimsAreSound'
<1> DEFINE v == slot[s].vid
<1>1. v \in Videos /\ Holds(s, v) /\ SoundRow(row[v])
  BY HeldRow DEF Holds
<1>2. \A u \in Videos : SoundRow(row[u])
  BY DEF IInv, ClaimsAreSound, RowsAreSound, QueuesAreSound, FailureKindIsDerivable, SoundRow
<1>3. \A u \in Videos \ {v} : row'[u] = row[u]
  BY DEF UpdateRow, IInv, TypeOK
<1>4. CASE ~Exists(v)
  <2>1. \A u \in Videos : row'[u] = row[u]
    BY <1>3, <1>4 DEF UpdateRow, IInv, TypeOK
  <2> QED
    BY <1>2, <2>1, ClaimsKept DEF Respects, IInv
<1>5. CASE Exists(v)
  <2>1. row'[v] = r
    BY <1>1, <1>5 DEF UpdateRow, IInv, TypeOK
  <2>2. \A t \in Slots : slot'[t].vid # v
    <3>1. \A t \in Slots \ {s} : slot[t].vid # v
      BY <1>1 DEF IInv, ClaimsAreSound, ExclusiveHold, Holds
    <3>2. slot'[s].vid # v
      BY <1>1, <1>5
    <3> QED
      BY <1>1, <3>1, <3>2, LanesAssumption DEF KeepOrDrop
  <2> QED
    BY <1>2, <1>3, <1>5, <2>1, <2>2, ClaimsKept DEF Respects, IInv
<1> QED
  BY <1>4, <1>5

LEMMA SlotStepSafe == ASSUME IInv, NEW s \in Slots, SlotStep(s) PROVE Safe
<1> DEFINE v == slot[s].vid
           l == LaneOf(s)
           o == slot[s].out
<1>0. l \in Lane /\ o \in Outcome /\ SoundSlot(slot[s], l)
  BY LaneOfType DEF IInv, TypeOK, Slot, SlotsAreSound
<1>1. CASE Stamp(s)
  <2>1. slot[s].pc \in HoldingPc /\ UNCHANGED <<row, loop>>
    BY <1>1 DEF Stamp, HoldingPc
  <2>2. Exists(v) /\ l = "analysis" => row[v].transcript
    BY <2>1, HeldRow DEF SoundRow, Routed, InputStatus
  <2>3. MoveTo(s, "done", "none") \/ MoveTo(s, "calling", "none")
    BY <1>1, <2>2 DEF Stamp
  <2>4. SlotsAreSound' /\ DownIsIdle' /\ KeepOrDrop
    BY <2>1, <2>3, Moved DEF SlotPc, HoldingPc, Outcome
  <2> QED
    BY <2>1, <2>4, ClaimsKeptByRows DEF Safe, IInv
<1>2. ASSUME NEW out \in Outcome, Call(s, out) PROVE Safe
  <2>1. slot[s].pc \in HoldingPc /\ UNCHANGED <<row, loop>>
    BY <1>2 DEF Call, HoldingPc
  <2>2. SlotsAreSound' /\ DownIsIdle' /\ KeepOrDrop
    BY <1>2, <2>1, Moved DEF Call, SlotPc, HoldingPc
  <2> QED
    BY <2>1, <2>2, ClaimsKeptByRows DEF Safe, IInv
<1>3. CASE CancelledCall(s)
  <2>1. UNCHANGED <<row, loop>>
    BY <1>3 DEF CancelledCall
  <2>2. /\ slot[s] \in Slot /\ slot[s].pc = "calling"
        /\ slot' = [slot EXCEPT ![s] = [slot[s] EXCEPT !.pc = "givingBack", !.out = "raise",
                                                       !.cancel = FALSE]]
    BY <1>3 DEF CancelledCall, IInv, TypeOK
  <2>3. /\ slot'[s].vid = slot[s].vid /\ slot'[s].pc = "givingBack" /\ slot'[s].out = "raise"
        /\ \A t \in Slots \ {s} : slot'[t] = slot[t]
    BY <2>2 DEF IInv, TypeOK, Slot
  <2>4. KeepOrDrop
    BY <2>3 DEF KeepOrDrop
  <2>5. SoundSlot(slot'[s], l)
    BY <1>0, <2>2, <2>3 DEF SoundSlot, HoldingPc
  <2>6. SlotsAreSound'
    BY <2>3, <2>5 DEF IInv, SlotsAreSound
  <2> QED
    BY <2>1, <2>4, <2>6, ClaimsKeptByRows, DownKept DEF Safe, IInv
<1>4. CASE Write(s)
  <2>1. slot[s].pc \in HoldingPc /\ slot[s].pc = "writing" /\ UNCHANGED loop
    BY <1>4 DEF Write, HoldingPc
  <2>2. o \in {"success", "failure", "noTranscript"} /\ (o = "noTranscript" => l = "transcript")
    BY <1>0, <2>1 DEF SoundSlot
  <2>3. Exists(v) => SoundRow(Written(row[v], l, o))
    BY <1>0, <2>1, <2>2, HeldRow, WrittenIsSound
  <2>4. SlotsAreSound' /\ DownIsIdle' /\ KeepOrDrop /\ \A u \in Videos : slot'[s].vid # u
    BY <1>0, <1>4, <2>1, <2>2, Moved DEF Write, SlotPc, HoldingPc, Outcome
  <2>5. UpdateRow(v, Written(row[v], l, o))
    BY <1>4 DEF Write
  <2> QED
    BY <2>1, <2>3, <2>4, <2>5, OwnRowDropped DEF Safe
<1>5. CASE PersistRead(s)
  <2>1. slot[s].pc \in HoldingPc /\ l = "analysis" /\ UNCHANGED <<row, loop>>
    BY <1>5 DEF PersistRead, Persists, HoldingPc
  <2>2. MoveTo(s, "committing", "success") \/ MoveTo(s, "done", "none")
    BY <1>5 DEF PersistRead
  <2>3. SlotsAreSound' /\ DownIsIdle' /\ KeepOrDrop
    BY <2>1, <2>2, Moved DEF SlotPc, HoldingPc, Outcome
  <2> QED
    BY <2>1, <2>3, ClaimsKeptByRows DEF Safe, IInv
<1>6. CASE PersistCommit(s)
  <2>1. slot[s].pc \in HoldingPc /\ slot[s].pc = "committing" /\ UNCHANGED loop
    BY <1>6 DEF PersistCommit, HoldingPc
  <2>2. l = "analysis"
    BY <1>0, <2>1 DEF SoundSlot
  <2>3. Exists(v) => SoundRow(Written(row[v], "analysis", "success"))
    BY <1>0, <2>1, <2>2, HeldRow, WrittenIsSound
  <2>4. SlotsAreSound' /\ DownIsIdle' /\ KeepOrDrop
        /\ (Exists(v) => \A u \in Videos : slot'[s].vid # u)
    BY <1>6, <2>1, Moved DEF PersistCommit, SlotPc, HoldingPc, Outcome
  <2>5. UpdateRow(v, Written(row[v], "analysis", "success"))
    BY <1>6 DEF PersistCommit
  <2> QED
    BY <2>1, <2>3, <2>4, <2>5, OwnRowDropped DEF Safe
<1>7. CASE GiveBack(s)
  <2>1. slot[s].pc \in HoldingPc /\ o # "anomaly" /\ UNCHANGED loop
    BY <1>0, <1>7 DEF GiveBack, HoldingPc, SoundSlot
  <2>2. Exists(v) => SoundRow(GivenBack(row[v], o))
    BY <2>1, HeldRow, GivenBackIsSound DEF Exists
  <2>3. SlotsAreSound' /\ DownIsIdle' /\ KeepOrDrop /\ \A u \in Videos : slot'[s].vid # u
    BY <1>7, <2>1, Moved DEF GiveBack, SlotPc, HoldingPc, Outcome
  <2>4. UpdateRow(v, GivenBack(row[v], o))
    BY <1>7 DEF GiveBack
  <2> QED
    BY <2>1, <2>2, <2>3, <2>4, OwnRowDropped DEF Safe
<1>8. CASE FailVideo(s)
  <2>1. slot[s].pc \in HoldingPc /\ UNCHANGED loop
    BY <1>8 DEF FailVideo, HoldingPc
  <2>2. /\ v \in Videos /\ row[v] \in Row /\ SoundRow(row[v])
        /\ Exists(v) => row[v].status = InputStatus(l)
    BY <2>1, HeldRow
  <2>3. Exists(v) => SoundRow(Failed(row[v], l))
    BY <1>0, <2>2, FailedIsSound
  <2>4. Exists(v) <=> row[v].status = InputStatus(l)
    BY <2>2 DEF Exists, InputStatus
  <2>5. UpdateRow(v, Failed(row[v], l))
    BY <1>8, <2>2, <2>4 DEF FailVideo, UpdateRow
  <2>6. SlotsAreSound' /\ DownIsIdle' /\ KeepOrDrop /\ \A u \in Videos : slot'[s].vid # u
    BY <1>8, <2>1, Moved DEF FailVideo, SlotPc, HoldingPc, Outcome
  <2> QED
    BY <2>1, <2>3, <2>5, <2>6, OwnRowDropped DEF Safe
<1>9. CASE Record(s) \/ Throttle(s)
  <2>1. UNCHANGED <<row, loop>>
    BY <1>9 DEF Record, Throttle
  <2>2. MoveTo(s, "done", "none") \/ MoveTo(s, "throttling", "none")
    BY <1>9 DEF Record, Throttle
  <2>3. SlotsAreSound' /\ DownIsIdle' /\ KeepOrDrop
    BY <2>1, <2>2, Moved DEF SlotPc, HoldingPc, Outcome
  <2> QED
    BY <2>1, <2>3, ClaimsKeptByRows DEF Safe, IInv
<1>10. CASE Interrupt(s)
  <2>1. UNCHANGED <<row, loop>> /\ slot' = [slot EXCEPT ![s] = SlotAt("raised")]
    BY <1>10 DEF Interrupt
  <2>2. SoundSlot(SlotAt("raised"), l) /\ SlotAt("raised").vid = NoVideo
    BY <1>0, SlotAtIsSound DEF SlotPc, HoldingPc
  <2>3. KeepOrDrop /\ SlotsAreSound'
    BY <2>1, <2>2 DEF KeepOrDrop, IInv, TypeOK, SlotsAreSound
  <2> QED
    BY <2>1, <2>3, ClaimsKeptByRows, DownKept DEF Safe, IInv
<1> QED
  BY <1>1, <1>2, <1>3, <1>4, <1>5, <1>6, <1>7, <1>8, <1>9, <1>10 DEF SlotStep
-----------------------------------------------------------------------------
(* The loops *)

LEMMA IdleIsSound == \A l \in Lane : SoundSlot(IdleSlot, l) /\ IdleSlot.vid = NoVideo
  BY SlotAtIsSound DEF IdleSlot, SlotPc, HoldingPc

\* Cancelling keeps what a task holds; a task that has ended holds nothing.
LEMMA CancelledIsSound ==
  ASSUME TypeOK, SlotsAreSound, NEW s \in Slots
  PROVE  /\ SoundSlot(Cancelled(slot[s]), LaneOf(s))
         /\ Cancelled(slot[s]).vid \in {slot[s].vid, NoVideo}
<1>1. slot[s] \in Slot /\ SoundSlot(slot[s], LaneOf(s))
  BY DEF TypeOK, SlotsAreSound
<1>2. LET c == [slot[s] EXCEPT !.cancel = TRUE]
      IN c.pc = slot[s].pc /\ c.vid = slot[s].vid /\ c.out = slot[s].out
  BY <1>1 DEF Slot
<1>3. CASE Cancelled(slot[s]) = IdleSlot
  BY <1>3, IdleIsSound, LaneOfType
<1>4. CASE Cancelled(slot[s]) = [slot[s] EXCEPT !.cancel = TRUE]
  BY <1>1, <1>2, <1>4 DEF SoundSlot
<1> QED
  BY <1>3, <1>4 DEF Cancelled

\* Slots that were cancelled, ended or killed, with the rows as they were.
LEMMA SlotsDropped ==
  ASSUME IInv, NEW l \in Lane, UNCHANGED row,
         \A k \in Lane : loop'[k] = "down" =>
           loop[k] = "down" \/ \A s \in SlotsOf(k) : slot'[s] = IdleSlot,
         \A s \in Slots : slot'[s] \in {slot[s], Cancelled(slot[s]), IdleSlot}
  PROVE  Safe
<1>1. \A s \in Slots : SoundSlot(slot'[s], LaneOf(s)) /\ slot'[s].vid \in {slot[s].vid, NoVideo}
  BY CancelledIsSound, IdleIsSound, LaneOfType DEF IInv, SlotsAreSound
<1>2. SlotsAreSound' /\ KeepOrDrop
  BY <1>1 DEF SlotsAreSound, KeepOrDrop
<1>3. ClaimsAreSound'
  BY <1>2, ClaimsKeptByRows DEF IInv
<1>4. DownIsIdle'
  BY <1>2, IdleIsSound DEF IInv, DownIsIdle, KeepOrDrop, SlotsOf, Slots
<1> QED
  BY <1>2, <1>3, <1>4 DEF Safe

\* Only the claims of this lane's queue are dropped at startup, and its process,
\* which was down, holds none of them.
LEMMA StartupSafe == ASSUME IInv, NEW l \in Lane, Startup(l) PROVE Safe
<1>1. slot' = slot /\ KeepOrDrop
  BY DEF Startup, KeepOrDrop
<1>2. \A v \in Videos : row'[v] = Released(row[v], l) /\ row[v] \in Row
  BY DEF Startup, IInv, TypeOK
<1>3. \A v \in Videos : SoundRow(row'[v])
  BY <1>2, ReleasedIsSound DEF IInv, ClaimsAreSound, RowsAreSound, QueuesAreSound,
     FailureKindIsDerivable, SoundRow
<1>4. ASSUME NEW v \in Videos PROVE Respects(v)
  <2>1. CASE row[v].status # InputStatus(l)
    BY <1>2, <2>1 DEF Released, Respects
  <2>2. CASE row[v].status = InputStatus(l)
    <3>1. ASSUME NEW s \in Slots PROVE slot[s].vid # v
      <4>1. CASE LaneOf(s) = l
        <5>1. s \in SlotsOf(l)
          BY <4>1, LanesAssumption DEF LaneOf, SlotsOf, Slots
        <5> QED
          BY <5>1, LanesAssumption DEF Startup, IInv, DownIsIdle
      <4>2. CASE LaneOf(s) # l
        <5>1. InputStatus(LaneOf(s)) # InputStatus(l)
          BY <4>2, LaneOfType DEF InputStatus, Lane
        <5>2. Exists(v)
          BY <2>2 DEF Exists, InputStatus
        <5> QED
          BY <2>2, <5>1, <5>2 DEF IInv, ClaimsAreSound, SlotHoldsItsClaim, Holds
      <4> QED
        BY <4>1, <4>2
    <3> QED
      BY <1>1, <3>1 DEF Respects
  <2> QED
    BY <2>1, <2>2
<1>5. ClaimsAreSound'
  BY <1>1, <1>3, <1>4, ClaimsKept DEF IInv
<1>6. SlotsAreSound'
  BY <1>1 DEF IInv, SlotsAreSound
<1>7. DownIsIdle'
  <2>1. \A k \in Lane : loop'[k] = "down" => loop[k] = "down"
    BY DEF Startup, IInv, TypeOK
  <2> QED
    BY <1>1, <2>1, DownKept DEF IInv
<1> QED
  BY <1>5, <1>6, <1>7 DEF Safe

\* A free slot takes a video that nobody holds: held ones are claimed.
LEMMA ClaimNextSafe ==
  ASSUME IInv, NEW l \in Lane, NEW s \in SlotsOf(l), NEW v \in Videos, ClaimNext(l, s, v)
  PROVE  Safe
<1> DEFINE taken == [SlotAt("created") EXCEPT !.vid = v]
<1>0. s \in Slots /\ LaneOf(s) = l
  BY LanesAssumption DEF SlotsOf, LaneOf, Slots, Lane
<1>1. /\ row[v] \in Row /\ row[v].status = InputStatus(l) /\ ~row[v].claimed
      /\ SoundRow(row[v]) /\ Exists(v)
  BY DEF ClaimNext, Claimable, Exists, InputStatus, IInv, TypeOK, ClaimsAreSound, RowsAreSound,
     QueuesAreSound, FailureKindIsDerivable, SoundRow
<1>2. \A t \in Slots : ~Holds(t, v)
  BY <1>1 DEF IInv, ClaimsAreSound, SlotHoldsItsClaim
<1>3. taken.pc = "created" /\ taken.vid = v /\ taken.out = "none"
  BY DEF SlotAt
<1> HIDE DEF taken
<1>4. slot' = [slot EXCEPT ![s] = taken] /\ row' = [row EXCEPT ![v].claimed = TRUE]
  BY DEF ClaimNext, taken
<1>5. slot'[s] = taken /\ \A t \in Slots \ {s} : slot'[t] = slot[t]
  BY <1>0, <1>4 DEF IInv, TypeOK
<1>6. /\ row'[v].claimed /\ row'[v].status = InputStatus(l) /\ SoundRow(row'[v])
      /\ \A u \in Videos \ {v} : row'[u] = row[u]
  <2>1. row'[v] = [row[v] EXCEPT !.claimed = TRUE] /\ \A u \in Videos \ {v} : row'[u] = row[u]
    BY <1>4 DEF IInv, TypeOK
  <2> QED
    BY <1>1, <2>1 DEF Row, SoundRow, Routed, FailedWhereItDied, InputStatus, Lane
<1>7. SlotHoldsItsClaim'
  BY <1>0, <1>2, <1>3, <1>5, <1>6
  DEF IInv, ClaimsAreSound, SlotHoldsItsClaim, Holds, Exists
<1>8. ExclusiveHold'
  BY <1>2, <1>3, <1>5 DEF IInv, ClaimsAreSound, ExclusiveHold, Holds
<1>9. RowsAreSound'
  BY <1>6 DEF IInv, ClaimsAreSound, RowsAreSound, QueuesAreSound, FailureKindIsDerivable, SoundRow
<1>10. SlotsAreSound'
  <2>1. SoundSlot(taken, l)
    BY <1>3, LanesAssumption DEF SoundSlot, HoldingPc
  <2> QED
    BY <1>0, <1>5, <2>1 DEF IInv, SlotsAreSound
<1>11. DownIsIdle'
  <2>1. loop'[l] # "down" /\ \A k \in Lane \ {l} : loop'[k] = loop[k]
    BY DEF ClaimNext, AfterClaim, IInv, TypeOK
  <2>2. \A k \in Lane \ {l} : s \notin SlotsOf(k)
    BY LanesAssumption DEF SlotsOf, Lane
  <2>3. \A k \in Lane : SlotsOf(k) \subseteq Slots
    BY DEF SlotsOf, Slots
  <2> QED
    BY <1>5, <2>1, <2>2, <2>3 DEF IInv, DownIsIdle
<1> QED
  BY <1>7, <1>8, <1>9, <1>10, <1>11 DEF Safe, ClaimsAreSound

LEMMA LoopStepSafe == ASSUME IInv, NEW l \in Lane, LoopStep(l) PROVE Safe
<1>1. CASE Fill(l) \/ CheckPaused(l) \/ ClaimNothing(l)
  <2>1. UNCHANGED <<row, slot>>
    BY <1>1 DEF Fill, CheckPaused, ClaimNothing
  <2>2. \A k \in Lane : loop'[k] = "down" => loop[k] = "down"
    BY <1>1 DEF Fill, CheckPaused, ClaimNothing, IInv, TypeOK
  <2> QED
    BY <2>1, <2>2, SlotsDropped
<1>2. CASE Wake(l)
  <2>1. UNCHANGED row /\ \A k \in Lane : loop'[k] = "down" => loop[k] = "down"
    BY <1>2 DEF Wake, IInv, TypeOK
  <2>2. \A s \in Slots : slot'[s] \in {slot[s], Cancelled(slot[s]), IdleSlot}
    BY <1>2 DEF Wake, CancelAll
  <2> QED
    BY <2>1, <2>2, SlotsDropped
<1>3. CASE Exit(l)
  <2>1. UNCHANGED row /\ \A s \in Slots : slot'[s] \in {slot[s], IdleSlot}
    BY <1>3 DEF Exit
  <2>2. \A k \in Lane : loop'[k] = "down" =>
          loop[k] = "down" \/ \A s \in SlotsOf(k) : slot'[s] = IdleSlot
    BY <1>3 DEF Exit, IInv, TypeOK, SlotsOf, Slots
  <2> QED
    BY <2>1, <2>2, SlotsDropped
<1> QED
  BY <1>1, <1>2, <1>3, StartupSafe, ClaimNextSafe DEF LoopStep
-----------------------------------------------------------------------------
(* Faults: no commit loses its answer *)

LEMMA FaultSafe == ASSUME ~LostAcks, IInv, Fault PROVE Safe
<1>1. ASSUME NEW s \in Slots, FatalCall(s) PROVE Safe
  <2>1. slot[s].pc \in HoldingPc /\ UNCHANGED <<row, loop>> /\ MoveTo(s, "givingBack", "raise")
    BY <1>1 DEF FatalCall, HoldingPc
  <2>2. SlotsAreSound' /\ DownIsIdle' /\ KeepOrDrop
    BY <2>1, Moved DEF SlotPc, HoldingPc, Outcome
  <2> QED
    BY <2>1, <2>2, ClaimsKeptByRows DEF Safe, IInv
<1>2. ASSUME NEW s \in Slots, DbError(s) PROVE Safe
  <2>1. /\ UNCHANGED <<row, loop>>
        /\ \/ slot[s].pc \in HoldingPc /\ MoveTo(s, "failing", "none")
           \/ MoveTo(s, "raised", "none")
    BY <1>2 DEF DbError, HoldingPc
  <2>2. SlotsAreSound' /\ DownIsIdle' /\ KeepOrDrop
    BY <2>1, Moved DEF SlotPc, HoldingPc, Outcome
  <2> QED
    BY <2>1, <2>2, ClaimsKeptByRows DEF Safe, IInv
<1>3. ASSUME NEW l \in Lane, LoopError(l) PROVE Safe
  <2>1. UNCHANGED row /\ \A k \in Lane : loop'[k] = "down" => loop[k] = "down"
    BY <1>3 DEF LoopError, IInv, TypeOK
  <2>2. \A s \in Slots : slot'[s] \in {slot[s], Cancelled(slot[s]), IdleSlot}
    BY <1>3 DEF LoopError, CancelAll
  <2> QED
    BY <2>1, <2>2, SlotsDropped
<1>4. ASSUME NEW l \in Lane, Crash(l) PROVE Safe
  <2>1. UNCHANGED row /\ \A s \in Slots : slot'[s] \in {slot[s], IdleSlot}
    BY <1>4 DEF Crash
  <2>2. \A k \in Lane : loop'[k] = "down" =>
          loop[k] = "down" \/ \A s \in SlotsOf(k) : slot'[s] = IdleSlot
    BY <1>4 DEF Crash, IInv, TypeOK, SlotsOf, Slots
  <2> QED
    BY <2>1, <2>2, SlotsDropped
<1> QED
  BY <1>1, <1>2, <1>3, <1>4, LanesAssumption DEF Fault, LostAck
-----------------------------------------------------------------------------
(* Requests: no deleted video comes back under a live slot *)

LEMMA RequestSafe == ASSUME ~ReAddInFlight, IInv, Request PROVE Safe
<1>0. \A v \in Videos : row[v] \in Row /\ SoundRow(row[v])
  BY DEF IInv, TypeOK, ClaimsAreSound, RowsAreSound, QueuesAreSound, FailureKindIsDerivable,
     SoundRow
<1>1. ASSUME UNCHANGED <<slot, loop>>,
             \A v \in Videos : Respects(v) /\ SoundRow(row'[v])
      PROVE  Safe
  <2>1. KeepOrDrop
    BY <1>1 DEF KeepOrDrop
  <2>2. ClaimsAreSound'
    BY <1>1, <2>1, ClaimsKept DEF IInv
  <2>3. DownIsIdle'
    BY <1>1, <2>1, DownKept DEF IInv
  <2>4. SlotsAreSound'
    BY <1>1 DEF IInv, SlotsAreSound
  <2> QED
    BY <2>2, <2>3, <2>4 DEF Safe
<1>2. ASSUME NEW ids \in SUBSET Videos, AnalyzeVideos(ids) \/ SkipVideos(ids) PROVE Safe
  <2>1. UNCHANGED <<slot, loop>> /\ \A v \in ids : ~row[v].claimed /\ Exists(v)
    BY <1>2 DEF AnalyzeVideos, SkipVideos, Busy, Loaded
  <2>2. \A v \in ids, s \in Slots : slot'[s].vid # v
    BY <2>1 DEF IInv, ClaimsAreSound, SlotHoldsItsClaim, Holds
  <2>3. \A v \in Videos : \/ v \in ids /\ row'[v] = Requeued(row[v])
                          \/ v \in ids /\ row'[v] = [row[v] EXCEPT !.status = "skipped"]
                          \/ row'[v] = row[v]
    BY <1>2 DEF AnalyzeVideos, SkipVideos
  <2>4. \A v \in Videos : SoundRow(row'[v])
    BY <1>0, <2>1, <2>3, RequeuedIsSound, SkippedIsSound
  <2>5. \A v \in Videos : Respects(v)
    BY <2>2, <2>3 DEF Respects
  <2> QED
    BY <1>1, <2>1, <2>4, <2>5
<1>3. ASSUME NEW ids \in SUBSET Videos, NEW kind, ReanalyzeStale(ids) \/ RetryFailures(ids, kind)
      PROVE  Safe
  BY <1>0, <1>1, <1>3 DEF ReanalyzeStale, RetryFailures, Respects
<1>4. CASE RequeueIds
  <2>1. UNCHANGED <<slot, loop>> /\ \A v \in Videos : row'[v] \in {row[v], Requeued(row[v])}
    BY <1>4 DEF RequeueIds
  <2>2. \A v \in Videos : SoundRow(row'[v])
    BY <1>0, <2>1, RequeuedIsSound
  <2>3. ASSUME NEW v \in Videos PROVE Respects(v)
    <3>1. CASE row[v].claimed
      BY <1>0, <2>1, <3>1, RequeuedIsSound DEF Respects
    <3>2. CASE ~row[v].claimed /\ Exists(v)
      BY <2>1, <3>2 DEF Respects, IInv, ClaimsAreSound, SlotHoldsItsClaim, Holds
    <3>3. CASE ~Exists(v)
      BY <1>4, <3>3 DEF RequeueIds, Respects
    <3> QED
      BY <3>1, <3>2, <3>3
  <2> QED
    BY <1>1, <2>1, <2>2, <2>3
<1>5. ASSUME NEW v \in Videos, DeleteChannel(v) PROVE Safe
  <2>1. UNCHANGED <<slot, loop>> /\ row' = [row EXCEPT ![v] = AbsentRow]
    BY <1>5 DEF DeleteChannel
  <2>2. SoundRow(AbsentRow) /\ AbsentRow.status = "absent"
    BY NewRowIsSound DEF AbsentRow
  <2> QED
    BY <1>0, <1>1, <2>1, <2>2 DEF Respects, IInv, TypeOK
<1>6. ASSUME NEW v \in Videos, NEW st \in {"discovered", "pending", "skipped"}, Ingest(v, st)
      PROVE  Safe
  <2>1. /\ UNCHANGED <<slot, loop>> /\ row' = [row EXCEPT ![v] = NewRow(st)]
        /\ \A s \in Slots : slot[s].vid # v
    BY <1>6 DEF Ingest, Holds
  <2>2. SoundRow(NewRow(st))
    BY NewRowIsSound
  <2> QED
    BY <1>0, <1>1, <2>1, <2>2 DEF Respects, IInv, TypeOK
<1>7. ASSUME NEW l \in Lane, PauseLane(l) \/ ResumeLane(l) PROVE Safe
  BY <1>0, <1>1, <1>7 DEF PauseLane, ResumeLane, Respects
<1> QED
  BY <1>2, <1>3, <1>4, <1>5, <1>6, <1>7 DEF Request
-----------------------------------------------------------------------------
(* The theorems *)

LEMMA IInvInit == ASSUME Init PROVE IInv
<1>1. \A s \in Slots : slot[s] = IdleSlot
  BY DEF Init
<1>2. \A v \in Videos : AtRest(row[v])
  BY LanesAssumption DEF Init
<1>3. SlotHoldsItsClaim /\ ExclusiveHold
  BY <1>1, IdleIsSound, LanesAssumption, LaneOfType DEF SlotHoldsItsClaim, ExclusiveHold, Holds, Lane
<1>4. RowsAreSound
  BY <1>2 DEF RowsAreSound, QueuesAreSound, FailureKindIsDerivable, AtRest
<1>5. SlotsAreSound /\ DownIsIdle
  BY <1>1, IdleIsSound, LaneOfType DEF SlotsAreSound, DownIsIdle, SlotsOf, Slots
<1> QED
  BY <1>3, <1>4, <1>5, TypeInit DEF IInv, ClaimsAreSound

LEMMA IInvStep ==
  ASSUME ~LostAcks, ~ReAddInFlight, IInv, [Next]_vars
  PROVE  IInv'
<1>1. TypeOK'
  BY TypeStep DEF IInv
<1>2. CASE UNCHANGED vars
  BY <1>1, <1>2, SlotsDropped DEF vars, IInv, Safe, Lane
<1>3. CASE Next
  <2>1. Safe
    BY <1>3, SlotStepSafe, LoopStepSafe, FaultSafe, RequestSafe, LanesAssumption DEF Next
  <2> QED
    BY <1>1, <2>1 DEF Safe, IInv
<1> QED
  BY <1>2, <1>3

LEMMA Invariance == ASSUME ~LostAcks, ~ReAddInFlight PROVE Spec => []IInv
<1>1. Init => IInv
  BY IInvInit
<1>2. IInv /\ [Next]_vars => IInv'
  BY IInvStep
<1> QED
  BY <1>1, <1>2, PTL DEF Spec

\* A slot's video stays claimed and in its lane's queue until the slot has ended,
\* whatever requests, late requeues, restarts and failed transactions interleave.
THEOREM ClaimsStand ==
  ASSUME ~LostAcks, ~ReAddInFlight PROVE Spec => []SlotHoldsItsClaim
<1>1. IInv => SlotHoldsItsClaim
  BY DEF IInv, ClaimsAreSound
<1> QED
  BY <1>1, Invariance, PTL

\* No two tasks, of one lane or of both, ever work on the same video.
THEOREM NoDoubleClaim ==
  ASSUME ~LostAcks, ~ReAddInFlight PROVE Spec => []ExclusiveHold
<1>1. IInv => ExclusiveHold
  BY DEF IInv, ClaimsAreSound
<1> QED
  BY <1>1, Invariance, PTL

\* A video waits only where its lane can work on it, and carries no old error there.
THEOREM QueuesStaySound ==
  ASSUME ~LostAcks, ~ReAddInFlight PROVE Spec => []QueuesAreSound
<1>1. IInv => QueuesAreSound
  BY DEF IInv, ClaimsAreSound, RowsAreSound
<1> QED
  BY <1>1, Invariance, PTL

\* A failed video's transcript tells which lane failed it.
THEOREM FailuresTellTheirLane ==
  ASSUME ~LostAcks, ~ReAddInFlight PROVE Spec => []FailureKindIsDerivable
<1>1. IInv => FailureKindIsDerivable
  BY DEF IInv, ClaimsAreSound, RowsAreSound
<1> QED
  BY <1>1, Invariance, PTL
-----------------------------------------------------------------------------
(* A pause stops the claims *)

\* A lane that runs has made no claim since it was paused, and neither has a loop that
\* goes to claim: is_paused answered it while the lane ran, and the claim that follows
\* leads back to is_paused.
AtMostOneLate ==
  \A l \in Lane : /\ late[l] <= 1
                  /\ ~lane[l].paused => late[l] = 0
                  /\ loop[l] = "claim" => late[l] = 0

LEMMA LateKept ==
  ASSUME AtMostOneLate, UNCHANGED <<lane, late>>,
         \A l \in Lane : loop'[l] = "claim" => loop[l] = "claim"
  PROVE  AtMostOneLate'
  BY DEF AtMostOneLate

LEMMA LateUpdated ==
  ASSUME TypeOK, AtMostOneLate, NEW k \in Lane, NEW ln, UpdateLane(k, ln),
         \A l \in Lane : loop'[l] = "claim" => loop[l] = "claim"
  PROVE  AtMostOneLate'
<1>1. /\ lane'[k] = ln /\ late'[k] = IF lane[k].paused /\ ln.paused THEN late[k] ELSE 0
      /\ \A l \in Lane \ {k} : lane'[l] = lane[l] /\ late'[l] = late[l]
  BY DEF UpdateLane, TypeOK
<1> QED
  BY <1>1 DEF AtMostOneLate

LEMMA LateStep == ASSUME TypeOK, AtMostOneLate, [Next]_vars PROVE AtMostOneLate'
<1>1. ASSUME NEW s \in Slots, SlotStep(s) PROVE AtMostOneLate'
  <2>1. UNCHANGED loop
    BY <1>1 DEF SlotStep, Stamp, Call, CancelledCall, Write, PersistRead, PersistCommit, GiveBack,
       FailVideo, Record, Throttle, Interrupt
  <2>2. \/ UNCHANGED <<lane, late>>
        \/ \E ln : UpdateLane(LaneOf(s), ln)
    BY <1>1 DEF SlotStep, Stamp, Call, CancelledCall, Write, PersistRead, PersistCommit, GiveBack,
       FailVideo, Record, Throttle, Interrupt
  <2> QED
    BY <2>1, <2>2, LateKept, LateUpdated, LaneOfType
<1>2. ASSUME NEW l \in Lane, LoopStep(l) PROVE AtMostOneLate'
  <2>1. CASE Startup(l) \/ ClaimNothing(l) \/ Wake(l) \/ Exit(l)
    BY <2>1, LateKept DEF Startup, ClaimNothing, Wake, Exit, TypeOK
  <2>2. CASE Fill(l)
    BY <2>2, LateUpdated DEF Fill, TypeOK
  <2>3. CASE CheckPaused(l)
    BY <2>3 DEF CheckPaused, TypeOK, AtMostOneLate
  <2>4. ASSUME NEW s \in SlotsOf(l), NEW v \in Videos, ClaimNext(l, s, v) PROVE AtMostOneLate'
    <3>1. late[l] = 0 /\ loop'[l] # "claim"
      BY <2>4 DEF ClaimNext, AfterClaim, AtMostOneLate, TypeOK
    <3> QED
      BY <2>4, <3>1 DEF ClaimNext, TypeOK, AtMostOneLate
  <2> QED
    BY <1>2, <2>1, <2>2, <2>3, <2>4 DEF LoopStep
<1>3. CASE Fault
  BY <1>3, LateKept, LanesAssumption
     DEF Fault, FatalCall, DbError, LostAck, LoopError, Crash, TypeOK
<1>4. CASE Request
  <2>1. CASE \E l \in Lane : PauseLane(l) \/ ResumeLane(l)
    BY <2>1, LateUpdated DEF PauseLane, ResumeLane
  <2>2. CASE UNCHANGED <<lane, late, loop>>
    BY <2>2, LateKept
  <2> QED
    BY <1>4, <2>1, <2>2 DEF Request, AnalyzeVideos, SkipVideos, ReanalyzeStale, RetryFailures,
       RequeueIds, DeleteChannel, Ingest
<1>5. CASE UNCHANGED vars
  BY <1>5, LateKept DEF vars
<1> QED
  BY <1>1, <1>2, <1>3, <1>4, <1>5, LanesAssumption DEF Next

\* With every fault and request, at most one claim follows a pause.
THEOREM PauseLetsOnePass == Spec => []PauseStopsClaims
<1>1. Init => AtMostOneLate
  BY DEF Init, AtMostOneLate
<1>2. TypeOK /\ AtMostOneLate /\ [Next]_vars => AtMostOneLate'
  BY LateStep
<1>3. AtMostOneLate => PauseStopsClaims
  BY DEF AtMostOneLate, PauseStopsClaims
<1> QED
  BY <1>1, <1>2, <1>3, Typing, PTL DEF Spec
-----------------------------------------------------------------------------
(* No claim is orphaned *)

\* What holds of a row even when commits lose their answers, as far as claims depend on
\* it: a claim is on a queued row, and a queue's rows have or lack their transcript.
QueuedByTranscript(r) ==
  /\ r.claimed => r.status \in {"pending", "transcribed"}
  /\ r.status = "pending" => ~r.transcript
  /\ r.status \in {"transcribed", "analyzed"} => r.transcript

RowsFollowTranscripts == \A v \in Videos : QueuedByTranscript(row[v])

\* What the analysis lane works on has its transcript; no transcript is ever lost.
HeldIsFetched ==
  \A s \in Slots, v \in Videos :
    Holds(s, v) /\ Exists(v) /\ LaneOf(s) = "analysis" => row[v].transcript

OrphanInv == SlotsAreSound /\ RowsFollowTranscripts /\ HeldIsFetched /\ NoOrphanClaim

LEMMA WorkedOn ==
  ASSUME TypeOK, OrphanInv, NEW s \in Slots, slot[s].pc \in HoldingPc
  PROVE  LET v == slot[s].vid
         IN /\ v \in Videos
            /\ row[v] \in Row
            /\ QueuedByTranscript(row[v])
            /\ Exists(v) /\ LaneOf(s) = "analysis" => row[v].transcript
            /\ ~Exists(v) => ~row[v].claimed
<1>1. slot[s].vid \in Videos
  BY DEF OrphanInv, SlotsAreSound, SoundSlot, TypeOK, Slot
<1>2. Holds(s, slot[s].vid)
  BY DEF Holds
<1> QED
  BY <1>1, <1>2 DEF OrphanInv, TypeOK, RowsFollowTranscripts, HeldIsFetched, QueuedByTranscript, Exists

\* What a task that moves on to p may have done to the row of its video: nothing, if it
\* keeps it, stops its lane for it, or cannot leave a claim of its lane behind; or it has
\* ended the claim.
Leaves(s, v, p) ==
  \/ /\ row'[v] = row[v]
     /\ p \in HoldingPc \cup {"raised"} \/ ~Exists(v) \/ row[v].status # InputStatus(LaneOf(s))
  \/ /\ ~row'[v].claimed /\ QueuedByTranscript(row'[v])
     /\ row'[v].status = "absent" <=> row[v].status = "absent"
     /\ row[v].transcript => row'[v].transcript

LEMMA TaskLeaves ==
  ASSUME TypeOK, OrphanInv, NEW s \in Slots, NEW x,
         slot[s].pc = "raised" => x.pc = "raised",
         slot' = [slot EXCEPT ![s] = x], UNCHANGED loop,
         SoundSlot(x, LaneOf(s)), x.vid \in {slot[s].vid, NoVideo},
         x.pc \in HoldingPc => x.vid = slot[s].vid,
         \A u \in Videos : u # slot[s].vid => row'[u] = row[u],
         slot[s].vid \in Videos => Leaves(s, slot[s].vid, x.pc)
  PROVE  OrphanInv'
<1>1. slot'[s] = x /\ \A t \in Slots \ {s} : slot'[t] = slot[t]
  BY DEF TypeOK
<1>2. \A u \in Videos : \/ row'[u] = row[u]
                        \/ /\ QueuedByTranscript(row'[u])
                           /\ row'[u].status = "absent" <=> row[u].status = "absent"
                           /\ row[u].transcript => row'[u].transcript
  BY DEF Leaves
<1>3. SlotsAreSound'
  BY <1>1 DEF OrphanInv, SlotsAreSound
<1>4. RowsFollowTranscripts'
  BY <1>2 DEF OrphanInv, RowsFollowTranscripts
<1>5. HeldIsFetched'
  <2>1. \A t \in Slots, v \in Videos : Holds(t, v)' => Holds(t, v)
    BY <1>1, LanesAssumption DEF Holds
  <2> QED
    BY <1>2, <2>1 DEF OrphanInv, HeldIsFetched, Exists
<1>6. ASSUME NEW v \in Videos, NEW l \in Lane,
             row'[v].claimed, row'[v].status = InputStatus(l), ~Stopping(l)'
      PROVE  \E t \in SlotsOf(l) : Holds(t, v)'
  <2>1. row'[v] = row[v]
    BY <1>6 DEF Leaves
  <2>2. ~Stopping(l)
    BY <1>1, <1>6 DEF Stopping, SlotsOf, Slots
  <2>3. PICK t \in SlotsOf(l) : Holds(t, v)
    BY <1>6, <2>1, <2>2 DEF OrphanInv, NoOrphanClaim
  <2>4. t \in Slots /\ LaneOf(t) = l
    BY LanesAssumption DEF SlotsOf, LaneOf, Slots, Lane
  <2>5. CASE t # s
    BY <1>1, <2>3, <2>4, <2>5 DEF Holds
  <2>6. CASE t = s
    <3>1. v = slot[s].vid /\ x.pc # "raised"
      BY <1>1, <1>6, <2>3, <2>6 DEF Holds, Stopping
    <3>2. Exists(v) /\ row[v].status = InputStatus(LaneOf(s))
      BY <1>6, <2>1, <2>4, <2>6 DEF Exists, InputStatus
    <3>3. x.pc \in HoldingPc
      BY <1>6, <2>1, <3>1, <3>2 DEF Leaves
    <3> QED
      BY <1>1, <2>3, <2>6, <3>1, <3>3 DEF Holds
  <2> QED
    BY <2>5, <2>6
<1> QED
  BY <1>3, <1>4, <1>5, <1>6 DEF OrphanInv, NoOrphanClaim

\* Leaves is easier met by a task that was cancelled.
LEMMA TaskMoves ==
  ASSUME TypeOK, OrphanInv, NEW s \in Slots, NEW p \in SlotPc, NEW o \in Outcome, MoveTo(s, p, o),
         slot[s].pc # "raised",
         p \in HoldingPc => slot[s].pc \in HoldingPc,
         p \in {"writing", "committing"} => o \in {"success", "failure", "noTranscript"},
         p = "committing" => LaneOf(s) = "analysis" /\ o = "success",
         o = "noTranscript" => LaneOf(s) = "transcript",
         o # "anomaly",
         UNCHANGED loop,
         \A u \in Videos : u # slot[s].vid => row'[u] = row[u],
         slot[s].vid \in Videos => Leaves(s, slot[s].vid, p)
  PROVE  OrphanInv'
<1> DEFINE moved == [pc |-> p, vid |-> IF p \in HoldingPc THEN slot[s].vid ELSE NoVideo,
                     out |-> o, cancel |-> FALSE]
<1>1. slot' = [slot EXCEPT ![s] = IF slot[s].cancel THEN SlotAt("raised") ELSE moved]
  BY DEF MoveTo
<1>2. CASE slot[s].cancel
  <2>1. SoundSlot(SlotAt("raised"), LaneOf(s)) /\ SlotAt("raised").vid = NoVideo
    BY SlotAtIsSound, LaneOfType DEF SlotPc, HoldingPc
  <2>2. SlotAt("raised").pc = "raised"
    BY DEF SlotAt
  <2>3. slot[s].vid \in Videos => Leaves(s, slot[s].vid, "raised")
    BY DEF Leaves
  <2> QED
    BY <1>1, <1>2, <2>1, <2>2, <2>3, TaskLeaves DEF HoldingPc
<1>3. CASE ~slot[s].cancel
  <2>1. moved.pc = p /\ moved.out = o
        /\ moved.vid = IF p \in HoldingPc THEN slot[s].vid ELSE NoVideo
    OBVIOUS
  <2> HIDE DEF moved
  <2>2. SoundSlot(moved, LaneOf(s))
    BY <2>1 DEF SoundSlot, OrphanInv, SlotsAreSound
  <2> QED
    BY <1>1, <1>3, <2>1, <2>2, TaskLeaves
<1> QED
  BY <1>2, <1>3 DEF TypeOK, Slot

\* What the tasks write ends the claim and keeps the transcript.
LEMMA WritesEndClaims ==
  ASSUME NEW r \in Row, NEW l \in Lane, NEW o \in Outcome, QueuedByTranscript(r),
         r.status # "absent", l = "analysis" => r.transcript, o # "anomaly",
         o = "noTranscript" => l = "transcript",
         NEW w \in {Written(r, l, o), GivenBack(r, o), Failed(r, l)}
  PROVE  /\ ~w.claimed /\ QueuedByTranscript(w) /\ w.status # "absent"
         /\ r.transcript => w.transcript
<1>1. CASE w = Failed(r, l)
  BY <1>1 DEF Failed, QueuedByTranscript, Row
<1>2. CASE w = GivenBack(r, o)
  BY <1>2 DEF GivenBack, QueuedByTranscript, Row
<1>3. CASE w = Written(r, l, o)
  <2>1. CASE o = "failure"
    BY <1>1, <1>3, <2>1 DEF Written
  <2>2. CASE o = "noTranscript"
    BY <1>3, <2>2 DEF Written, QueuedByTranscript, Row
  <2>3. CASE o \notin {"failure", "noTranscript"} /\ l = "transcript"
    BY <1>3, <2>3 DEF Written, QueuedByTranscript, Row
  <2>4. CASE o \notin {"failure", "noTranscript"} /\ l = "analysis"
    BY <1>3, <2>4 DEF Written, QueuedByTranscript, Row
  <2> QED
    BY <2>1, <2>2, <2>3, <2>4 DEF Lane
<1> QED
  BY <1>1, <1>2, <1>3

LEMMA OwnWriteLeaves ==
  ASSUME TypeOK, OrphanInv, NEW s \in Slots, slot[s].pc \in HoldingPc, slot[s].out # "anomaly",
         NEW o \in Outcome, o # "anomaly", o = "noTranscript" => LaneOf(s) = "transcript", NEW p,
         LET v == slot[s].vid
             l == LaneOf(s)
         IN \E w \in {Written(row[v], l, o), GivenBack(row[v], o)} : UpdateRow(v, w)
  PROVE  /\ \A u \in Videos : u # slot[s].vid => row'[u] = row[u]
         /\ Leaves(s, slot[s].vid, p)
<1> DEFINE v == slot[s].vid
           l == LaneOf(s)
<1>1. /\ v \in Videos /\ row[v] \in Row /\ QueuedByTranscript(row[v])
      /\ Exists(v) /\ l = "analysis" => row[v].transcript
  BY WorkedOn
<1>2. PICK w \in {Written(row[v], l, o), GivenBack(row[v], o)} : UpdateRow(v, w)
  OBVIOUS
<1>3. \A u \in Videos : u # v => row'[u] = row[u]
  BY <1>2 DEF UpdateRow, TypeOK
<1>4. CASE Exists(v)
  <2>1. row'[v] = w
    BY <1>1, <1>2, <1>4 DEF UpdateRow, TypeOK
  <2>2. /\ ~w.claimed /\ QueuedByTranscript(w) /\ w.status # "absent"
        /\ row[v].transcript => w.transcript
    <3>1. row[v].status # "absent" /\ (l = "analysis" => row[v].transcript) /\ l \in Lane
      BY <1>1, <1>4, LaneOfType DEF Exists
    <3> HIDE DEF v, l
    <3> QED
      BY <1>1, <1>2, <3>1, WritesEndClaims DEF l
  <2> QED
    BY <1>3, <1>4, <2>1, <2>2 DEF Leaves, Exists
<1>5. CASE ~Exists(v)
  <2>1. row'[v] = row[v]
    BY <1>1, <1>2, <1>5 DEF UpdateRow, TypeOK
  <2> QED
    BY <1>3, <1>5, <2>1 DEF Leaves
<1> QED
  BY <1>4, <1>5

LEMMA TaskKeepsRows ==
  ASSUME NEW s, NEW p, UNCHANGED row,
         p \in HoldingPc \cup {"raised"} \/ slot[s].vid \notin Videos \/ ~Exists(slot[s].vid)
  PROVE  /\ \A u \in Videos : u # slot[s].vid => row'[u] = row[u]
         /\ slot[s].vid \in Videos => Leaves(s, slot[s].vid, p)
  BY DEF Leaves

LEMMA TaskKeepsClaims == ASSUME TypeOK, OrphanInv, NEW s \in Slots, SlotStep(s) PROVE OrphanInv'
<1> DEFINE v == slot[s].vid
           l == LaneOf(s)
           o == slot[s].out
<1>0. l \in Lane /\ o \in Outcome /\ SoundSlot(slot[s], l) /\ slot[s] \in Slot
  BY LaneOfType DEF OrphanInv, TypeOK, Slot, SlotsAreSound
<1>1. CASE Stamp(s)
  <2>1. slot[s].pc = "created" /\ UNCHANGED <<row, loop>>
    BY <1>1 DEF Stamp
  <2>2. Exists(v) /\ l = "analysis" => row[v].transcript
    BY <2>1, WorkedOn DEF HoldingPc
  <2>3. \/ ~Exists(v) /\ MoveTo(s, "done", "none")
        \/ MoveTo(s, "calling", "none")
    BY <1>1, <2>2 DEF Stamp
  <2> QED
    BY <2>1, <2>3, TaskMoves, TaskKeepsRows DEF SlotPc, HoldingPc, Outcome
<1>2. ASSUME NEW out \in Outcome, Call(s, out) PROVE OrphanInv'
  <2>1. slot[s].pc = "calling" /\ UNCHANGED <<row, loop>>
    BY <1>2 DEF Call
  <2> QED
    BY <1>2, <2>1, TaskMoves, TaskKeepsRows DEF Call, SlotPc, HoldingPc
<1>3. CASE CancelledCall(s)
  <2> DEFINE x == [slot[s] EXCEPT !.pc = "givingBack", !.out = "raise", !.cancel = FALSE]
  <2>1. slot[s].pc = "calling" /\ slot' = [slot EXCEPT ![s] = x] /\ UNCHANGED <<row, loop>>
    BY <1>3 DEF CancelledCall
  <2>2. x.pc = "givingBack" /\ x.out = "raise" /\ x.vid = v
    BY <1>0 DEF Slot
  <2> HIDE DEF x
  <2>3. SoundSlot(x, l)
    BY <1>0, <2>1, <2>2 DEF SoundSlot, HoldingPc
  <2> QED
    BY <2>1, <2>2, <2>3, TaskLeaves, TaskKeepsRows DEF HoldingPc
<1>4. CASE Write(s)
  <2>1. slot[s].pc = "writing" /\ UNCHANGED loop /\ UpdateRow(v, Written(row[v], l, o))
        /\ o \in {"success", "failure", "noTranscript"} /\ (o = "noTranscript" => l = "transcript")
    BY <1>0, <1>4 DEF Write, SoundSlot
  <2>2. /\ \A u \in Videos : u # v => row'[u] = row[u]
        /\ \A p : Leaves(s, v, p)
    BY <1>0, <2>1, OwnWriteLeaves DEF HoldingPc
  <2>3. \/ MoveTo(s, "recording", o) /\ o # "noTranscript"
        \/ MoveTo(s, "done", "none")
    BY <1>4 DEF Write
  <2> QED
    BY <1>0, <2>1, <2>2, <2>3, TaskMoves DEF SlotPc, HoldingPc, Outcome
<1>5. CASE PersistRead(s)
  <2>1. slot[s].pc = "writing" /\ l = "analysis" /\ UNCHANGED <<row, loop>>
    BY <1>5 DEF PersistRead, Persists
  <2>2. \/ MoveTo(s, "committing", "success")
        \/ ~Exists(v) /\ MoveTo(s, "done", "none")
    BY <1>5 DEF PersistRead
  <2> QED
    BY <2>1, <2>2, TaskMoves, TaskKeepsRows DEF SlotPc, HoldingPc, Outcome
<1>6. CASE PersistCommit(s)
  <2>1. slot[s].pc = "committing" /\ l = "analysis" /\ UNCHANGED loop
        /\ UpdateRow(v, Written(row[v], l, "success"))
    BY <1>0, <1>6 DEF PersistCommit, SoundSlot
  <2>2. /\ \A u \in Videos : u # v => row'[u] = row[u]
        /\ \A p : Leaves(s, v, p)
    BY <1>0, <2>1, OwnWriteLeaves DEF HoldingPc, SoundSlot, Outcome
  <2>3. MoveTo(s, "recording", "success") \/ MoveTo(s, "failing", "none")
    BY <1>6 DEF PersistCommit
  <2> QED
    BY <2>1, <2>2, <2>3, TaskMoves DEF SlotPc, HoldingPc, Outcome
<1>7. CASE GiveBack(s)
  <2>1. slot[s].pc = "givingBack" /\ UNCHANGED loop /\ UpdateRow(v, GivenBack(row[v], o))
        /\ o \in {"limit", "raise"}
    BY <1>0, <1>7 DEF GiveBack, SoundSlot
  <2>2. /\ \A u \in Videos : u # v => row'[u] = row[u]
        /\ \A p : Leaves(s, v, p)
    BY <1>0, <2>1, OwnWriteLeaves DEF HoldingPc
  <2>3. MoveTo(s, "recording", o) \/ MoveTo(s, "raised", "none")
    BY <1>7, <2>1 DEF GiveBack
  <2> QED
    BY <1>0, <2>1, <2>2, <2>3, TaskMoves DEF SlotPc, HoldingPc, Outcome
<1>8. CASE FailVideo(s)
  <2>1. slot[s].pc = "failing" /\ UNCHANGED loop /\ MoveTo(s, "recording", "failure")
        /\ row' = [row EXCEPT ![v] = IF @.status = InputStatus(l) THEN Failed(@, l) ELSE @]
    BY <1>8 DEF FailVideo
  <2>2. /\ v \in Videos /\ row[v] \in Row /\ QueuedByTranscript(row[v])
        /\ Exists(v) /\ l = "analysis" => row[v].transcript
    BY <2>1, WorkedOn DEF HoldingPc
  <2>3. \A u \in Videos : u # v => row'[u] = row[u]
    BY <2>1 DEF TypeOK
  <2>4. Leaves(s, v, "recording")
    <3>1. CASE row[v].status = InputStatus(l)
      <4>1. row'[v] = Failed(row[v], l) /\ row[v].status # "absent"
        BY <2>1, <2>2, <3>1 DEF TypeOK, InputStatus
      <4> QED
        BY <1>0, <2>2, <4>1, WritesEndClaims DEF Leaves, Exists, Outcome
    <3>2. CASE row[v].status # InputStatus(l)
      BY <2>1, <2>2, <3>2 DEF Leaves, TypeOK
    <3> QED
      BY <3>1, <3>2
  <2> QED
    BY <2>1, <2>3, <2>4, TaskMoves DEF SlotPc, HoldingPc, Outcome
<1>9. CASE Record(s) \/ Throttle(s)
  <2>1. slot[s].pc \in {"recording", "throttling"} /\ UNCHANGED <<row, loop>>
    BY <1>9 DEF Record, Throttle
  <2>2. MoveTo(s, "done", "none") \/ MoveTo(s, "throttling", "none")
    BY <1>9 DEF Record, Throttle
  <2>3. v \notin Videos
    BY <1>0, <2>1, LanesAssumption DEF SoundSlot, HoldingPc
  <2> QED
    BY <2>1, <2>2, <2>3, TaskMoves, TaskKeepsRows DEF SlotPc, HoldingPc, Outcome
<1>10. CASE Interrupt(s)
  <2>1. UNCHANGED <<row, loop>> /\ slot' = [slot EXCEPT ![s] = SlotAt("raised")]
    BY <1>10 DEF Interrupt
  <2>2. SoundSlot(SlotAt("raised"), l) /\ SlotAt("raised").vid = NoVideo /\ SlotAt("raised").pc = "raised"
    BY <1>0, SlotAtIsSound DEF SlotPc, HoldingPc, SlotAt
  <2> QED
    BY <2>1, <2>2, TaskLeaves, TaskKeepsRows DEF HoldingPc
<1> QED
  BY <1>1, <1>2, <1>3, <1>4, <1>5, <1>6, <1>7, <1>8, <1>9, <1>10 DEF SlotStep

\* Rows as they were; a lane that still runs has lost no slot at work.
LEMMA SlotsKeepClaims ==
  ASSUME TypeOK, OrphanInv, UNCHANGED row,
         \A s \in Slots : slot'[s] \in {slot[s], Cancelled(slot[s]), IdleSlot},
         \A k \in Lane : ~Stopping(k)' =>
           ~Stopping(k) /\ \A s \in SlotsOf(k) : slot'[s].vid = slot[s].vid
  PROVE  OrphanInv'
<1>1. \A s \in Slots : SoundSlot(slot'[s], LaneOf(s)) /\ slot'[s].vid \in {slot[s].vid, NoVideo}
  BY CancelledIsSound, IdleIsSound, LaneOfType DEF OrphanInv, SlotsAreSound
<1>2. SlotsAreSound' /\ RowsFollowTranscripts'
  BY <1>1 DEF OrphanInv, SlotsAreSound, RowsFollowTranscripts
<1>3. HeldIsFetched'
  BY <1>1, LanesAssumption DEF OrphanInv, HeldIsFetched, Holds, Exists
<1>4. NoOrphanClaim'
  BY DEF OrphanInv, NoOrphanClaim, Holds
<1> QED
  BY <1>2, <1>3, <1>4 DEF OrphanInv

LEMMA StoppingByLane ==
  ASSUME NEW k, UNCHANGED slot, loop'[k] \in {"down", "cancelling"} <=> loop[k] \in {"down", "cancelling"}
  PROVE  Stopping(k)' <=> Stopping(k)
  BY DEF Stopping

LEMMA LoopKeepsClaims == ASSUME TypeOK, OrphanInv, NEW l \in Lane, LoopStep(l) PROVE OrphanInv'
<1>0. \A k \in Lane : SlotsOf(k) \subseteq Slots /\ \A s \in SlotsOf(k) : LaneOf(s) = k
  BY LanesAssumption DEF SlotsOf, LaneOf, Slots, Lane
<1>1. CASE Fill(l) \/ CheckPaused(l) \/ ClaimNothing(l)
  <2>1. UNCHANGED <<row, slot>>
    BY <1>1 DEF Fill, CheckPaused, ClaimNothing
  <2>2. \A k \in Lane : loop'[k] \in {"down", "cancelling"} <=> loop[k] \in {"down", "cancelling"}
    BY <1>1 DEF Fill, CheckPaused, ClaimNothing, TypeOK
  <2> QED
    BY <2>1, <2>2, StoppingByLane, SlotsKeepClaims
<1>2. CASE Startup(l)
  <2>1. UNCHANGED slot /\ \A v \in Videos : row'[v] = Released(row[v], l) /\ row[v] \in Row
    BY <1>2 DEF Startup, TypeOK
  <2>2. \A v \in Videos : /\ QueuedByTranscript(row'[v])
                          /\ row'[v].status = row[v].status /\ row'[v].transcript = row[v].transcript
    BY <2>1 DEF Released, Row, QueuedByTranscript, OrphanInv, RowsFollowTranscripts
  <2>3. ASSUME NEW v \in Videos, NEW k \in Lane,
               row'[v].claimed, row'[v].status = InputStatus(k), ~Stopping(k)'
        PROVE  \E s \in SlotsOf(k) : Holds(s, v)'
    <3>1. k # l
      BY <2>1, <2>2, <2>3 DEF Released, Row
    <3>2. InputStatus(k) # InputStatus(l)
      BY <3>1 DEF InputStatus, Lane
    <3>3. row'[v] = row[v]
      BY <2>1, <2>2, <2>3, <3>2 DEF Released
    <3>4. ~Stopping(k)
      BY <1>2, <2>1, <2>3, <3>1 DEF Startup, Stopping, TypeOK
    <3> QED
      BY <2>1, <2>3, <3>3, <3>4 DEF OrphanInv, NoOrphanClaim, Holds
  <2>4. HeldIsFetched'
    BY <2>1, <2>2 DEF OrphanInv, HeldIsFetched, Holds, Exists
  <2> QED
    BY <2>1, <2>2, <2>3, <2>4 DEF OrphanInv, SlotsAreSound, RowsFollowTranscripts, NoOrphanClaim
<1>3. ASSUME NEW s \in SlotsOf(l), NEW v \in Videos, ClaimNext(l, s, v) PROVE OrphanInv'
  <2> DEFINE taken == [SlotAt("created") EXCEPT !.vid = v]
  <2>0. s \in Slots /\ LaneOf(s) = l
    BY <1>0
  <2>1. taken.pc = "created" /\ taken.vid = v /\ taken.out = "none"
    BY DEF SlotAt
  <2> HIDE DEF taken
  <2>2. slot' = [slot EXCEPT ![s] = taken] /\ row' = [row EXCEPT ![v].claimed = TRUE]
        /\ row[v].status = InputStatus(l) /\ slot[s].pc = "idle"
    BY <1>3 DEF ClaimNext, Claimable, taken
  <2>3. slot'[s] = taken /\ \A t \in Slots \ {s} : slot'[t] = slot[t]
    BY <2>0, <2>2 DEF TypeOK
  <2>4. /\ row'[v].claimed /\ row'[v].status = InputStatus(l) /\ row'[v].transcript = row[v].transcript
        /\ \A u \in Videos \ {v} : row'[u] = row[u]
    <3>1. row[v] \in Row
      BY DEF TypeOK
    <3>2. row'[v] = [row[v] EXCEPT !.claimed = TRUE] /\ \A u \in Videos \ {v} : row'[u] = row[u]
      BY <2>2 DEF TypeOK
    <3> QED
      BY <2>2, <3>1, <3>2 DEF Row
  <2>5. RowsFollowTranscripts'
    BY <2>2, <2>4 DEF OrphanInv, RowsFollowTranscripts, QueuedByTranscript, InputStatus
  <2>6. SlotsAreSound'
    <3>1. SoundSlot(taken, l)
      BY <2>1, LanesAssumption DEF SoundSlot, HoldingPc
    <3> QED
      BY <2>0, <2>3, <3>1 DEF OrphanInv, SlotsAreSound
  <2>7. HeldIsFetched'
    <3>1. ASSUME NEW t \in Slots, NEW u \in Videos, Holds(t, u)', Exists(u)', LaneOf(t) = "analysis"
          PROVE  row'[u].transcript
      <4>1. CASE t = s
        <5>1. u = v /\ row[v].status = "transcribed"
          BY <2>0, <2>1, <2>2, <2>3, <3>1, <4>1 DEF Holds, InputStatus
        <5> QED
          BY <2>4, <5>1 DEF OrphanInv, RowsFollowTranscripts, QueuedByTranscript
      <4>2. CASE t # s
        BY <2>2, <2>3, <2>4, <3>1, <4>2 DEF Holds, Exists, OrphanInv, HeldIsFetched, InputStatus
      <4> QED
        BY <4>1, <4>2
    <3> QED
      BY <3>1 DEF HeldIsFetched
  <2>8. ASSUME NEW u \in Videos, NEW k \in Lane,
               row'[u].claimed, row'[u].status = InputStatus(k), ~Stopping(k)'
        PROVE  \E t \in SlotsOf(k) : Holds(t, u)'
    <3>1. CASE u = v
      <4>1. k = l
        BY <2>4, <2>8, <3>1 DEF InputStatus, Lane
      <4> QED
        BY <2>1, <2>3, <3>1, <4>1 DEF Holds
    <3>2. CASE u # v
      <4>1. ~Stopping(k)
        <5>1. loop'[k] = loop[k] \/ (k = l /\ loop[k] = "claim")
          BY <1>3 DEF ClaimNext, TypeOK
        <5>2. \A t \in SlotsOf(k) : slot[t].pc = "raised" => slot'[t].pc = "raised"
          BY <1>0, <2>2, <2>3
        <5> QED
          BY <2>8, <5>1, <5>2 DEF Stopping
      <4>2. PICK t \in SlotsOf(k) : Holds(t, u)
        BY <2>4, <2>8, <3>2, <4>1 DEF OrphanInv, NoOrphanClaim
      <4>3. t # s
        BY <2>2, <4>2, LanesAssumption, <2>0 DEF Holds, OrphanInv, SlotsAreSound, SoundSlot, HoldingPc
      <4> QED
        BY <1>0, <2>3, <4>2, <4>3 DEF Holds
    <3> QED
      BY <3>1, <3>2
  <2> QED
    BY <2>5, <2>6, <2>7, <2>8 DEF OrphanInv, NoOrphanClaim
<1>4. CASE Wake(l)
  <2>1. UNCHANGED row /\ \A s \in Slots : slot'[s] \in {slot[s], Cancelled(slot[s]), IdleSlot}
    BY <1>4 DEF Wake, CancelAll
  <2>2. ASSUME NEW k \in Lane, ~Stopping(k)'
        PROVE  ~Stopping(k) /\ \A s \in SlotsOf(k) : slot'[s].vid = slot[s].vid
    <3>1. CASE k # l
      <4>1. loop'[k] = loop[k] /\ \A s \in SlotsOf(k) : slot'[s] = slot[s]
        <5>1. \A s \in SlotsOf(k) : s \in Slots /\ s \notin SlotsOf(l)
          BY <1>0, <3>1
        <5> QED
          BY <1>4, <3>1, <5>1 DEF Wake, CancelAll, TypeOK
      <4> QED
        BY <2>2, <4>1 DEF Stopping
    <3>2. CASE k = l
      <4>1. /\ \A s \in SlotsOf(l) : slot[s].pc # "raised"
            /\ slot' = [s \in Slots |-> IF s \in SlotsOf(l) /\ slot[s].pc = "done"
                                        THEN IdleSlot ELSE slot[s]]
            /\ loop[l] = "wait"
        BY <1>4, <2>2, <3>2 DEF Wake, Stopping, TypeOK
      <4>2. ASSUME NEW s \in SlotsOf(l) PROVE slot'[s].vid = slot[s].vid
        <5>1. s \in Slots
          BY <1>0
        <5>2. slot[s].pc = "done" => slot[s].vid = NoVideo
          BY <5>1 DEF OrphanInv, SlotsAreSound, SoundSlot, HoldingPc
        <5> QED
          BY <4>1, <5>1, <5>2, IdleIsSound DEF Lane
      <4> QED
        BY <3>2, <4>1, <4>2 DEF Stopping
    <3> QED
      BY <3>1, <3>2
  <2> QED
    BY <2>1, <2>2, SlotsKeepClaims
<1>5. CASE Exit(l)
  <2>1. UNCHANGED row /\ \A s \in Slots : slot'[s] \in {slot[s], IdleSlot}
    BY <1>5 DEF Exit
  <2>2. ASSUME NEW k \in Lane, ~Stopping(k)'
        PROVE  ~Stopping(k) /\ \A s \in SlotsOf(k) : slot'[s].vid = slot[s].vid
    <3>1. k # l
      BY <1>5, <2>2 DEF Exit, Stopping, TypeOK
    <3>2. loop'[k] = loop[k] /\ \A s \in SlotsOf(k) : slot'[s] = slot[s]
      <4>1. \A s \in SlotsOf(k) : s \in Slots /\ s \notin SlotsOf(l)
        BY <1>0, <3>1
      <4> QED
        BY <1>5, <3>1, <4>1 DEF Exit, TypeOK
    <3> QED
      BY <2>2, <3>2 DEF Stopping
  <2> QED
    BY <2>1, <2>2, SlotsKeepClaims
<1> QED
  BY <1>1, <1>2, <1>3, <1>4, <1>5 DEF LoopStep

LEMMA FaultKeepsClaims == ASSUME TypeOK, OrphanInv, Fault PROVE OrphanInv'
<1>0. \A k \in Lane : SlotsOf(k) \subseteq Slots /\ \A s \in SlotsOf(k) : LaneOf(s) = k
  BY LanesAssumption DEF SlotsOf, LaneOf, Slots, Lane
<1>1. ASSUME NEW s \in Slots, FatalCall(s) PROVE OrphanInv'
  <2>1. slot[s].pc = "calling" /\ UNCHANGED <<row, loop>> /\ MoveTo(s, "givingBack", "raise")
    BY <1>1 DEF FatalCall
  <2> QED
    BY <2>1, TaskMoves, TaskKeepsRows DEF SlotPc, HoldingPc, Outcome
<1>2. ASSUME NEW s \in Slots, DbError(s) PROVE OrphanInv'
  <2>1. /\ UNCHANGED <<row, loop>>
        /\ \/ slot[s].pc \in HoldingPc /\ MoveTo(s, "failing", "none")
           \/ MoveTo(s, "raised", "none")
        /\ slot[s].pc # "raised"
    BY <1>2 DEF DbError, HoldingPc
  <2> QED
    BY <2>1, TaskMoves, TaskKeepsRows DEF SlotPc, HoldingPc, Outcome
<1>3. ASSUME NEW s \in Slots, LostAck(s) PROVE OrphanInv'
  <2>1. /\ UNCHANGED loop /\ MoveTo(s, "failing", "none")
        /\ slot[s].pc \in {"created", "committing", "writing", "givingBack"}
    BY <1>3 DEF LostAck
  <2>2. CASE UNCHANGED row
    BY <2>1, <2>2, TaskMoves, TaskKeepsRows DEF SlotPc, HoldingPc, Outcome
  <2>3. CASE ~UNCHANGED row
    <3>1. \E w \in {Written(row[slot[s].vid], LaneOf(s), slot[s].out),
                    GivenBack(row[slot[s].vid], slot[s].out)} : UpdateRow(slot[s].vid, w)
      BY <1>3, <2>3 DEF LostAck
    <3>2. slot[s].out \in Outcome /\ SoundSlot(slot[s], LaneOf(s))
      BY DEF TypeOK, Slot, OrphanInv, SlotsAreSound
    <3>3. /\ \A u \in Videos : u # slot[s].vid => row'[u] = row[u]
          /\ Leaves(s, slot[s].vid, "failing")
      BY <2>1, <3>1, <3>2, OwnWriteLeaves DEF HoldingPc, SoundSlot
    <3> QED
      BY <2>1, <3>3, TaskMoves DEF SlotPc, HoldingPc, Outcome
  <2> QED
    BY <2>2, <2>3
<1>4. ASSUME NEW l \in Lane, LoopError(l) PROVE OrphanInv'
  <2>1. UNCHANGED row /\ \A s \in Slots : slot'[s] \in {slot[s], Cancelled(slot[s]), IdleSlot}
    BY <1>4 DEF LoopError, CancelAll
  <2>2. ASSUME NEW k \in Lane, ~Stopping(k)'
        PROVE  ~Stopping(k) /\ \A s \in SlotsOf(k) : slot'[s].vid = slot[s].vid
    <3>1. k # l
      BY <1>4, <2>2 DEF LoopError, Stopping, TypeOK
    <3>2. \A s \in SlotsOf(k) : s \in Slots /\ s \notin SlotsOf(l)
      BY <1>0, <3>1
    <3>3. loop'[k] = loop[k] /\ \A s \in SlotsOf(k) : slot'[s] = slot[s]
      BY <1>4, <3>1, <3>2 DEF LoopError, CancelAll, TypeOK
    <3> QED
      BY <2>2, <3>3 DEF Stopping
  <2> QED
    BY <2>1, <2>2, SlotsKeepClaims
<1>5. ASSUME NEW l \in Lane, Crash(l) PROVE OrphanInv'
  <2>1. UNCHANGED row /\ \A s \in Slots : slot'[s] \in {slot[s], IdleSlot}
    BY <1>5 DEF Crash
  <2>2. ASSUME NEW k \in Lane, ~Stopping(k)'
        PROVE  ~Stopping(k) /\ \A s \in SlotsOf(k) : slot'[s].vid = slot[s].vid
    <3>1. k # l
      BY <1>5, <2>2 DEF Crash, Stopping, TypeOK
    <3>2. \A s \in SlotsOf(k) : s \in Slots /\ s \notin SlotsOf(l)
      BY <1>0, <3>1
    <3>3. loop'[k] = loop[k] /\ \A s \in SlotsOf(k) : slot'[s] = slot[s]
      BY <1>5, <3>1, <3>2 DEF Crash, TypeOK
    <3> QED
      BY <2>2, <3>3 DEF Stopping
  <2> QED
    BY <2>1, <2>2, SlotsKeepClaims
<1> QED
  BY <1>1, <1>2, <1>3, <1>4, <1>5, LanesAssumption DEF Fault

\* What a request may do to a row: claim nothing, move no claimed row to another queue,
\* and take no transcript from a row that a task holds.
Handles(v) ==
  \/ row'[v] = row[v]
  \/ /\ QueuedByTranscript(row'[v])
     /\ row'[v].claimed => row[v].claimed /\ row'[v].status = row[v].status
     /\ \/ \A s \in Slots : ~Holds(s, v)
        \/ ~Exists(v)'
        \/ Exists(v) /\ (row[v].transcript => row'[v].transcript)

LEMMA RequestsKeepClaims == ASSUME ~ReAddInFlight, TypeOK, OrphanInv, Request PROVE OrphanInv'
<1>0. \A v \in Videos : row[v] \in Row /\ QueuedByTranscript(row[v])
  BY DEF TypeOK, OrphanInv, RowsFollowTranscripts
<1>1. ASSUME UNCHANGED <<slot, loop>>, \A v \in Videos : Handles(v)
      PROVE  OrphanInv'
  <2>1. SlotsAreSound' /\ RowsFollowTranscripts'
    BY <1>1 DEF OrphanInv, SlotsAreSound, RowsFollowTranscripts, Handles
  <2>2. HeldIsFetched'
    BY <1>1 DEF OrphanInv, HeldIsFetched, Holds, Exists, Handles
  <2>3. NoOrphanClaim'
    <3>1. ASSUME NEW v \in Videos, NEW l \in Lane,
                 row'[v].claimed, row'[v].status = InputStatus(l), ~Stopping(l)'
          PROVE  \E s \in SlotsOf(l) : Holds(s, v)'
      <4>1. row[v].claimed /\ row[v].status = InputStatus(l)
        BY <1>1, <3>1 DEF Handles
      <4>2. ~Stopping(l)
        BY <1>1, <3>1 DEF Stopping
      <4> QED
        BY <1>1, <4>1, <4>2 DEF OrphanInv, NoOrphanClaim, Holds
    <3> QED
      BY <3>1 DEF NoOrphanClaim
  <2> QED
    BY <2>1, <2>2, <2>3 DEF OrphanInv
<1>2. \A v \in Videos : row'[v] = Requeued(row[v]) /\ Exists(v) => Handles(v)
  <2>1. ASSUME NEW v \in Videos, row'[v] = Requeued(row[v]), Exists(v) PROVE Handles(v)
    <3>1. /\ row'[v].claimed = row[v].claimed /\ row'[v].transcript = row[v].transcript
          /\ row'[v].status = QueueStatusFor(row[v].transcript)
      BY <1>0, <2>1 DEF Requeued, Row
    <3>2. row[v].claimed => row'[v].status = row[v].status
      BY <1>0, <3>1 DEF QueuedByTranscript, QueueStatusFor
    <3>3. QueuedByTranscript(row'[v])
      BY <1>0, <3>1 DEF QueuedByTranscript, QueueStatusFor
    <3> QED
      BY <2>1, <3>1, <3>2, <3>3 DEF Handles
  <2> QED
    BY <2>1
<1>3. ASSUME NEW ids \in SUBSET Videos, AnalyzeVideos(ids) PROVE OrphanInv'
  BY <1>1, <1>2, <1>3 DEF AnalyzeVideos, Loaded, Handles
<1>4. ASSUME NEW ids \in SUBSET Videos, SkipVideos(ids) PROVE OrphanInv'
  <2>1. ASSUME NEW v \in ids PROVE Handles(v)
    <3>1. row'[v] = [row[v] EXCEPT !.status = "skipped"] /\ ~row[v].claimed /\ Exists(v)
      BY <1>4 DEF SkipVideos, Busy, Loaded
    <3>2. row'[v].status = "skipped" /\ ~row'[v].claimed /\ row'[v].transcript = row[v].transcript
      BY <1>0, <3>1 DEF Row
    <3> QED
      BY <3>1, <3>2 DEF Handles, QueuedByTranscript
  <2> QED
    BY <1>1, <1>4, <2>1 DEF SkipVideos, Handles
<1>5. ASSUME NEW ids \in SUBSET Videos, NEW kind, ReanalyzeStale(ids) \/ RetryFailures(ids, kind)
      PROVE  OrphanInv'
  BY <1>1, <1>5 DEF ReanalyzeStale, RetryFailures, Handles
<1>6. CASE RequeueIds
  BY <1>1, <1>2, <1>6 DEF RequeueIds, Handles
<1>7. ASSUME NEW v \in Videos, DeleteChannel(v) PROVE OrphanInv'
  <2>1. UNCHANGED <<slot, loop>> /\ row' = [row EXCEPT ![v] = AbsentRow]
    BY <1>7 DEF DeleteChannel
  <2>2. Handles(v)
    BY <2>1 DEF Handles, AbsentRow, QueuedByTranscript, Exists, TypeOK
  <2> QED
    BY <1>1, <2>1, <2>2 DEF Handles, TypeOK
<1>8. ASSUME NEW v \in Videos, NEW st \in {"discovered", "pending", "skipped"}, Ingest(v, st)
      PROVE  OrphanInv'
  <2>1. /\ UNCHANGED <<slot, loop>> /\ row' = [row EXCEPT ![v] = NewRow(st)]
        /\ \A s \in Slots : ~Holds(s, v)
    BY <1>8 DEF Ingest
  <2>2. Handles(v)
    BY <2>1 DEF Handles, NewRow, AbsentRow, QueuedByTranscript, TypeOK
  <2> QED
    BY <1>1, <2>1, <2>2 DEF Handles, TypeOK
<1>9. ASSUME NEW l \in Lane, PauseLane(l) \/ ResumeLane(l) PROVE OrphanInv'
  BY <1>1, <1>9 DEF PauseLane, ResumeLane, Handles
<1> QED
  BY <1>3, <1>4, <1>5, <1>6, <1>7, <1>8, <1>9 DEF Request

LEMMA OrphanInit == ASSUME Init PROVE OrphanInv
<1>1. \A s \in Slots : slot[s] = IdleSlot
  BY DEF Init
<1>2. \A v \in Videos : AtRest(row[v])
  BY LanesAssumption DEF Init
<1>3. SlotsAreSound
  BY <1>1, IdleIsSound, LaneOfType DEF SlotsAreSound
<1>4. HeldIsFetched
  BY <1>1, IdleIsSound, LanesAssumption, LaneOfType DEF HeldIsFetched, Holds
<1>5. RowsFollowTranscripts /\ NoOrphanClaim
  BY <1>2 DEF RowsFollowTranscripts, NoOrphanClaim, AtRest, Routed, QueuedByTranscript
<1> QED
  BY <1>3, <1>4, <1>5 DEF OrphanInv

LEMMA OrphanStep ==
  ASSUME ~ReAddInFlight, TypeOK, OrphanInv, [Next]_vars
  PROVE  OrphanInv'
<1>1. CASE UNCHANGED vars
  BY <1>1 DEF vars, OrphanInv, SlotsAreSound, RowsFollowTranscripts, HeldIsFetched, NoOrphanClaim,
     Stopping, Holds, Exists
<1>2. CASE Next
  BY <1>2, TaskKeepsClaims, LoopKeepsClaims, FaultKeepsClaims, RequestsKeepClaims, LanesAssumption
     DEF Next
<1> QED
  BY <1>1, <1>2

\* In a lane that goes on running every claim has its task, even when a commit raised
\* after it was made: only a deleted video that comes back under its old task is left out.
THEOREM NoClaimIsOrphaned ==
  ASSUME ~ReAddInFlight PROVE Spec => []NoOrphanClaim
<1>1. Init => OrphanInv
  BY OrphanInit
<1>2. TypeOK /\ OrphanInv /\ [Next]_vars => OrphanInv'
  BY OrphanStep
<1>3. OrphanInv => NoOrphanClaim
  BY DEF OrphanInv
<1> QED
  BY <1>1, <1>2, <1>3, Typing, PTL DEF Spec
-----------------------------------------------------------------------------
(* Attempts are honest *)

\* A try that is stamped and not yet written or given back.
TriedPc == HoldingPc \ {"created", "failing"}
Working(v, l) == \E s \in SlotsOf(l) : Holds(s, v) /\ slot[s].pc \in TriedPc

\* A lane that is about to stop for a dead task, and a cancelled task, may still lose
\* the try of the video they hold; the fault they stop for has been charged.
Raising(sl) == sl.pc = "raised" \/ (sl.pc = "givingBack" /\ sl.out = "raise")
MayLose(v, l) ==
  \/ loop[l] \notin {"down", "cancelling"} /\ \E s \in SlotsOf(l) : Raising(slot[s])
  \/ loop[l] = "cancelling" /\ \E s \in SlotsOf(l) : Holds(s, v) /\ slot[s].cancel

One(b) == IF b THEN 1 ELSE 0

\* The tries that neither ended nor are in flight are no fewer than none and, with
\* the one that may yet be lost, no more than the faults so far.
Balanced(v, l) ==
  /\ attempts[v][l] >= ended[v][l] + One(Working(v, l))
  /\ attempts[v][l] + One(MayLose(v, l)) + faults <= ended[v][l] + One(Working(v, l)) + MaxFaults

CancelledWhileStopping == \A s \in Slots : slot[s].cancel => loop[LaneOf(s)] = "cancelling"
DownHasNoTask == \A l \in Lane : loop[l] = "down" => \A s \in SlotsOf(l) : slot[s] = IdleSlot

TriesBalance ==
  \A v \in Videos, l \in Lane :
    /\ Exists(v) => Balanced(v, l)
    /\ ~Exists(v) => attempts[v][l] = 0 /\ ended[v][l] = 0
    /\ MayLose(v, l) => faults < MaxFaults

TriesInv == faults <= MaxFaults /\ CancelledWhileStopping /\ DownHasNoTask /\ TriesBalance

LEMMA LaneSlots ==
  /\ \A l \in Lane : \A s \in SlotsOf(l) : s \in Slots /\ LaneOf(s) = l
  /\ \A s \in Slots : s \in SlotsOf(LaneOf(s))
  BY LanesAssumption DEF SlotsOf, LaneOf, Slots, Lane

LEMMA InFlightIsWorking ==
  ASSUME ExclusiveHold, NEW v \in Videos, NEW l \in Lane
  PROVE  InFlight(v, l) = One(Working(v, l))
<1> DEFINE W == {s \in SlotsOf(l) : Holds(s, v) /\ slot[s].pc \in HoldingPc \ {"created", "failing"}}
<1>1. CASE Working(v, l)
  <2>1. PICK s \in W : TRUE
    BY <1>1 DEF Working, TriedPc
  <2>2. W = {s}
    BY <2>1, LaneSlots DEF ExclusiveHold
  <2> QED
    BY <1>1, <2>2, FS_Singleton DEF InFlight, One
<1>2. CASE ~Working(v, l)
  <2>1. W = {}
    BY <1>2 DEF Working, TriedPc
  <2> QED
    BY <1>2, <2>1, FS_EmptySet DEF InFlight, One
<1> QED
  BY <1>1, <1>2

LEMMA TriesAreHonest == ASSUME TypeOK, ExclusiveHold, TriesInv PROVE AttemptsAreHonest
<1>1. ASSUME NEW v \in Videos, Exists(v), NEW l \in Lane
      PROVE  LET counted == ended[v][l] + InFlight(v, l)
             IN attempts[v][l] \in counted .. (counted + MaxFaults - faults)
  <2>1. /\ InFlight(v, l) = One(Working(v, l)) /\ Balanced(v, l)
        /\ One(Working(v, l)) \in {0, 1} /\ One(MayLose(v, l)) \in {0, 1}
    BY <1>1, InFlightIsWorking DEF TriesInv, TriesBalance, One
  <2>2. attempts[v][l] \in Nat /\ ended[v][l] \in Nat /\ faults \in Nat /\ MaxFaults \in Nat
    BY LanesAssumption DEF TypeOK
  <2> QED
    BY <2>1, <2>2 DEF Balanced
<1> QED
  BY <1>1 DEF AttemptsAreHonest

\* The books of one video and lane after a step that spends so many faults and costs
\* so many tries.
LEMMA StaysBalanced ==
  ASSUME NEW a \in Nat, NEW e \in Nat, NEW f \in Nat, NEW w \in {0, 1}, NEW m \in {0, 1},
         NEW a2 \in Nat, NEW e2 \in Nat, NEW f2 \in Nat, NEW w2 \in {0, 1}, NEW m2 \in {0, 1},
         NEW max \in Nat, a >= e + w, a + m + f <= e + w + max,
         NEW cost \in {0, 1}, a2 - e2 - w2 = a - e - w + cost,
         cost + m2 + f2 <= m + f
  PROVE  a2 >= e2 + w2 /\ a2 + m2 + f2 <= e2 + w2 + max
  OBVIOUS

\* A task moves on: what its step costs is charged to a fault or to its cancellation.
LEMMA TaskBalances ==
  ASSUME TypeOK, TypeOK', ExclusiveHold, TriesInv, NEW s \in Slots, NEW x,
         slot[s] # IdleSlot, slot' = [slot EXCEPT ![s] = x], UNCHANGED loop,
         x.vid \in {slot[s].vid, NoVideo}, x.pc \in HoldingPc => x.vid = slot[s].vid, x.cancel = FALSE,
         \A u \in Videos : Exists(u)' <=> Exists(u),
         \A u \in Videos, k \in Lane : u # slot[s].vid \/ k # LaneOf(s) \/ ~Exists(u) =>
           attempts'[u][k] = attempts[u][k] /\ ended'[u][k] = ended[u][k],
         NEW cost \in {0, 1}, NEW spent \in {0, 1}, faults' = faults - spent,
         LET v == slot[s].vid
             l == LaneOf(s)
         IN v \in Videos /\ Exists(v) =>
              attempts'[v][l] - ended'[v][l] - One(x.pc \in TriedPc)
                = attempts[v][l] - ended[v][l] - One(slot[s].pc \in TriedPc) + cost,
         \/ cost = 0 /\ (Raising(x) => Raising(slot[s]))
         \/ spent = 1 /\ (cost = 0 \/ (Raising(x) => Raising(slot[s])))
         \/ slot[s].cancel,
         slot[s].cancel \/ spent = 1 \/ cost = 0
  PROVE  TriesInv'
<1> DEFINE w == slot[s].vid
           l == LaneOf(s)
<1>0. /\ l \in Lane /\ s \in SlotsOf(l) /\ slot'[s] = x /\ loop[l] # "down"
      /\ \A t \in Slots \ {s} : slot'[t] = slot[t]
      /\ \A k \in Lane : s \in SlotsOf(k) => k = l
      /\ slot[s].cancel => loop[l] = "cancelling"
  <2>1. loop[l] # "down"
    BY LaneSlots, LaneOfType DEF TriesInv, DownHasNoTask
  <2> QED
    BY <2>1, LaneSlots, LaneOfType DEF TypeOK, TriesInv, CancelledWhileStopping
<1>10. ASSUME NEW v \in Videos, v = w, NEW t \in SlotsOf(l), t # s
       PROVE  ~Holds(t, v) /\ ~Holds(t, v)'
  <2>1. t \in Slots /\ slot'[t] = slot[t]
    BY <1>0, <1>10, LaneSlots
  <2> QED
    BY <1>10, <2>1 DEF Holds, ExclusiveHold
<1>1. faults' <= MaxFaults
  BY LanesAssumption DEF TriesInv, TypeOK
<1>2. CancelledWhileStopping'
  BY <1>0 DEF TriesInv, CancelledWhileStopping
<1>3. DownHasNoTask'
  BY <1>0, LaneSlots DEF TriesInv, DownHasNoTask
<1>4. ASSUME NEW v \in Videos, NEW k \in Lane, k # l
      PROVE  (Working(v, k)' <=> Working(v, k)) /\ (MayLose(v, k)' <=> MayLose(v, k))
  <2>1. \A t \in SlotsOf(k) : slot'[t] = slot[t]
    BY <1>0, <1>4, LaneSlots
  <2> QED
    BY <2>1 DEF Working, MayLose, Holds
<1>5. ASSUME NEW v \in Videos, v # w
      PROVE  Working(v, l)' <=> Working(v, l)
  <2>1. ~Holds(s, v) /\ ~Holds(s, v)'
    BY <1>0, <1>5, LanesAssumption DEF Holds
  <2>2. \A t \in SlotsOf(l) : t # s => slot'[t] = slot[t]
    BY <1>0, LaneSlots
  <2> QED
    BY <1>0, <2>1, <2>2 DEF Working, Holds
<1>6. ASSUME NEW v \in Videos, v = w
      PROVE  (Working(v, l) <=> slot[s].pc \in TriedPc) /\ (Working(v, l)' <=> x.pc \in TriedPc)
  <2>1. \A t \in SlotsOf(l) : t # s => ~Holds(t, v) /\ ~Holds(t, v)'
    BY <1>6, <1>10
  <2>2. Holds(s, v) /\ (x.pc \in TriedPc => Holds(s, v)')
    BY <1>0, <1>6 DEF Holds, TriedPc
  <2> QED
    BY <1>0, <2>1, <2>2 DEF Working
<1>7. ASSUME NEW v \in Videos, MayLose(v, l)'
      PROVE  MayLose(v, l) \/ (Raising(x) /\ ~Raising(slot[s]) /\ ~slot[s].cancel)
  <2>1. \A t \in SlotsOf(l) : t # s => slot'[t] = slot[t]
    BY <1>0, LaneSlots
  <2> QED
    BY <1>0, <1>7, <2>1 DEF MayLose, Holds
<1>8. ASSUME NEW v \in Videos, v = w, slot[s].cancel
      PROVE  MayLose(v, l) /\ ~MayLose(v, l)'
  <2>1. \A t \in SlotsOf(l) : t # s => ~Holds(t, v)'
    BY <1>8, <1>10
  <2> QED
    BY <1>0, <1>8, <2>1 DEF MayLose, Holds
<1>9. ASSUME NEW v \in Videos, NEW k \in Lane
      PROVE  /\ Exists(v)' => Balanced(v, k)'
             /\ ~Exists(v)' => attempts'[v][k] = 0 /\ ended'[v][k] = 0
             /\ MayLose(v, k)' => faults' < MaxFaults
  <2>1. /\ attempts[v][k] \in Nat /\ ended[v][k] \in Nat /\ faults \in Nat /\ MaxFaults \in Nat
        /\ attempts'[v][k] \in Nat /\ ended'[v][k] \in Nat /\ faults' \in Nat
    BY LanesAssumption DEF TypeOK
  <2>2. MayLose(v, k)' => MayLose(v, k) \/ spent = 1
    BY <1>4, <1>7
  <2>3. MayLose(v, k)' => faults' < MaxFaults
    BY <2>1, <2>2 DEF TriesInv, TriesBalance
  <2>4. ~Exists(v)' => attempts'[v][k] = 0 /\ ended'[v][k] = 0
    BY DEF TriesInv, TriesBalance
  <2>5. ASSUME Exists(v)' PROVE Balanced(v, k)'
    <3>1. /\ One(Working(v, k)) \in {0, 1} /\ One(Working(v, k)') \in {0, 1}
          /\ One(MayLose(v, k)) \in {0, 1} /\ One(MayLose(v, k)') \in {0, 1}
      BY DEF One
    <3>2. Exists(v) /\ Balanced(v, k)
      BY <2>5 DEF TriesInv, TriesBalance
    <3>3. CASE v # w \/ k # l
      <4>1. attempts'[v][k] = attempts[v][k] /\ ended'[v][k] = ended[v][k]
        BY <3>3
      <4>2. One(Working(v, k)') = One(Working(v, k))
        BY <1>4, <1>5, <3>3 DEF One
      <4>3. One(MayLose(v, k)') + faults' <= One(MayLose(v, k)) + faults
        BY <2>1, <2>2 DEF One
      <4> QED
        BY <2>1, <3>1, <3>2, <4>1, <4>2, <4>3 DEF Balanced
    <3>4. CASE v = w /\ k = l
      <4>1. attempts'[v][k] - ended'[v][k] - One(Working(v, k)')
              = attempts[v][k] - ended[v][k] - One(Working(v, k)) + cost
        <5>1. One(Working(v, k)') = One(x.pc \in TriedPc) /\ One(Working(v, k)) = One(slot[s].pc \in TriedPc)
          <6>1. (Working(v, k) <=> slot[s].pc \in TriedPc) /\ (Working(v, k)' <=> x.pc \in TriedPc)
            BY <1>6, <3>4
          <6> QED
            BY <6>1 DEF One
        <5> QED
          BY <3>2, <3>4, <5>1
      <4>2. cost + One(MayLose(v, k)') + faults' <= One(MayLose(v, k)) + faults
        <5>1. CASE slot[s].cancel
          <6>1. MayLose(v, k) /\ ~MayLose(v, k)'
            BY <1>8, <3>4, <5>1
          <6> QED
            BY <2>1, <6>1 DEF One
        <5>2. CASE ~slot[s].cancel /\ (Raising(x) => Raising(slot[s]))
          BY <1>7, <2>1, <3>4, <5>2 DEF One
        <5>3. CASE ~slot[s].cancel /\ ~(Raising(x) => Raising(slot[s]))
          BY <2>1, <5>3 DEF One
        <5> QED
          BY <5>1, <5>2, <5>3
      <4> QED
        BY <2>1, <3>1, <3>2, <4>1, <4>2, StaysBalanced DEF Balanced
    <3> QED
      BY <3>3, <3>4
  <2> QED
    BY <2>3, <2>4, <2>5
<1> QED
  BY <1>1, <1>2, <1>3, <1>9 DEF TriesInv, TriesBalance

\* Only the counters of the video and the lane of a slot change, and those of no
\* video that is gone.
OnlyOwnCount(s) ==
  \A u \in Videos, k \in Lane : u # slot[s].vid \/ k # LaneOf(s) \/ ~Exists(u) =>
    attempts'[u][k] = attempts[u][k] /\ ended'[u][k] = ended[u][k]

SameVideos == \A u \in Videos : Exists(u)' <=> Exists(u)

\* What the counters show for a task that moves on to p: its try ended, goes on or was
\* given back, or it is lost and a fault is charged; a cancelled one loses a try at most.
Charged(s, p) ==
  LET v == slot[s].vid
      l == LaneOf(s)
      d == attempts[v][l] - ended[v][l] - One(slot[s].pc \in TriedPc)
      e == attempts'[v][l] - ended'[v][l]
  IN v \in Videos /\ Exists(v) =>
       /\ e \in {d, d + 1}
       /\ \/ e - One(p \in TriedPc) = d
          \/ /\ e - One(p \in TriedPc) = d + 1 /\ faults' = faults - 1
             /\ p # "raised" /\ p # "givingBack"

\* The same for a task that moves by MoveTo, where the cancelled ones go to "raised".
LEMMA MoveBalances ==
  ASSUME TypeOK, TypeOK', ExclusiveHold, TriesInv,
         NEW s \in Slots, NEW p \in SlotPc, NEW o \in Outcome, MoveTo(s, p, o),
         slot[s] # IdleSlot, p \in HoldingPc => slot[s].pc \in HoldingPc, UNCHANGED loop,
         SameVideos, OnlyOwnCount(s), faults' \in {faults, faults - 1},
         p = "raised" \/ (p = "givingBack" /\ o = "raise") =>
           Raising(slot[s]) \/ faults' = faults - 1,
         Charged(s, p)
  PROVE  TriesInv'
<1> DEFINE v == slot[s].vid
           l == LaneOf(s)
           d == attempts[v][l] - ended[v][l] - One(slot[s].pc \in TriedPc)
           e == attempts'[v][l] - ended'[v][l]
           moved == [pc |-> p, vid |-> IF p \in HoldingPc THEN slot[s].vid ELSE NoVideo,
                     out |-> o, cancel |-> FALSE]
<1>0. /\ l \in Lane /\ faults \in Nat
      /\ v \in Videos => /\ attempts[v][l] \in Nat /\ ended[v][l] \in Nat
                         /\ attempts'[v][l] \in Nat /\ ended'[v][l] \in Nat
      /\ slot[s].cancel \in BOOLEAN
  BY LaneOfType DEF TypeOK, Slot
<1>1. slot' = [slot EXCEPT ![s] = IF slot[s].cancel THEN SlotAt("raised") ELSE moved]
  BY DEF MoveTo
<1>2. CASE slot[s].cancel
  <2>1. slot' = [slot EXCEPT ![s] = SlotAt("raised")]
    BY <1>1, <1>2
  <2>2. /\ SlotAt("raised").pc = "raised" /\ SlotAt("raised").vid = NoVideo
        /\ SlotAt("raised").cancel = FALSE /\ "raised" \notin HoldingPc /\ "raised" \notin TriedPc
    BY DEF SlotAt, HoldingPc, TriedPc
  <2>3. PICK spent \in {0, 1} : faults' = faults - spent
    BY <1>0
  <2>4. PICK cost \in {0, 1} : v \in Videos /\ Exists(v) => e = d + cost
    <3>1. CASE v \in Videos /\ Exists(v)
      <4>1. d \in Int
        BY <1>0, <3>1 DEF One
      <4> QED
        BY <3>1, <4>1 DEF Charged
    <3> QED
      BY <3>1
  <2>5. v \in Videos /\ Exists(v) => e - One(SlotAt("raised").pc \in TriedPc) = d + cost
    <3>1. One(SlotAt("raised").pc \in TriedPc) = 0
      BY <2>2 DEF One
    <3> QED
      BY <1>0, <2>4, <3>1
  <2> DEFINE x == SlotAt("raised")
  <2> HIDE DEF x, moved
  <2> QED
    BY <1>2, <2>1, <2>2, <2>3, <2>5, TaskBalances DEF x, SameVideos, OnlyOwnCount
<1>3. CASE ~slot[s].cancel
  <2>1. slot' = [slot EXCEPT ![s] = moved]
    BY <1>1, <1>3
  <2>2. /\ moved.pc = p /\ moved.out = o /\ moved.cancel = FALSE
        /\ moved.vid \in {v, NoVideo} /\ (moved.pc \in HoldingPc => moved.vid = v)
    OBVIOUS
  <2> HIDE DEF moved
  <2>3. PICK spent \in {0, 1} : faults' = faults - spent
    BY <1>0
  <2>4. PICK cost \in {0, 1} :
          /\ v \in Videos /\ Exists(v) => e - One(p \in TriedPc) = d + cost
          /\ cost = 1 => v \in Videos /\ Exists(v) /\ faults' = faults - 1 /\ p # "raised" /\ p # "givingBack"
    <3>1. CASE v \in Videos /\ Exists(v)
      <4>1. d \in Int
        BY <1>0, <3>1 DEF One
      <4> QED
        BY <3>1, <4>1 DEF Charged
    <3> QED
      BY <3>1
  <2>5. cost = 1 => spent = 1 /\ ~Raising(moved)
    BY <1>0, <2>2, <2>3, <2>4 DEF Raising
  <2>6. Raising(moved) => Raising(slot[s]) \/ spent = 1
    BY <1>0, <2>2, <2>3 DEF Raising
  <2> QED
    BY <2>1, <2>2, <2>3, <2>4, <2>5, <2>6, TaskBalances DEF SameVideos, OnlyOwnCount
<1> QED
  BY <1>0, <1>2, <1>3

LEMMA UpdateRowKeepsVideos ==
  ASSUME TypeOK, NEW v \in Videos, NEW r, r.status # "absent", UpdateRow(v, r)
  PROVE  SameVideos
  BY DEF UpdateRow, SameVideos, Exists, TypeOK

LEMMA OutcomesStay ==
  ASSUME NEW r \in Row, NEW l \in Lane, r.status # "absent"
  PROVE  /\ \A o \in Outcome : Written(r, l, o).status # "absent" /\ GivenBack(r, o).status # "absent"
         /\ Failed(r, l).status # "absent"
<1>1. Failed(r, l).status # "absent"
  BY DEF Failed, Row
<1>2. ASSUME NEW o \in Outcome PROVE GivenBack(r, o).status # "absent"
  BY DEF GivenBack, Row
<1>3. ASSUME NEW o \in Outcome PROVE Written(r, l, o).status # "absent"
  <2>1. CASE o = "failure"
    BY <1>1, <2>1 DEF Written
  <2>2. CASE o = "noTranscript"
    BY <2>2 DEF Written, Row
  <2>3. CASE o \notin {"failure", "noTranscript"}
    BY <2>3 DEF Written, Row
  <2> QED
    BY <2>1, <2>2, <2>3
<1> QED
  BY <1>1, <1>2, <1>3

\* Writing by id keeps the rows that are there and those that are not.
LEMMA WritesKeepVideos ==
  ASSUME TypeOK, NEW v \in Videos, NEW l \in Lane, NEW o \in Outcome,
         UpdateRow(v, Written(row[v], l, o)) \/ UpdateRow(v, GivenBack(row[v], o))
  PROVE  SameVideos
<1>1. CASE Exists(v)
  BY <1>1, OutcomesStay, UpdateRowKeepsVideos DEF TypeOK, Exists
<1>2. CASE ~Exists(v)
  BY <1>2 DEF UpdateRow, SameVideos, Exists, TypeOK
<1> QED
  BY <1>1, <1>2

\* What the three counters do to the books.
LEMMA CountersMove ==
  ASSUME TypeOK, TriesInv, NEW s \in Slots, slot[s].vid \in Videos
  PROVE  LET v == slot[s].vid
             l == LaneOf(s)
         IN /\ attempts' = StampedAttempts(v, l) /\ UNCHANGED ended =>
                 /\ OnlyOwnCount(s)
                 /\ Exists(v) => attempts'[v][l] = attempts[v][l] + 1 /\ ended'[v][l] = ended[v][l]
            /\ attempts' = GivenBackAttempts(v, l) /\ UNCHANGED ended =>
                 /\ OnlyOwnCount(s)
                 /\ attempts[v][l] > 0 => attempts'[v][l] = attempts[v][l] - 1 /\ ended'[v][l] = ended[v][l]
            /\ CountOutcome(v, l) /\ UNCHANGED attempts =>
                 /\ OnlyOwnCount(s)
                 /\ Exists(v) => attempts'[v][l] = attempts[v][l] /\ ended'[v][l] = ended[v][l] + 1
<1> DEFINE v == slot[s].vid
           l == LaneOf(s)
<1>0. /\ l \in Lane /\ v \in Videos
      /\ attempts \in [Videos -> [Lane -> Nat]] /\ ended \in [Videos -> [Lane -> Nat]]
      /\ ~Exists(v) => attempts[v][l] = 0
  BY LaneOfType DEF TypeOK, TriesInv, TriesBalance
<1> HIDE DEF v, l
<1>1. ASSUME attempts' = StampedAttempts(v, l), UNCHANGED ended
      PROVE  OnlyOwnCount(s) /\ (Exists(v) => attempts'[v][l] = attempts[v][l] + 1 /\ ended'[v][l] = ended[v][l])
  BY <1>0, <1>1 DEF StampedAttempts, OnlyOwnCount, v, l
<1>2. ASSUME attempts' = GivenBackAttempts(v, l), UNCHANGED ended
      PROVE  OnlyOwnCount(s) /\ (attempts[v][l] > 0 => attempts'[v][l] = attempts[v][l] - 1 /\ ended'[v][l] = ended[v][l])
  BY <1>0, <1>2 DEF GivenBackAttempts, OnlyOwnCount, v, l
<1>3. ASSUME CountOutcome(v, l), UNCHANGED attempts
      PROVE  OnlyOwnCount(s) /\ (Exists(v) => attempts'[v][l] = attempts[v][l] /\ ended'[v][l] = ended[v][l] + 1)
  BY <1>0, <1>3 DEF CountOutcome, OnlyOwnCount, v, l
<1> QED
  BY <1>1, <1>2, <1>3 DEF v, l

\* A task that works: its try is stamped, so there is one to give back.
LEMMA TriedOnce ==
  ASSUME IInv, TriesInv, NEW s \in Slots, slot[s].pc \in HoldingPc
  PROVE  LET v == slot[s].vid
             l == LaneOf(s)
         IN /\ v \in Videos /\ l \in Lane
            /\ attempts[v][l] \in Nat /\ ended[v][l] \in Nat
            /\ Exists(v) /\ slot[s].pc \in TriedPc => attempts[v][l] > 0
<1> DEFINE v == slot[s].vid
           l == LaneOf(s)
<1>1. v \in Videos /\ l \in Lane /\ Holds(s, v)
  BY LaneOfType DEF IInv, SlotsAreSound, SoundSlot, TypeOK, Slot, Holds
<1>2. attempts[v][l] \in Nat /\ ended[v][l] \in Nat
  BY <1>1 DEF IInv, TypeOK
<1>3. ASSUME Exists(v), slot[s].pc \in TriedPc PROVE attempts[v][l] > 0
  <2>1. Working(v, l)
    BY <1>1, <1>3, LaneSlots DEF Working
  <2>2. attempts[v][l] >= ended[v][l] + One(Working(v, l))
    BY <1>1, <1>3 DEF TriesInv, TriesBalance, Balanced
  <2> QED
    BY <1>2, <2>1, <2>2 DEF One
<1> QED
  BY <1>1, <1>2, <1>3

LEMMA IdleAtRest == \A sl : sl.pc # "idle" => sl # IdleSlot
  BY DEF IdleSlot, SlotAt

\* A step that leaves the rows, the counters and the faults alone.
LEMMA QuietMove ==
  ASSUME IInv, TypeOK', TriesInv, NEW s \in Slots, NEW p \in SlotPc, NEW o \in Outcome, MoveTo(s, p, o),
         slot[s].pc # "idle", p \in HoldingPc => slot[s].pc \in HoldingPc,
         UNCHANGED <<row, loop, attempts, ended, faults>>, ~(p = "raised" \/ (p = "givingBack" /\ o = "raise")),
         slot[s].pc \in HoldingPc /\ Exists(slot[s].vid) => (slot[s].pc \in TriedPc <=> p \in TriedPc)
  PROVE  TriesInv'
<1> DEFINE v == slot[s].vid
           l == LaneOf(s)
           d == attempts[v][l] - ended[v][l] - One(slot[s].pc \in TriedPc)
           e == attempts'[v][l] - ended'[v][l]
<1>1. SameVideos /\ OnlyOwnCount(s)
  BY DEF SameVideos, OnlyOwnCount, Exists
<1>2. ASSUME v \in Videos, Exists(v) PROVE e \in {d, d + 1} /\ e - One(p \in TriedPc) = d
  <2>1. slot[s].pc \in HoldingPc
    BY <1>2, LanesAssumption DEF IInv, SlotsAreSound, SoundSlot
  <2>2. attempts[v][l] \in Nat /\ ended[v][l] \in Nat /\ attempts'[v][l] = attempts[v][l] /\ ended'[v][l] = ended[v][l]
    BY <2>1, TriedOnce
  <2>3. slot[s].pc \in TriedPc <=> p \in TriedPc
    BY <1>2, <2>1
  <2> HIDE DEF v, l
  <2> QED
    BY <2>2, <2>3 DEF One
<1>3. Charged(s, p)
  BY <1>2 DEF Charged
<1> QED
  BY <1>1, <1>3, IdleAtRest, MoveBalances DEF IInv, ClaimsAreSound

LEMMA TaskTries ==
  ASSUME IInv, TypeOK', TriesInv, NEW s \in Slots, SlotStep(s)
  PROVE  TriesInv'
<1> DEFINE v == slot[s].vid
           l == LaneOf(s)
           o == slot[s].out
<1>0. /\ TypeOK /\ ExclusiveHold /\ SoundSlot(slot[s], l) /\ o \in Outcome /\ l \in Lane
      /\ row \in [Videos -> Row]
  BY LaneOfType DEF IInv, ClaimsAreSound, SlotsAreSound, TypeOK, Slot
<1>1. CASE Stamp(s)
  <2>1. /\ slot[s].pc = "created" /\ UNCHANGED <<row, loop, ended, faults>>
        /\ attempts' = StampedAttempts(v, l) /\ v \in Videos
        /\ \/ ~Exists(v) /\ MoveTo(s, "done", "none")
           \/ Exists(v) /\ MoveTo(s, "calling", "none")
           \/ Exists(v) /\ MoveTo(s, "givingBack", "anomaly")
    BY <1>1, TriedOnce DEF Stamp, HoldingPc
  <2>2. OnlyOwnCount(s) /\ (Exists(v) => attempts'[v][l] = attempts[v][l] + 1 /\ ended'[v][l] = ended[v][l])
    BY <1>0, <2>1, CountersMove
  <2>3. attempts[v][l] \in Nat /\ ended[v][l] \in Nat
    BY <2>1, TriedOnce DEF HoldingPc
  <2>4. SameVideos
    BY <2>1 DEF SameVideos, Exists
  <2>5. slot[s].pc \notin TriedPc /\ "calling" \in TriedPc /\ "givingBack" \in TriedPc
    BY <2>1 DEF TriedPc, HoldingPc
  <2>6. One(slot[s].pc \in TriedPc) = 0 /\ One("calling" \in TriedPc) = 1 /\ One("givingBack" \in TriedPc) = 1
    BY <2>5 DEF One
  <2>7. CASE ~Exists(v)
    <3>1. Charged(s, "done")
      BY <2>7 DEF Charged
    <3> QED
      BY <1>0, <2>1, <2>2, <2>4, <2>7, <3>1, IdleAtRest, MoveBalances DEF SlotPc, HoldingPc, Outcome
  <2>8. CASE Exists(v)
    <3>1. MoveTo(s, "calling", "none") \/ MoveTo(s, "givingBack", "anomaly")
      BY <2>1, <2>8
    <3>2. Charged(s, "calling") /\ Charged(s, "givingBack")
      BY <2>2, <2>3, <2>6, <2>8 DEF Charged
    <3> QED
      BY <1>0, <2>1, <2>2, <2>4, <3>1, <3>2, IdleAtRest, MoveBalances DEF SlotPc, HoldingPc, Outcome
  <2> QED
    BY <2>7, <2>8
<1>2. ASSUME NEW out \in Outcome, Call(s, out) PROVE TriesInv'
  <2>1. /\ slot[s].pc = "calling" /\ UNCHANGED <<row, loop, attempts, ended, faults>>
        /\ MoveTo(s, "writing", out) \/ (out = "limit" /\ MoveTo(s, "givingBack", out))
    BY <1>2 DEF Call
  <2> QED
    BY <2>1, QuietMove DEF SlotPc, HoldingPc, TriedPc
<1>3. CASE CancelledCall(s)
  <2> DEFINE x == [slot[s] EXCEPT !.pc = "givingBack", !.out = "raise", !.cancel = FALSE]
  <2>1. /\ slot[s].pc = "calling" /\ slot[s].cancel /\ slot' = [slot EXCEPT ![s] = x]
        /\ UNCHANGED <<row, loop, attempts, ended, faults>>
    BY <1>3 DEF CancelledCall
  <2>2. x.pc = "givingBack" /\ x.vid = v /\ x.cancel = FALSE
    BY <1>0 DEF TypeOK, Slot
  <2>3. attempts[v][l] \in Nat /\ ended[v][l] \in Nat /\ faults \in Nat
    BY <1>0, <2>1, TriedOnce DEF HoldingPc, TypeOK
  <2>4. One(x.pc \in TriedPc) = 1 /\ One(slot[s].pc \in TriedPc) = 1
    BY <2>1, <2>2 DEF One, TriedPc, HoldingPc
  <2> HIDE DEF x
  <2>5. faults' = faults - 0
        /\ attempts'[v][l] - ended'[v][l] - One(x.pc \in TriedPc)
             = attempts[v][l] - ended[v][l] - One(slot[s].pc \in TriedPc) + 0
    BY <2>1, <2>3, <2>4
  <2>6. \A u \in Videos : Exists(u)' <=> Exists(u)
    BY <2>1 DEF Exists
  <2>7. 0 \in {0, 1} /\ slot[s] # IdleSlot
    BY <2>1, IdleAtRest
  <2> QED
    BY <1>0, <2>1, <2>2, <2>5, <2>6, <2>7, TaskBalances
<1>4. CASE Write(s)
  <2>1. /\ slot[s].pc = "writing" /\ UNCHANGED <<loop, attempts, faults>>
        /\ UpdateRow(v, Written(row[v], l, o)) /\ CountOutcome(v, l) /\ v \in Videos
        /\ MoveTo(s, "recording", o) \/ MoveTo(s, "done", "none")
    BY <1>4, TriedOnce DEF Write, HoldingPc
  <2>2. OnlyOwnCount(s) /\ (Exists(v) => attempts'[v][l] = attempts[v][l] /\ ended'[v][l] = ended[v][l] + 1)
    BY <1>0, <2>1, CountersMove
  <2>3. attempts[v][l] \in Nat /\ ended[v][l] \in Nat
    BY <2>1, TriedOnce DEF HoldingPc
  <2>4. SameVideos
    BY <1>0, <2>1, WritesKeepVideos
  <2>5. One(slot[s].pc \in TriedPc) = 1 /\ One("recording" \in TriedPc) = 0 /\ One("done" \in TriedPc) = 0
    BY <2>1 DEF One, TriedPc, HoldingPc
  <2>6. Charged(s, "recording") /\ Charged(s, "done")
    BY <2>2, <2>3, <2>5 DEF Charged
  <2> QED
    BY <1>0, <2>1, <2>2, <2>4, <2>6, IdleAtRest, MoveBalances DEF SlotPc, HoldingPc, Outcome
<1>5. CASE PersistRead(s)
  <2>1. /\ slot[s].pc = "writing" /\ UNCHANGED <<row, loop, attempts, ended, faults>>
        /\ MoveTo(s, "committing", "success") \/ (~Exists(v) /\ MoveTo(s, "done", "none"))
    BY <1>5 DEF PersistRead
  <2> QED
    BY <2>1, QuietMove DEF SlotPc, HoldingPc, TriedPc, Outcome
<1>6. CASE PersistCommit(s)
  <2>1. /\ slot[s].pc = "committing" /\ UNCHANGED <<loop, attempts, faults>> /\ l = "analysis"
        /\ UpdateRow(v, Written(row[v], l, "success")) /\ CountOutcome(v, l) /\ v \in Videos
        /\ \/ Exists(v) /\ MoveTo(s, "recording", "success")
           \/ ~Exists(v) /\ MoveTo(s, "failing", "none")
    BY <1>0, <1>6, TriedOnce DEF PersistCommit, HoldingPc, SoundSlot
  <2>2. OnlyOwnCount(s) /\ (Exists(v) => attempts'[v][l] = attempts[v][l] /\ ended'[v][l] = ended[v][l] + 1)
    BY <1>0, <2>1, CountersMove
  <2>3. attempts[v][l] \in Nat /\ ended[v][l] \in Nat
    BY <2>1, TriedOnce DEF HoldingPc
  <2>4. SameVideos
    BY <1>0, <2>1, WritesKeepVideos DEF Outcome
  <2>5. One(slot[s].pc \in TriedPc) = 1 /\ One("recording" \in TriedPc) = 0
    BY <2>1 DEF One, TriedPc, HoldingPc
  <2>6. (Exists(v) => Charged(s, "recording")) /\ (~Exists(v) => Charged(s, "failing"))
    BY <2>2, <2>3, <2>5 DEF Charged
  <2> QED
    BY <1>0, <2>1, <2>2, <2>4, <2>6, IdleAtRest, MoveBalances DEF SlotPc, HoldingPc, Outcome
<1>7. CASE GiveBack(s)
  <2>1. /\ slot[s].pc = "givingBack" /\ UNCHANGED <<loop, ended, faults>>
        /\ UpdateRow(v, GivenBack(row[v], o)) /\ attempts' = GivenBackAttempts(v, l) /\ v \in Videos
        /\ \/ MoveTo(s, "recording", o) \/ MoveTo(s, "done", "none")
           \/ o = "raise" /\ MoveTo(s, "raised", "none")
    BY <1>7, TriedOnce DEF GiveBack, HoldingPc
  <2>2. OnlyOwnCount(s)
        /\ (attempts[v][l] > 0 => attempts'[v][l] = attempts[v][l] - 1 /\ ended'[v][l] = ended[v][l])
    BY <1>0, <2>1, CountersMove
  <2>3. attempts[v][l] \in Nat /\ ended[v][l] \in Nat /\ (Exists(v) => attempts[v][l] > 0)
    BY <2>1, TriedOnce DEF HoldingPc, TriedPc
  <2>4. SameVideos
    BY <1>0, <2>1, WritesKeepVideos
  <2>5. /\ One(slot[s].pc \in TriedPc) = 1 /\ One("recording" \in TriedPc) = 0
        /\ One("done" \in TriedPc) = 0 /\ One("raised" \in TriedPc) = 0
    BY <2>1 DEF One, TriedPc, HoldingPc
  <2>6. o = "raise" => Raising(slot[s])
    BY <2>1 DEF Raising
  <2>7. Charged(s, "recording") /\ Charged(s, "done") /\ Charged(s, "raised")
    BY <2>2, <2>3, <2>5 DEF Charged
  <2> QED
    BY <1>0, <2>1, <2>2, <2>4, <2>6, <2>7, IdleAtRest, MoveBalances DEF SlotPc, HoldingPc, Outcome
<1>8. CASE FailVideo(s)
  <2>1. /\ slot[s].pc = "failing" /\ UNCHANGED <<loop, attempts, ended, faults>> /\ v \in Videos
        /\ row' = [row EXCEPT ![v] = IF @.status = InputStatus(l) THEN Failed(@, l) ELSE @]
        /\ MoveTo(s, "recording", "failure")
    BY <1>8, TriedOnce DEF FailVideo, HoldingPc
  <2>2. SameVideos
    <3>1. row[v].status = InputStatus(l) => row[v].status # "absent"
      BY DEF InputStatus
    <3> QED
      BY <1>0, <2>1, <3>1, OutcomesStay DEF SameVideos, Exists
  <2>3. OnlyOwnCount(s)
    BY <2>1 DEF OnlyOwnCount
  <2>4. attempts[v][l] \in Nat /\ ended[v][l] \in Nat
    BY <2>1, TriedOnce DEF HoldingPc
  <2>5. One(slot[s].pc \in TriedPc) = 0 /\ One("recording" \in TriedPc) = 0
    BY <2>1 DEF One, TriedPc, HoldingPc
  <2>6. Charged(s, "recording")
    BY <2>1, <2>4, <2>5 DEF Charged
  <2> QED
    BY <1>0, <2>1, <2>2, <2>3, <2>6, IdleAtRest, MoveBalances DEF SlotPc, HoldingPc, Outcome
<1>9. CASE Record(s) \/ Throttle(s)
  <2>1. /\ slot[s].pc \in {"recording", "throttling"} /\ UNCHANGED <<row, loop, attempts, ended, faults>>
        /\ MoveTo(s, "done", "none") \/ MoveTo(s, "throttling", "none")
    BY <1>9 DEF Record, Throttle
  <2> QED
    BY <2>1, QuietMove DEF SlotPc, HoldingPc, Outcome
<1>10. CASE Interrupt(s)
  <2> DEFINE x == SlotAt("raised")
  <2>1. slot[s].cancel /\ UNCHANGED <<row, loop, attempts, ended, faults>> /\ slot' = [slot EXCEPT ![s] = x]
    BY <1>10 DEF Interrupt
  <2>2. /\ x.pc = "raised" /\ x.vid = NoVideo /\ x.cancel = FALSE
        /\ x.pc \notin HoldingPc /\ One(x.pc \in TriedPc) = 0
    BY DEF SlotAt, HoldingPc, TriedPc, One
  <2> HIDE DEF x
  <2>3. slot[s] # IdleSlot
    BY <2>1 DEF IdleSlot, SlotAt
  <2>4. One(slot[s].pc \in TriedPc) \in {0, 1} /\ faults' = faults - 0
    BY <1>0, <2>1 DEF One, TypeOK
  <2>5. ASSUME v \in Videos
        PROVE  attempts'[v][l] - ended'[v][l] - One(x.pc \in TriedPc)
                 = attempts[v][l] - ended[v][l] - One(slot[s].pc \in TriedPc) + One(slot[s].pc \in TriedPc)
    <3>1. attempts[v][l] \in Nat /\ ended[v][l] \in Nat
      BY <1>0, <2>5 DEF TypeOK
    <3> QED
      BY <2>1, <2>2, <2>4, <3>1
  <2>6. \A u \in Videos : Exists(u)' <=> Exists(u)
    BY <2>1 DEF Exists
  <2> QED
    BY <1>0, <2>1, <2>2, <2>3, <2>4, <2>5, <2>6, TaskBalances
<1> QED
  BY <1>1, <1>2, <1>3, <1>4, <1>5, <1>6, <1>7, <1>8, <1>9, <1>10 DEF SlotStep

\* A lane's loop moves: the counters stay, and what may be lost is charged for.
LEMMA LaneBalances ==
  ASSUME TypeOK, TypeOK', TriesInv, UNCHANGED <<attempts, ended>>, SameVideos,
         NEW spent \in {0, 1}, faults' = faults - spent,
         CancelledWhileStopping', DownHasNoTask',
         \A v \in Videos, l \in Lane :
           \/ /\ Working(v, l)' <=> Working(v, l)
              /\ MayLose(v, l)' => MayLose(v, l) \/ spent = 1
           \/ ~Working(v, l)' /\ ~MayLose(v, l)' /\ (Working(v, l) => spent = 1)
  PROVE  TriesInv'
<1>1. faults' <= MaxFaults
  BY LanesAssumption DEF TriesInv, TypeOK
<1>2. ASSUME NEW v \in Videos, NEW k \in Lane
      PROVE  /\ Exists(v)' => Balanced(v, k)'
             /\ ~Exists(v)' => attempts'[v][k] = 0 /\ ended'[v][k] = 0
             /\ MayLose(v, k)' => faults' < MaxFaults
  <2>1. /\ attempts[v][k] \in Nat /\ ended[v][k] \in Nat /\ faults \in Nat /\ MaxFaults \in Nat
    BY LanesAssumption DEF TypeOK
  <2>2. MayLose(v, k)' => faults' < MaxFaults
    BY <2>1 DEF TriesInv, TriesBalance
  <2>3. ~Exists(v)' => attempts'[v][k] = 0 /\ ended'[v][k] = 0
    BY DEF TriesInv, TriesBalance, SameVideos
  <2>4. ASSUME Exists(v)' PROVE Balanced(v, k)'
    <3>1. Balanced(v, k)
      BY <2>4 DEF TriesInv, TriesBalance, SameVideos
    <3>2. CASE (Working(v, k)' <=> Working(v, k)) /\ (MayLose(v, k)' => MayLose(v, k) \/ spent = 1)
      <4>1. One(Working(v, k)') = One(Working(v, k))
        BY <3>2 DEF One
      <4>2. /\ One(MayLose(v, k)') + faults' <= One(MayLose(v, k)) + faults
            /\ One(Working(v, k)) \in {0, 1} /\ One(MayLose(v, k)') \in {0, 1} /\ One(MayLose(v, k)) \in {0, 1}
        BY <2>1, <3>2 DEF One
      <4> QED
        BY <2>1, <3>1, <4>1, <4>2 DEF Balanced
    <3>3. CASE ~Working(v, k)' /\ ~MayLose(v, k)' /\ (Working(v, k) => spent = 1)
      <4>1. /\ One(Working(v, k)') = 0 /\ One(MayLose(v, k)') = 0
            /\ One(Working(v, k)) \in {0, spent} /\ One(MayLose(v, k)) \in {0, 1}
        BY <3>3 DEF One
      <4> QED
        BY <2>1, <3>1, <4>1 DEF Balanced
    <3> QED
      BY <3>2, <3>3
  <2> QED
    BY <2>2, <2>3, <2>4
<1> QED
  BY <1>1, <1>2 DEF TriesInv, TriesBalance

\* Cancelling tasks keeps the tries they are at.
LEMMA CancelledWork ==
  ASSUME TypeOK, SlotsAreSound, NEW l \in Lane, slot' = CancelAll(l), NEW v \in Videos, NEW k \in Lane
  PROVE  Working(v, k)' <=> Working(v, k)
<1>1. \A s \in SlotsOf(k) : slot'[s] \in {slot[s], Cancelled(slot[s])} /\ slot[s] \in Slot /\ SoundSlot(slot[s], k)
  BY LaneSlots DEF CancelAll, TypeOK, SlotsAreSound
<1>2. ASSUME NEW s \in SlotsOf(k)
      PROVE  slot'[s].vid = v /\ slot'[s].pc \in TriedPc <=> slot[s].vid = v /\ slot[s].pc \in TriedPc
  <2>1. CASE slot'[s] = slot[s]
    BY <2>1
  <2>2. CASE slot'[s] = IdleSlot /\ slot[s].pc \in {"idle", "done", "raised"}
    BY <2>2 DEF IdleSlot, SlotAt, TriedPc, HoldingPc
  <2>3. CASE slot'[s] = [slot[s] EXCEPT !.cancel = TRUE]
    BY <1>1, <2>3 DEF Slot
  <2> QED
    BY <1>1, <2>1, <2>2, <2>3 DEF Cancelled
<1> QED
  BY <1>2 DEF Working, Holds

LEMMA LaneTries ==
  ASSUME IInv, TypeOK', TriesInv, NEW l \in Lane, LoopStep(l)
  PROVE  TriesInv'
<1>0. /\ TypeOK /\ SlotsAreSound /\ CancelledWhileStopping /\ DownHasNoTask
      /\ 0 \in {0, 1} /\ UNCHANGED faults /\ faults \in Nat
  BY DEF LoopStep, Startup, Fill, CheckPaused, ClaimNext, ClaimNothing, Wake, Exit, TypeOK, IInv, TriesInv
<1>1. UNCHANGED <<attempts, ended>> /\ faults' = faults - 0
  BY <1>0 DEF LoopStep, Startup, Fill, CheckPaused, ClaimNext, ClaimNothing, Wake, Exit
<1>2. ASSUME UNCHANGED <<slot, row>>,
             \A k \in Lane : loop'[k] = loop[k] \/ {loop'[k], loop[k]} \cap {"down", "cancelling"} = {}
      PROVE  TriesInv'
  <2>1. \A v \in Videos, k \in Lane : (Working(v, k)' <=> Working(v, k)) /\ (MayLose(v, k)' <=> MayLose(v, k))
    BY <1>2 DEF Working, MayLose, Holds
  <2>2. CancelledWhileStopping' /\ DownHasNoTask'
    BY <1>0, <1>2, LaneOfType DEF CancelledWhileStopping, DownHasNoTask
  <2>3. SameVideos
    BY <1>2 DEF SameVideos, Exists
  <2> QED
    BY <1>0, <1>1, <2>1, <2>2, <2>3, LaneBalances
<1>3. CASE Fill(l) \/ CheckPaused(l) \/ ClaimNothing(l)
  BY <1>0, <1>2, <1>3 DEF Fill, CheckPaused, ClaimNothing, TypeOK
<1>4. CASE Startup(l)
  <2>1. /\ UNCHANGED slot /\ loop' = [loop EXCEPT ![l] = "fill"] /\ loop[l] = "down"
        /\ \A v \in Videos : row'[v] = Released(row[v], l) /\ row[v] \in Row
    BY <1>0, <1>4 DEF Startup, TypeOK
  <2>2. SameVideos
    BY <2>1 DEF SameVideos, Exists, Released, Row
  <2>3. \A s \in SlotsOf(l) : ~Raising(slot[s]) /\ ~slot[s].cancel
    BY <1>0, <2>1 DEF DownHasNoTask, IdleSlot, SlotAt, Raising
  <2>4. \A v \in Videos, k \in Lane : (Working(v, k)' <=> Working(v, k)) /\ (MayLose(v, k)' => MayLose(v, k))
    BY <1>0, <2>1, <2>3 DEF Working, MayLose, Holds, TypeOK
  <2>5. CancelledWhileStopping' /\ DownHasNoTask'
    BY <1>0, <2>1, <2>3, LaneSlots, LaneOfType DEF CancelledWhileStopping, DownHasNoTask, TypeOK
  <2> QED
    BY <1>0, <1>1, <2>2, <2>4, <2>5, LaneBalances
<1>5. ASSUME NEW s \in SlotsOf(l), NEW u \in Videos, ClaimNext(l, s, u) PROVE TriesInv'
  <2> DEFINE taken == [SlotAt("created") EXCEPT !.vid = u]
  <2>1. taken.pc = "created" /\ taken.vid = u /\ taken.cancel = FALSE
    BY DEF SlotAt
  <2>2. /\ slot' = [slot EXCEPT ![s] = taken] /\ row' = [row EXCEPT ![u].claimed = TRUE]
        /\ slot[s].pc = "idle" /\ loop[l] = "claim" /\ loop' = [loop EXCEPT ![l] = AfterClaim(l, s)]
    BY <1>5 DEF ClaimNext
  <2> HIDE DEF taken
  <2>3. /\ slot'[s] = taken /\ \A t \in Slots \ {s} : slot'[t] = slot[t]
        /\ loop'[l] \in {"check", "wait"} /\ \A k \in Lane \ {l} : loop'[k] = loop[k]
    BY <1>0, <2>2, LaneSlots DEF TypeOK, AfterClaim
  <2>4. SameVideos
    BY <1>0, <2>2 DEF SameVideos, Exists, TypeOK, Row
  <2>5. \A k \in Lane : \A t \in SlotsOf(k) : t \in Slots /\ (t = s => k = l)
    BY LaneSlots
  <2>6. ~slot[s].cancel
    BY <1>0, <2>2, LaneSlots DEF CancelledWhileStopping
  <2>7. \A v \in Videos, k \in Lane : Working(v, k)' <=> Working(v, k)
    BY <2>1, <2>2, <2>3, <2>5 DEF Working, Holds, TriedPc, HoldingPc
  <2>8. \A v \in Videos, k \in Lane : MayLose(v, k)' => MayLose(v, k)
    BY <2>1, <2>2, <2>3, <2>5 DEF MayLose, Holds, Raising
  <2>9. CancelledWhileStopping' /\ DownHasNoTask'
    BY <1>0, <2>1, <2>2, <2>3, <2>5, <2>6, LaneSlots, LaneOfType DEF CancelledWhileStopping, DownHasNoTask
  <2> QED
    BY <1>0, <1>1, <2>4, <2>7, <2>8, <2>9, LaneBalances
<1>6. CASE Wake(l)
  <2>0. SameVideos
    BY <1>6 DEF Wake, SameVideos, Exists
  <2>1. CASE slot' = CancelAll(l) /\ loop' = [loop EXCEPT ![l] = "cancelling"]
             /\ loop[l] = "wait" /\ \E s \in SlotsOf(l) : slot[s].pc = "raised"
    <3>1. /\ loop'[l] = "cancelling" /\ \A k \in Lane \ {l} : loop'[k] = loop[k]
          /\ \A k \in Lane \ {l} : \A s \in SlotsOf(k) : slot'[s] = slot[s]
      BY <1>0, <2>1, LaneSlots DEF CancelAll, TypeOK
    <3>2. \A v \in Videos, k \in Lane : Working(v, k)' <=> Working(v, k)
      BY <1>0, <2>1, CancelledWork
    <3>3. \A v \in Videos, k \in Lane : MayLose(v, k)' => MayLose(v, k)
      BY <2>1, <3>1 DEF MayLose, Holds, Raising
    <3>4. CancelledWhileStopping' /\ DownHasNoTask'
      BY <1>0, <3>1, LaneSlots, LaneOfType DEF CancelledWhileStopping, DownHasNoTask
    <3> QED
      BY <1>0, <1>1, <2>0, <3>2, <3>3, <3>4, LaneBalances
  <2>2. CASE /\ slot' = [s \in Slots |-> IF s \in SlotsOf(l) /\ slot[s].pc = "done"
                                         THEN IdleSlot ELSE slot[s]]
             /\ loop' = [loop EXCEPT ![l] = "fill"] /\ loop[l] = "wait"
    <3>1. /\ loop'[l] = "fill" /\ \A k \in Lane \ {l} : loop'[k] = loop[k]
          /\ \A s \in Slots : slot'[s] = slot[s] \/ (slot[s].pc = "done" /\ slot'[s] = IdleSlot)
      BY <1>0, <2>2 DEF TypeOK
    <3>2. IdleSlot.pc = "idle" /\ IdleSlot.cancel = FALSE
      BY DEF IdleSlot, SlotAt
    <3>3. \A v \in Videos, k \in Lane : Working(v, k)' <=> Working(v, k)
      BY <3>1, <3>2, LaneSlots DEF Working, Holds, TriedPc, HoldingPc
    <3>4. \A v \in Videos, k \in Lane : MayLose(v, k)' => MayLose(v, k)
      BY <2>2, <3>1, <3>2, LaneSlots DEF MayLose, Holds, Raising
    <3>5. CancelledWhileStopping' /\ DownHasNoTask'
      BY <1>0, <2>2, <3>1, <3>2, LaneSlots, LaneOfType DEF CancelledWhileStopping, DownHasNoTask
    <3> QED
      BY <1>0, <1>1, <2>0, <3>3, <3>4, <3>5, LaneBalances
  <2> QED
    BY <1>6, <2>1, <2>2 DEF Wake
<1>7. CASE Exit(l)
  <2>0. SameVideos
    BY <1>7 DEF Exit, SameVideos, Exists
  <2>1. /\ loop'[l] = "down" /\ \A k \in Lane \ {l} : loop'[k] = loop[k]
        /\ \A s \in SlotsOf(l) : slot'[s] = IdleSlot /\ slot[s].pc \notin TriedPc
        /\ \A k \in Lane \ {l} : \A s \in SlotsOf(k) : slot'[s] = slot[s]
    <3>1. \A s \in SlotsOf(l) : slot'[s] = IdleSlot /\ slot[s].pc \notin TriedPc
      BY <1>7, LaneSlots DEF Exit, Settled, TriedPc, HoldingPc
    <3>2. \A k \in Lane \ {l} : \A s \in SlotsOf(k) : s \in Slots /\ s \notin SlotsOf(l)
      BY LaneSlots
    <3>3. \A k \in Lane \ {l} : \A s \in SlotsOf(k) : slot'[s] = slot[s]
      BY <1>7, <3>2 DEF Exit
    <3> QED
      BY <1>0, <1>7, <3>1, <3>3 DEF Exit, TypeOK
  <2>2. IdleSlot.pc \notin TriedPc /\ IdleSlot.cancel = FALSE
    BY DEF IdleSlot, SlotAt, TriedPc, HoldingPc
  <2>3. ASSUME NEW v \in Videos, NEW k \in Lane
        PROVE  (Working(v, k)' <=> Working(v, k)) /\ (MayLose(v, k)' => MayLose(v, k))
    <3>1. CASE k = l
      BY <2>1, <2>2, <3>1 DEF Working, MayLose
    <3>2. CASE k # l
      BY <2>1, <3>2 DEF Working, MayLose, Holds
    <3> QED
      BY <3>1, <3>2
  <2>4. CancelledWhileStopping' /\ DownHasNoTask'
    BY <1>0, <2>1, <2>2, LaneSlots, LaneOfType DEF CancelledWhileStopping, DownHasNoTask
  <2> QED
    BY <1>0, <1>1, <2>0, <2>3, <2>4, LaneBalances
<1> QED
  BY <1>3, <1>4, <1>5, <1>6, <1>7 DEF LoopStep

LEMMA FaultTries ==
  ASSUME ~LostAcks, IInv, TypeOK', TriesInv, Fault
  PROVE  TriesInv'
<1>0. /\ TypeOK /\ ExclusiveHold /\ SlotsAreSound /\ CancelledWhileStopping /\ DownHasNoTask
      /\ 1 \in {0, 1} /\ faults \in Nat
  BY DEF IInv, ClaimsAreSound, TypeOK, TriesInv
<1>1. ASSUME NEW s \in Slots, NEW p \in SlotPc, NEW o \in Outcome, MoveTo(s, p, o),
             p \in HoldingPc => slot[s].pc \in HoldingPc, slot[s].pc # "idle",
             UNCHANGED <<row, loop, attempts, ended>>, faults' = faults - 1,
             LET v == slot[s].vid IN v \in Videos /\ Exists(v) =>
               (slot[s].pc \in TriedPc <=> p \in TriedPc) \/ (p = "failing" /\ slot[s].pc \in TriedPc)
      PROVE  TriesInv'
  <2> DEFINE v == slot[s].vid
             l == LaneOf(s)
  <2>1. SameVideos /\ OnlyOwnCount(s)
    BY <1>1 DEF SameVideos, OnlyOwnCount, Exists
  <2>2. Charged(s, p)
    <3>1. CASE v \in Videos /\ Exists(v)
      <4>1. attempts[v][l] \in Nat /\ ended[v][l] \in Nat
        BY <1>0, <3>1, LaneOfType DEF TypeOK
      <4>2. CASE slot[s].pc \in TriedPc <=> p \in TriedPc
        BY <1>1, <4>1, <4>2 DEF Charged, One
      <4>3. CASE p = "failing" /\ slot[s].pc \in TriedPc
        <5>1. One(slot[s].pc \in TriedPc) = 1 /\ One(p \in TriedPc) = 0
          BY <4>3 DEF One, TriedPc
        <5> QED
          BY <1>1, <4>1, <4>3, <5>1 DEF Charged
      <4> QED
        BY <1>1, <3>1, <4>2, <4>3
    <3> QED
      BY <3>1 DEF Charged
  <2> QED
    BY <1>0, <1>1, <2>1, <2>2, IdleAtRest, MoveBalances
<1>2. ASSUME NEW s \in Slots, FatalCall(s) PROVE TriesInv'
  BY <1>1, <1>2 DEF FatalCall, SpendFault, SlotPc, HoldingPc, TriedPc, Outcome
<1>3. ASSUME NEW s \in Slots, DbError(s) PROVE TriesInv'
  <2>1. UNCHANGED <<row, loop, attempts, ended>> /\ faults' = faults - 1
    BY <1>3 DEF DbError, SpendFault
  <2>2. CASE slot[s].pc \in {"created", "writing", "committing", "givingBack"} /\ MoveTo(s, "failing", "none")
    BY <1>1, <2>1, <2>2 DEF SlotPc, HoldingPc, TriedPc, Outcome
  <2>3. CASE slot[s].pc \in {"failing", "recording", "throttling"} /\ MoveTo(s, "raised", "none")
    BY <1>1, <2>1, <2>3 DEF SlotPc, HoldingPc, TriedPc, Outcome
  <2> QED
    BY <1>3, <2>2, <2>3 DEF DbError
<1>4. ASSUME NEW l \in Lane, LoopError(l) PROVE TriesInv'
  <2>1. /\ SameVideos /\ UNCHANGED <<attempts, ended>> /\ faults' = faults - 1 /\ slot' = CancelAll(l)
        /\ loop'[l] = "cancelling" /\ \A k \in Lane \ {l} : loop'[k] = loop[k]
    BY <1>0, <1>4 DEF LoopError, SpendFault, SameVideos, Exists, TypeOK
  <2>2. \A v \in Videos, k \in Lane : Working(v, k)' <=> Working(v, k)
    BY <1>0, <2>1, CancelledWork
  <2>3. \A k \in Lane \ {l} : \A s \in SlotsOf(k) : slot'[s] = slot[s]
    BY <2>1, LaneSlots DEF CancelAll
  <2>4. CancelledWhileStopping' /\ DownHasNoTask'
    BY <1>0, <2>1, <2>3, LaneSlots, LaneOfType DEF CancelledWhileStopping, DownHasNoTask
  <2> QED
    BY <1>0, <2>1, <2>2, <2>4, LaneBalances
<1>5. ASSUME NEW l \in Lane, Crash(l) PROVE TriesInv'
  <2>1. /\ SameVideos /\ UNCHANGED <<attempts, ended>> /\ faults' = faults - 1
        /\ loop'[l] = "down" /\ \A k \in Lane \ {l} : loop'[k] = loop[k]
        /\ \A s \in SlotsOf(l) : slot'[s] = IdleSlot
        /\ \A k \in Lane \ {l} : \A s \in SlotsOf(k) : slot'[s] = slot[s]
    BY <1>0, <1>5, LaneSlots DEF Crash, SpendFault, SameVideos, Exists, TypeOK
  <2>2. IdleSlot.pc \notin TriedPc /\ IdleSlot.cancel = FALSE
    BY DEF IdleSlot, SlotAt, TriedPc, HoldingPc
  <2>3. ASSUME NEW v \in Videos, NEW k \in Lane
        PROVE  \/ (Working(v, k)' <=> Working(v, k)) /\ (MayLose(v, k)' => MayLose(v, k))
               \/ ~Working(v, k)' /\ ~MayLose(v, k)'
    <3>1. CASE k = l
      BY <2>1, <2>2, <3>1 DEF Working, MayLose
    <3>2. CASE k # l
      BY <2>1, <3>2 DEF Working, MayLose, Holds
    <3> QED
      BY <3>1, <3>2
  <2>4. CancelledWhileStopping' /\ DownHasNoTask'
    BY <1>0, <2>1, <2>2, LaneSlots, LaneOfType DEF CancelledWhileStopping, DownHasNoTask
  <2> QED
    BY <1>0, <2>1, <2>3, <2>4, LaneBalances
<1> QED
  BY <1>2, <1>3, <1>4, <1>5, LanesAssumption DEF Fault, LostAck

LEMMA RequestTries ==
  ASSUME ~ReAddInFlight, IInv, TypeOK', TriesInv, Request
  PROVE  TriesInv'
<1>0. /\ TypeOK /\ CancelledWhileStopping /\ DownHasNoTask /\ \A v \in Videos : row[v] \in Row
  BY DEF IInv, TypeOK, TriesInv
<1>1. UNCHANGED <<loop, slot, faults>>
  BY DEF Request, AnalyzeVideos, SkipVideos, ReanalyzeStale, RetryFailures, RequeueIds, DeleteChannel,
     Ingest, PauseLane, ResumeLane
<1>2. \A v \in Videos, k \in Lane : (Working(v, k)' <=> Working(v, k)) /\ (MayLose(v, k)' <=> MayLose(v, k))
  BY <1>1 DEF Working, MayLose, Holds
<1>3. CancelledWhileStopping' /\ DownHasNoTask' /\ faults' <= MaxFaults
  BY <1>1 DEF TriesInv, CancelledWhileStopping, DownHasNoTask
<1>4. ASSUME \A v \in Videos, k \in Lane :
               \/ /\ Exists(v)' <=> Exists(v)
                  /\ attempts'[v][k] = attempts[v][k] /\ ended'[v][k] = ended[v][k]
               \/ ~Exists(v)' /\ attempts'[v][k] = 0 /\ ended'[v][k] = 0
               \/ /\ ~Exists(v) /\ ~Working(v, k)
                  /\ attempts'[v][k] = attempts[v][k] /\ ended'[v][k] = ended[v][k]
      PROVE  TriesInv'
  <2>1. ASSUME NEW v \in Videos, NEW k \in Lane
        PROVE  /\ Exists(v)' => Balanced(v, k)'
               /\ ~Exists(v)' => attempts'[v][k] = 0 /\ ended'[v][k] = 0
               /\ MayLose(v, k)' => faults' < MaxFaults
    <3>1. MayLose(v, k)' => faults' < MaxFaults
      BY <1>1, <1>2 DEF TriesInv, TriesBalance
    <3>2. ~Exists(v)' => attempts'[v][k] = 0 /\ ended'[v][k] = 0
      BY <1>4 DEF TriesInv, TriesBalance
    <3>3. One(Working(v, k)') = One(Working(v, k)) /\ One(MayLose(v, k)') = One(MayLose(v, k))
      BY <1>2 DEF One
    <3>4. ASSUME Exists(v)', Exists(v) PROVE Balanced(v, k)'
      <4>1. Balanced(v, k) /\ attempts'[v][k] = attempts[v][k] /\ ended'[v][k] = ended[v][k]
        BY <1>4, <3>4 DEF TriesInv, TriesBalance
      <4>2. /\ attempts[v][k] \in Nat /\ ended[v][k] \in Nat /\ faults \in Nat /\ MaxFaults \in Nat
            /\ faults' = faults
        BY <1>0, <1>1, LanesAssumption DEF TypeOK
      <4>3. One(Working(v, k)) \in {0, 1} /\ One(MayLose(v, k)) \in {0, 1}
        BY DEF One
      <4> QED
        BY <3>3, <4>1, <4>2, <4>3 DEF Balanced
    <3>5. ASSUME Exists(v)', ~Exists(v) PROVE Balanced(v, k)'
      <4>1. attempts'[v][k] = 0 /\ ended'[v][k] = 0 /\ ~Working(v, k)
        BY <1>4, <3>5 DEF TriesInv, TriesBalance
      <4>2. faults \in Nat /\ MaxFaults \in Nat /\ faults <= MaxFaults /\ (MayLose(v, k) => faults < MaxFaults)
        BY LanesAssumption, <1>0 DEF TypeOK, TriesInv, TriesBalance
      <4> QED
        BY <1>1, <3>3, <4>1, <4>2 DEF Balanced, One
    <3> QED
      BY <3>1, <3>2, <3>4, <3>5
  <2> QED
    BY <1>3, <2>1 DEF TriesInv, TriesBalance
<1>5. ASSUME UNCHANGED <<attempts, ended>>, SameVideos PROVE TriesInv'
  BY <1>4, <1>5 DEF SameVideos
<1>6. \A v \in Videos : Requeued(row[v]).status # "absent" /\ [row[v] EXCEPT !.status = "skipped"].status # "absent"
  BY <1>0 DEF Requeued, QueueStatusFor, Row
<1>7. ASSUME NEW ids \in SUBSET Videos,
             AnalyzeVideos(ids) \/ SkipVideos(ids) \/ ReanalyzeStale(ids)
      PROVE  TriesInv'
  BY <1>5, <1>6, <1>7 DEF AnalyzeVideos, SkipVideos, ReanalyzeStale, SameVideos, Loaded, Exists
<1>8. ASSUME NEW ids \in SUBSET Videos, NEW kind, RetryFailures(ids, kind) PROVE TriesInv'
  BY <1>5, <1>8 DEF RetryFailures, SameVideos, Exists
<1>9. CASE RequeueIds
  BY <1>5, <1>6, <1>9 DEF RequeueIds, SameVideos, Exists
<1>10. ASSUME NEW u \in Videos, DeleteChannel(u) PROVE TriesInv'
  <2>1. /\ row' = [row EXCEPT ![u] = AbsentRow]
        /\ attempts' = [attempts EXCEPT ![u] = NoAttempts] /\ ended' = [ended EXCEPT ![u] = NoAttempts]
    BY <1>10 DEF DeleteChannel
  <2>2. /\ ~Exists(u)' /\ \A k \in Lane : attempts'[u][k] = 0 /\ ended'[u][k] = 0
        /\ \A v \in Videos \ {u}, k \in Lane :
             (Exists(v)' <=> Exists(v)) /\ attempts'[v][k] = attempts[v][k] /\ ended'[v][k] = ended[v][k]
    BY <1>0, <2>1 DEF TypeOK, Exists, AbsentRow, NoAttempts
  <2> QED
    BY <1>4, <2>2
<1>11. ASSUME NEW u \in Videos, NEW st \in {"discovered", "pending", "skipped"}, Ingest(u, st)
       PROVE  TriesInv'
  <2>1. /\ ~Exists(u) /\ UNCHANGED <<attempts, ended>> /\ \A v \in Videos \ {u} : row'[v] = row[v]
        /\ \A k \in Lane : ~Working(u, k)
    BY <1>0, <1>11, LaneSlots DEF Ingest, TypeOK, Working
  <2> QED
    BY <1>4, <2>1 DEF Exists
<1>12. ASSUME NEW k \in Lane, PauseLane(k) \/ ResumeLane(k) PROVE TriesInv'
  BY <1>5, <1>12 DEF PauseLane, ResumeLane, SameVideos, Exists
<1> QED
  BY <1>7, <1>8, <1>9, <1>10, <1>11, <1>12 DEF Request

LEMMA TriesInit == ASSUME Init PROVE TriesInv
<1>1. /\ \A s \in Slots : slot[s] = IdleSlot /\ slot[s].cancel = FALSE /\ slot[s].pc = "idle"
      /\ \A l \in Lane : loop[l] = "down"
      /\ faults = MaxFaults /\ faults \in Nat
  BY LanesAssumption DEF Init, IdleSlot, SlotAt
<1>2. \A v \in Videos, l \in Lane : ~Working(v, l) /\ ~MayLose(v, l)
  BY <1>1, LaneSlots DEF Working, MayLose, TriedPc, HoldingPc
<1>3. \A v \in Videos, l \in Lane : attempts[v][l] = 0 /\ ended[v][l] = 0
  BY DEF Init, NoAttempts
<1>4. TriesBalance
  BY <1>1, <1>2, <1>3 DEF TriesBalance, Balanced, One
<1> QED
  BY <1>1, <1>4, LaneSlots DEF TriesInv, CancelledWhileStopping, DownHasNoTask

LEMMA TriesStep ==
  ASSUME ~LostAcks, ~ReAddInFlight, IInv, TypeOK', TriesInv, [Next]_vars
  PROVE  TriesInv'
<1>1. CASE UNCHANGED vars
  <2>1. SameVideos /\ UNCHANGED <<attempts, ended, loop, slot>> /\ faults' = faults - 0 /\ 0 \in {0, 1}
    BY <1>1 DEF vars, SameVideos, Exists, IInv, TypeOK
  <2>2. \A v \in Videos, k \in Lane : (Working(v, k)' <=> Working(v, k)) /\ (MayLose(v, k)' <=> MayLose(v, k))
    BY <2>1 DEF Working, MayLose, Holds
  <2>3. CancelledWhileStopping' /\ DownHasNoTask'
    BY <2>1 DEF TriesInv, CancelledWhileStopping, DownHasNoTask
  <2> QED
    BY <2>1, <2>2, <2>3, LaneBalances DEF IInv
<1>2. CASE Next
  BY <1>2, TaskTries, LaneTries, FaultTries, RequestTries, LanesAssumption DEF Next
<1> QED
  BY <1>1, <1>2

\* Every outcome and every try in flight has been counted, and what is counted beyond
\* them is at most the faults so far, whichever of them cancels or kills which tasks.
THEOREM AttemptsStayHonest ==
  ASSUME ~LostAcks, ~ReAddInFlight PROVE Spec => []AttemptsAreHonest
<1>1. Init => IInv /\ TriesInv
  BY IInvInit, TriesInit
<1>2. IInv /\ TriesInv /\ [Next]_vars => IInv' /\ TriesInv'
  BY IInvStep, TriesStep DEF IInv
<1>3. IInv /\ TriesInv => AttemptsAreHonest
  BY TriesAreHonest DEF IInv, ClaimsAreSound
<1> QED
  BY <1>1, <1>2, <1>3, PTL DEF Spec
=============================================================================
