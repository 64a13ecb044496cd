----------------------- MODULE ClassroomPipelineProofs -----------------------
(***************************************************************************)
(* Proofs about ClassroomPipeline, for every set of jobs, checkpoints,     *)
(* segments and request threads, and for every value of the bounds: the    *)
(* types, and the handover of the GPU.  Local model lifetimes are exclusive,*)
(* and dictation that has been granted the GPU has it alone.               *)
(*                                                                         *)
(* GpuHandedOver is not inductive: the step that grants the GPU relies on  *)
(* the busy event (GpuAnnounced), and the steps that clear the busy event  *)
(* rely on no other job being at the gate (LocalModelsExclusive, since only*)
(* local jobs go there).  The three are inductive together.                *)
(***************************************************************************)
EXTENDS ClassroomPipeline, FiniteSetTheorems, TLAPS

-----------------------------------------------------------------------------
(* The job state machine.                                                  *)

Rows == [Checkpoints -> CheckpointRow]

-----------------------------------------------------------------------------
\* Every non-empty set of naturals has a least element; first_incomplete and
\* queue.append are choices of such an element.
LEMMA LeastNatural ==
    ASSUME NEW S, S \subseteq Nat, S # {}
    PROVE  \E m \in S : \A n \in S : m <= n
<1> DEFINE R == StrictSubsetOrdering(Nat)
           F == FiniteSubsetsOf(Nat)
           T == {0..n : n \in S}
<1>1. IsWellFoundedOn(R, F)
  BY FS_StrictSubsetOrderingWellFounded
<1>2. T \subseteq F /\ T # {}
  <2>1. \A n \in S : 0..n \subseteq Nat /\ n \in Int
    OBVIOUS
  <2>2. \A n \in S : IsFiniteSet(0..n)
    BY <2>1, FS_Interval
  <2> QED BY <2>1, <2>2 DEF FiniteSubsetsOf
<1>3. PICK X \in T : \A Y \in T : ~ (<<Y, X>> \in R)
  <2> HIDE DEF R, F, T
  <2> QED BY <1>1, <1>2, WFMin
<1>4. PICK m \in S : X = 0..m
  OBVIOUS
<1>5. ASSUME NEW n \in S, n < m PROVE FALSE
  <2>1. 0..n \subseteq 0..m /\ m \notin 0..n /\ m \in 0..m
    BY <1>5
  <2>2. <<0..n, X>> \in R
    BY <1>4, <2>1 DEF StrictSubsetOrdering
  <2> QED BY <1>3, <2>2
<1> QED BY <1>5

\* The checkpoint that first_incomplete returns is incomplete, and no incomplete
\* checkpoint comes before it.
LEMMA FirstIncompleteIsLeast ==
    ASSUME NEW ck \in Rows, Incomplete(ck) # {}
    PROVE  /\ FirstIncomplete(ck) \in Incomplete(ck)
           /\ \A d \in Incomplete(ck) : FirstIncomplete(ck) <= d
<1>1. Incomplete(ck) \subseteq Nat
  BY CheckpointsAssumption DEF Incomplete, Existing
<1>2. \E c \in Incomplete(ck) : \A d \in Incomplete(ck) : c <= d
  BY <1>1, LeastNatural
<1> QED BY <1>2 DEF FirstIncomplete

-----------------------------------------------------------------------------
\* A fresh row is a row, and so is what each transition makes of one.
LEMMA RowTransitions ==
    ASSUME NEW row \in CheckpointRow, NEW s
    PROVE  /\ NewCheckpoint \in CheckpointRow
           /\ Begun(row) \in CheckpointRow
           /\ Interrupted(row) \in CheckpointRow
           /\ FailedRow(s, row) \in CheckpointRow
<1> USE DEF CheckpointRow, CheckpointStatus
<1>1. NewCheckpoint \in CheckpointRow
  BY MaxAttemptsAssumption DEF NewCheckpoint, NoCheckpoint
<1>2. Begun(row) \in CheckpointRow
  BY DEF Begun
<1>3. Interrupted(row) \in CheckpointRow
  BY DEF Interrupted
<1>4. FailedRow(s, row) \in CheckpointRow
  BY DEF FailedRow
<1> QED BY <1>1, <1>2, <1>3, <1>4

\* The operations on all the rows of a job return rows.
LEMMA RowsTransitions ==
    ASSUME NEW ck \in Rows, NEW s, NEW c, NEW ranks
    PROVE  /\ CreateCheckpoints(ck, ranks) \in Rows
           /\ CompletedRows(ck, c) \in Rows
           /\ RecoveredRows(s, ck) \in Rows
           /\ RecoveredCk(s, ck) \in Rows
<1>1. CreateCheckpoints(ck, ranks) \in Rows
  BY MaxAttemptsAssumption
     DEF CreateCheckpoints, NewCheckpoint, NoCheckpoint, CheckpointRow,
         CheckpointStatus, Rows
<1>2. CompletedRows(ck, c) \in Rows
  BY DEF CompletedRows, CheckpointRow, CheckpointStatus, Rows
<1>3. RecoveredRows(s, ck) \in Rows
  BY DEF RecoveredRows, CheckpointRow, CheckpointStatus, Rows
<1> QED BY <1>1, <1>2, <1>3 DEF RecoveredCk

\* A manual retry returns rows, given that there is one to retry.
LEMMA ManualRetryRows ==
    ASSUME NEW ck \in Rows, Incomplete(ck) # {}
    PROVE  ManualRetry(ck) \in Rows
<1>1. FirstIncomplete(ck) \in Checkpoints
  BY FirstIncompleteIsLeast DEF Incomplete, Existing
<1>2. ck[FirstIncomplete(ck)] \in CheckpointRow
  BY <1>1 DEF Rows
<1> QED BY <1>1, <1>2 DEF ManualRetry, CheckpointRow, CheckpointStatus, Rows

\* The status of a job stays a status.
LEMMA StatusTransitions ==
    ASSUME NEW S, JobStatus \subseteq S, NEW s \in S, NEW row, NEW ck
    PROVE  /\ CancelResult(s) \in JobStatus
           /\ FailedStatus(s, row) \in S
           /\ CompletedStatus(s, ck) \in S
           /\ RecoveredStatus(s, ck) \in S
BY DEF CancelResult, FailedStatus, CompletedStatus, RecoveredStatus, JobStatus

-----------------------------------------------------------------------------
(* The pipeline.                                                           *)

\* The operators of the pipeline keep to the types of the rows.
LEMMA PipelineRows ==
    ASSUME TypeOK, NEW j \in Jobs, NEW found
    PROVE  /\ ckpt[j] \in Rows
           /\ Initialized(j) \in Rows
           /\ CompletionRows(j, found) \in Rows
<1>1. ckpt[j] \in Rows
  BY DEF TypeOK, Rows
<1>2. Initialized(j) \in Rows
  BY <1>1, RowsTransitions DEF Initialized
<1>3. CompletionRows(j, found) \in Rows
  BY <1>1, RowsTransitions DEF CompletionRows
<1> QED BY <1>1, <1>2, <1>3

\* The queue order handed out is one above an order within the bound.
LEMMA NextOrderIsBounded ==
    ASSUME TypeOK, NextOrder <= MaxOrder
    PROVE  NextOrder \in 0..MaxOrder
<1> DEFINE Bounds == {m \in 0..MaxOrder : \A j \in Jobs : order[j] <= m}
           Highest(m) == /\ \A j \in Jobs : order[j] <= m
                         /\ m = 0 \/ \E j \in Jobs : order[j] = m
<1>1. MaxOrder \in Nat /\ \A j \in Jobs : order[j] \in 0..MaxOrder
  BY PipelineAssumption DEF TypeOK
<1>2. MaxOrder \in Bounds
  BY <1>1
<1>3. PICK m \in Bounds : \A n \in Bounds : m <= n
  <2>1. Bounds \subseteq Nat /\ Bounds # {}
    BY <1>1, <1>2
  <2> HIDE DEF Bounds
  <2> QED BY <2>1, LeastNatural
<1>4. Highest(m)
  <2> SUFFICES ASSUME m # 0, \A j \in Jobs : order[j] # m PROVE FALSE
    BY <1>3
  <2>1. m - 1 \in 0..MaxOrder /\ \A j \in Jobs : order[j] <= m - 1
    BY <1>1, <1>3
  <2> QED BY <1>1, <1>3, <2>1
<1>5. PICK n \in 0..MaxOrder : NextOrder = 1 + n
  <2>1. m \in 0..MaxOrder
    BY <1>3
  <2> QED BY <1>4, <2>1 DEF NextOrder
<1> QED BY <1>1, <1>5

\* StatusTransitions for a job that may not exist yet.
LEMMA StateTransitions ==
    ASSUME NEW s \in JobState, NEW row, NEW ck
    PROVE  /\ FailedStatus(s, row) \in JobState
           /\ CompletedStatus(s, ck) \in JobState
           /\ RecoveredStatus(s, ck) \in JobState
BY StatusTransitions DEF JobState

-----------------------------------------------------------------------------
\* The first start of the service is typed.
LEMMA TypeInitial == Init => TypeOK
<1> SUFFICES ASSUME Init PROVE TypeOK
  OBVIOUS
<1>1. ckpt \in [Jobs -> [Checkpoints -> CheckpointRow]]
  BY MaxAttemptsAssumption
     DEF Init, NoRows, NoCheckpoint, CheckpointRow, CheckpointStatus
<1>2. order \in [Jobs -> 0..MaxOrder] /\ faults \in 0..MaxFaults
  BY PipelineAssumption DEF Init
<1>3. /\ status \in [Jobs -> JobState] /\ pending \in [Jobs -> JobState]
      /\ pc \in [Jobs -> PCs]
      /\ ctl \in [Callers -> [job : Jobs \cup {NoJob}, write : JobStatus]]
  BY DEF Init, JobState, JobStatus, PCs, Idle
<1> QED BY <1>1, <1>2, <1>3 DEF Init, TypeOK, LoopFree

\* The moves of an executor thread that most of its steps share.
LEMMA GotoTyped ==
    ASSUME TypeOK, NEW j \in Jobs, NEW label \in PCs, Goto(j, label)
    PROVE  pc' \in [Jobs -> PCs]
BY DEF TypeOK, Goto

LEMMA CommitLaterTyped ==
    ASSUME TypeOK, NEW j \in Jobs, NEW s \in JobState,
           NEW label \in {"next", "begin", "closing"}, CommitLater(j, s, label)
    PROVE  /\ pc' \in [Jobs -> PCs]
           /\ pending' \in [Jobs -> JobState]
           /\ after' \in [Jobs -> {"next", "begin", "closing"}]
<1>1. pc' \in [Jobs -> PCs]
  BY GotoTyped DEF CommitLater, PCs
<1> QED BY <1>1 DEF TypeOK, CommitLater

\* The steps of an executor thread.
LEMMA ExecutorTyped ==
    ASSUME TypeOK, NEW j \in Jobs,
           ExecutorStep(j) \/ EnterGate(j) \/ WriteLost(j) \/ ExecutionFails(j)
    PROVE  TypeOK'
<1> DEFINE Thread == /\ pc' \in [Jobs -> PCs]
                      /\ pending' \in [Jobs -> JobState]
                      /\ after' \in [Jobs -> {"next", "begin", "closing"}]
<1> USE DEF TypeOK, db, flags, tasks, threads, gpu, outside
<1>1. CASE InitializeJob(j)
  <2>1. pc' \in [Jobs -> PCs]
    BY <1>1, GotoTyped DEF InitializeJob, PCs
  <2>2. ckpt' \in [Jobs -> [Checkpoints -> CheckpointRow]]
    BY <1>1, PipelineRows DEF InitializeJob, Rows
  <2> QED BY <1>1, <2>1, <2>2 DEF InitializeJob
<1>2. CASE Claim(j)
  <2>1. Thread
    BY <1>2, GotoTyped, CommitLaterTyped DEF Claim, PCs, JobState, JobStatus
  <2> QED BY <1>2, <2>1 DEF Claim
<1>3. CASE NextEnded(j)
  <2>1. Thread
    BY <1>3, GotoTyped, CommitLaterTyped DEF NextEnded, PCs, JobState, JobStatus
  <2> QED BY <1>3, <2>1 DEF NextEnded
<1>4. CASE NextYields(j)
  <2>1. Thread
    BY <1>4, GotoTyped, CommitLaterTyped DEF NextYields, PCs, JobState, JobStatus
  <2> QED BY <1>4, <2>1 DEF NextYields
<1>5. CASE NextPreempted(j)
  <2>1. Thread
    BY <1>5, GotoTyped, CommitLaterTyped DEF NextPreempted, PCs, JobState, JobStatus
  <2> QED BY <1>5, <2>1 DEF NextPreempted
<1>6. CASE Preempt(j)
  <2>1. Thread
    BY <1>6, GotoTyped, CommitLaterTyped DEF Preempt, PCs, JobState, JobStatus
  <2> QED BY <1>6, <2>1 DEF Preempt
<1>7. CASE NextCheckpoint(j)
  <2>1. Thread
    BY <1>7, GotoTyped, CommitLaterTyped DEF NextCheckpoint, PCs, JobState, JobStatus
  <2>3. Incomplete(ckpt[j]) # {} => FirstIncomplete(ckpt[j]) \in Checkpoints
    BY PipelineRows, FirstIncompleteIsLeast DEF Incomplete, Existing
  <2>4. cur' \in [Jobs -> Checkpoints \cup {0}]
    BY <1>7, <2>3 DEF NextCheckpoint
  <2>5. UNCHANGED <<db, flags, gpu, pausedBy, outside>>
    BY <1>7 DEF NextCheckpoint
  <2> QED BY <2>1, <2>4, <2>5
<1>8. CASE CommitStatus(j)
  <2>1. after[j] \in PCs
    BY DEF PCs
  <2>2. pc' \in [Jobs -> PCs]
    BY <1>8, <2>1, GotoTyped DEF CommitStatus
  <2>3. status' \in [Jobs -> JobState] /\ pausedBy' \in [Jobs -> {"nobody", "user", "ibus"}]
    BY <1>8 DEF CommitStatus
  <2> QED BY <1>8, <2>2, <2>3 DEF CommitStatus
<1>9. CASE Begin(j)
  <2>1. ASSUME cur[j] \in Checkpoints PROVE Begun(Armed(j)) \in CheckpointRow
    <3>1. ckpt[j][cur[j]] \in CheckpointRow
      BY <2>1
    <3>2. Armed(j) \in CheckpointRow
      BY <3>1 DEF Armed, CheckpointRow
    <3> QED BY <3>2, RowTransitions
  <2>2. ckpt' \in [Jobs -> [Checkpoints -> CheckpointRow]]
    <3> DEFINE new == [ckpt[j] EXCEPT ![cur[j]] = Begun(Armed(j))]
    <3>1. ckpt' = ckpt \/ ckpt' = [ckpt EXCEPT ![j] = new]
      BY <1>9 DEF Begin
    <3>2. new \in [Checkpoints -> CheckpointRow]
      <4>1. ckpt[j] \in [Checkpoints -> CheckpointRow]
        OBVIOUS
      <4>2. CASE cur[j] \in Checkpoints
        BY <2>1, <4>1, <4>2
      <4>3. CASE cur[j] \notin Checkpoints
        BY <4>1, <4>3
      <4> QED BY <4>2, <4>3
    <3> HIDE DEF new
    <3> QED BY <3>1, <3>2
  <2>3. pc' \in [Jobs -> PCs]
    BY <1>9, GotoTyped DEF Begin, PCs
  <2> QED BY <1>9, <2>2, <2>3 DEF Begin
<1>10. CASE PassGate(j)
  <2>1. pc' \in [Jobs -> PCs]
    BY <1>10, GotoTyped DEF PassGate, PCs
  <2> QED BY <1>10, <2>1 DEF PassGate
<1>11. CASE TurnedAway(j)
  <2>1. pc' \in [Jobs -> PCs]
    BY <1>11, GotoTyped DEF TurnedAway, PCs
  <2> QED BY <1>11, <2>1 DEF TurnedAway
<1>12. CASE LeaveGpu(j)
  <2>1. pc' \in [Jobs -> PCs]
    BY <1>12, GotoTyped DEF LeaveGpu, PCs
  <2> QED BY <1>12, <2>1 DEF LeaveGpu
<1>13. CASE GpuFails(j)
  <2>1. pc' \in [Jobs -> PCs]
    BY <1>13, GotoTyped DEF GpuFails, PCs
  <2>2. gpuSession' \in Jobs \cup {NoJob} /\ gpuBusy' \in BOOLEAN
    BY <1>13 DEF GpuFails
  <2>3. UNCHANGED <<db, flags, cur, pending, after, pausedBy, outside>>
    BY <1>13 DEF GpuFails
  <2> QED BY <2>1, <2>2, <2>3
<1>14. CASE YieldAtBoundary(j)
  <2>1. pc' \in [Jobs -> PCs]
    BY <1>14, GotoTyped DEF YieldAtBoundary, PCs
  <2> QED BY <1>14, <2>1 DEF YieldAtBoundary
<1>15. CASE GiveBackAttempt(j)
  <2>1. ASSUME cur[j] \in Checkpoints PROVE Interrupted(ckpt[j][cur[j]]) \in CheckpointRow
    <3>1. ckpt[j][cur[j]] \in CheckpointRow
      BY <2>1
    <3> QED BY <3>1, RowTransitions
  <2>2. ckpt' \in [Jobs -> [Checkpoints -> CheckpointRow]]
    BY <1>15, <2>1 DEF GiveBackAttempt
  <2>3. pc' \in [Jobs -> PCs]
    BY <1>15, GotoTyped DEF GiveBackAttempt, PCs
  <2> QED BY <1>15, <2>2, <2>3 DEF GiveBackAttempt
<1>16. CASE OperationFails(j)
  <2>1. pc' \in [Jobs -> PCs]
    BY <1>16, GotoTyped DEF OperationFails, PCs
  <2> QED BY <1>16, <2>1 DEF OperationFails
<1>17. CASE ReadFailure(j)
  BY <1>17 DEF ReadFailure, Goto, PCs, JobState, JobStatus
<1>18. CASE CommitFailure(j)
  <2> DEFINE row == ckpt[j][cur[j]]
  <2>1. ASSUME cur[j] \in Checkpoints PROVE FailedRow(pending[j], row) \in CheckpointRow
    <3>1. row \in CheckpointRow
      BY <2>1
    <3> QED BY <3>1, RowTransitions
  <2>2. FailedStatus(pending[j], row) \in JobState
    BY StateTransitions
  <2>3. ckpt' \in [Jobs -> [Checkpoints -> CheckpointRow]]
    BY <1>18, <2>1 DEF CommitFailure
  <2>4. pc' \in [Jobs -> PCs]
    BY <1>18, GotoTyped DEF CommitFailure, PCs
  <2> QED BY <1>18, <2>2, <2>3, <2>4 DEF CommitFailure
<1>19. CASE Complete(j)
  <2>1. PICK found \in SUBSET Segments :
           /\ ckpt' = [ckpt EXCEPT ![j] = CompletionRows(j, found)]
           /\ status' = [status EXCEPT ![j] = CompletionStatus(j, found)]
           /\ pc' = [pc EXCEPT ![j] = IF CompletionStatus(j, found) \in TerminalStatus
                                     THEN "closing" ELSE "next"]
    BY <1>19 DEF Complete, Goto
  <2>2. CompletionRows(j, found) \in Rows
    BY PipelineRows
  <2>3. CompletionStatus(j, found) \in JobState
    BY StateTransitions DEF CompletionStatus
  <2>4. ckpt' \in [Jobs -> [Checkpoints -> CheckpointRow]]
    BY <2>1, <2>2 DEF Rows
  <2> QED BY <1>19, <2>1, <2>3, <2>4 DEF Complete, Goto, PCs
<1>20. CASE Close(j)
  <2>1. pc' \in [Jobs -> PCs]
    BY <1>20, GotoTyped DEF Close, PCs
  <2> QED BY <1>20, <2>1 DEF Close
<1>21. CASE EnterGate(j)
  <2>1. pc' \in [Jobs -> PCs]
    BY <1>21, GotoTyped DEF EnterGate, PCs
  <2> QED BY <1>21, <2>1 DEF EnterGate
<1>22. CASE ExecutionFails(j)
  BY <1>22, PipelineAssumption DEF ExecutionFails, Goto, PCs, JobState, JobStatus
<1>23. CASE WriteLost(j)
  <2>1. pc' \in [Jobs -> PCs]
    BY <1>23, GotoTyped DEF WriteLost, PCs
  <2> QED BY <1>23, <2>1, PipelineAssumption DEF WriteLost
<1> QED
  BY <1>1, <1>2, <1>3, <1>4, <1>5, <1>6, <1>7, <1>8, <1>9, <1>10, <1>11, <1>12, <1>13, <1>14, <1>15, <1>16, <1>17, <1>18, <1>19, <1>20, <1>21, <1>22, <1>23 DEF ExecutorStep

\* Scheduling the dispatcher touches its own state only.
LEMMA ScheduleTyped ==
    ASSUME TypeOK, Schedule
    PROVE  dispatcher' \in {"off", "start", "turn", "wait"} /\ wakeup' \in BOOLEAN
BY DEF TypeOK, Schedule, tasks

\* A job that is queued again.
LEMMA RequeueTyped ==
    ASSUME TypeOK, NEW j \in Jobs, Requeue(j)
    PROVE  /\ status' \in [Jobs -> JobState]
           /\ order' \in [Jobs -> 0..MaxOrder]
           /\ pausedBy' \in [Jobs -> {"nobody", "user", "ibus"}]
           /\ dispatcher' \in {"off", "start", "turn", "wait"}
           /\ wakeup' \in BOOLEAN
<1>1. dispatcher' \in {"off", "start", "turn", "wait"} /\ wakeup' \in BOOLEAN
  BY ScheduleTyped DEF Requeue
<1>2. order' \in [Jobs -> 0..MaxOrder]
  BY NextOrderIsBounded DEF Requeue, TypeOK
<1> QED BY <1>1, <1>2 DEF Requeue, TypeOK, JobState, JobStatus

\* The turns of the dispatcher.
LEMMA DispatcherTyped ==
    ASSUME TypeOK,
           DispatcherTurn \/ DispatcherSettles \/ \E j \in Jobs : Launch(j)
    PROVE  TypeOK'
<1> USE DEF TypeOK, db, flags, tasks, threads, gpu
<1>1. CASE DispatcherTurn
  BY <1>1 DEF DispatcherTurn, PCs
<1>2. CASE DispatcherSettles
  BY <1>2 DEF DispatcherSettles
<1>3. ASSUME NEW j \in Jobs, Launch(j) PROVE TypeOK'
  <2>1. pc' \in [Jobs -> PCs]
    BY <1>3, GotoTyped DEF Launch, PCs
  <2> QED BY <1>3, <2>1 DEF Launch
<1> QED BY <1>1, <1>2, <1>3

\* The requests of the user.
LEMMA ControlsTyped ==
    ASSUME TypeOK,
           \/ \E k \in Callers, j \in Jobs : Pause(k, j) \/ Cancel(k, j)
           \/ \E k \in Callers : CommitControl(k)
           \/ Reorder \/ FinishSubmit
           \/ \E j \in Jobs : Submit(j) \/ Resume(j) \/ Retry(j)
           \/ \E j \in Jobs, s \in Segments : RetrySegment(j, s)
           \/ \E paused \in BOOLEAN : ControlQueue(paused)
    PROVE  TypeOK'
<1> USE DEF TypeOK, db, flags, tasks, threads, gpu
<1>1. ASSUME NEW k \in Callers, NEW j \in Jobs, Pause(k, j) PROVE TypeOK'
  BY <1>1 DEF Pause, JobStatus
<1>2. ASSUME NEW k \in Callers, NEW j \in Jobs, Cancel(k, j) PROVE TypeOK'
  <2>1. CancelResult(status[j]) \in JobStatus
    BY DEF CancelResult, JobStatus
  <2> QED BY <1>2, <2>1 DEF Cancel
<1>3. ASSUME NEW k \in Callers, CommitControl(k) PROVE TypeOK'
  <2>1. ctl' \in [Callers -> [job : Jobs \cup {NoJob}, write : JobStatus]]
    BY <1>3 DEF CommitControl, Idle, JobStatus
  <2>2. /\ status' \in [Jobs -> JobState]
        /\ pausedBy' \in [Jobs -> {"nobody", "user", "ibus"}]
    BY <1>3 DEF CommitControl, JobState
  <2> QED BY <1>3, <2>1, <2>2 DEF CommitControl
<1>4. CASE Reorder
  BY <1>4 DEF Reorder
<1>5. CASE FinishSubmit
  <2>1. ckpt' \in [Jobs -> [Checkpoints -> CheckpointRow]]
    <3>1. CASE loop.job \in Jobs
      BY <1>5, <3>1, PipelineRows DEF FinishSubmit, Rows
    <3>2. CASE loop.job \notin Jobs
      BY <1>5, <3>2 DEF FinishSubmit
    <3> QED BY <3>1, <3>2
  <2>2. dispatcher' \in {"off", "start", "turn", "wait"} /\ wakeup' \in BOOLEAN
    BY <1>5, ScheduleTyped DEF FinishSubmit
  <2> QED BY <1>5, <2>1, <2>2 DEF FinishSubmit, LoopFree
<1>6. ASSUME NEW j \in Jobs, Submit(j) PROVE TypeOK'
  <2>1. order' \in [Jobs -> 0..MaxOrder]
    BY <1>6, NextOrderIsBounded DEF Submit
  <2> QED BY <1>6, <2>1 DEF Submit, LoopFree, JobState, JobStatus
<1>7. ASSUME NEW j \in Jobs, Resume(j) PROVE TypeOK'
  BY <1>7, RequeueTyped DEF Resume
<1>8. ASSUME NEW j \in Jobs, Retry(j) PROVE TypeOK'
  <2>1. CASE /\ Schedule
             /\ UNCHANGED <<status, ckpt, order, pausedBy>>
    BY <1>8, <2>1, ScheduleTyped DEF Retry
  <2>2. CASE /\ Incomplete(ckpt[j]) # {}
             /\ ckpt' = [ckpt EXCEPT ![j] = ManualRetry(@)]
             /\ Requeue(j)
    <3>1. ManualRetry(ckpt[j]) \in Rows
      BY <2>2, PipelineRows, ManualRetryRows
    <3> QED BY <1>8, <2>2, <3>1, RequeueTyped DEF Retry, Rows
  <2> QED BY <1>8, <2>1, <2>2 DEF Retry
<1>9. ASSUME NEW j \in Jobs, NEW s \in Segments, RetrySegment(j, s) PROVE TypeOK'
  <2>1. \A c \in Checkpoints : Reset(ckpt[j][c]) \in CheckpointRow
    BY DEF Reset, CheckpointRow, CheckpointStatus
  <2>2. ckpt' \in [Jobs -> [Checkpoints -> CheckpointRow]]
    BY <1>9, <2>1 DEF RetrySegment
  <2> QED BY <1>9, <2>2, RequeueTyped DEF RetrySegment
<1>10. ASSUME NEW paused \in BOOLEAN, ControlQueue(paused) PROVE TypeOK'
  BY <1>10, ScheduleTyped DEF ControlQueue
<1> QED BY <1>1, <1>2, <1>3, <1>4, <1>5, <1>6, <1>7, <1>8, <1>9, <1>10

\* The handover to dictation, shutdown and restart.
LEMMA ServiceTyped ==
    ASSUME TypeOK,
           \/ ArmDictation \/ DictationReady \/ EndDictation
           \/ \E j \in Jobs : PickPreempted(j)
           \/ ResumePreempted \/ PreemptedResumed
           \/ BeginShutdown \/ Restart
    PROVE  TypeOK'
<1> USE DEF TypeOK, db, flags, tasks, threads, gpu
<1>1. CASE ArmDictation
  BY <1>1 DEF ArmDictation
<1>2. CASE DictationReady
  BY <1>2 DEF DictationReady
<1>3. CASE EndDictation
  BY <1>3 DEF EndDictation, LoopFree
<1>4. ASSUME NEW j \in Jobs, PickPreempted(j) PROVE TypeOK'
  <2>1. dispatcher' \in {"off", "start", "turn", "wait"} /\ wakeup' \in BOOLEAN
    BY <1>4, ScheduleTyped DEF PickPreempted
  <2>2. loop' \in [at : {"free", "submit", "pick", "write"},
                   job : Jobs \cup {NoJob}, todo : SUBSET Jobs]
    <3>1. loop \in [at : {"free", "submit", "pick", "write"},
                    job : Jobs \cup {NoJob}, todo : SUBSET Jobs]
      OBVIOUS
    <3>2. \/ loop' = [at |-> "write", job |-> j, todo |-> loop.todo \ {j}]
          \/ loop' = [loop EXCEPT !.todo = @ \ {j}]
      BY <1>4 DEF PickPreempted
    <3> QED BY <3>1, <3>2
  <2>3. UNCHANGED <<db, flags, shuttingDown, threads, gpu, ctl, dictation, pausedBy, lost,
                    faults>>
    BY <1>4 DEF PickPreempted
  <2> QED BY <2>1, <2>2, <2>3
<1>5. CASE ResumePreempted
  <2>1. dispatcher' \in {"off", "start", "turn", "wait"} /\ wakeup' \in BOOLEAN
    BY <1>5, ScheduleTyped DEF ResumePreempted
  <2>2. "pending" \in JobState
    BY DEF JobState, JobStatus
  <2> QED BY <1>5, <2>1, <2>2 DEF ResumePreempted
<1>6. CASE PreemptedResumed
  BY <1>6, ScheduleTyped DEF PreemptedResumed, LoopFree
<1>7. CASE BeginShutdown
  BY <1>7 DEF BeginShutdown
<1>8. CASE Restart
  <2> DEFINE rows(j) == IF status[j] = "pending" THEN Initialized(j) ELSE ckpt[j]
  <2>1. /\ ckpt' = [j \in Jobs |-> RecoveredCk(status[j], rows(j))]
        /\ status' = [j \in Jobs |-> RecoveredStatus(status[j], rows(j))]
    BY <1>8 DEF Restart
  <2>2. \A j \in Jobs : rows(j) \in Rows
    BY PipelineRows
  <2>3. ckpt' \in [Jobs -> [Checkpoints -> CheckpointRow]]
    <3>1. \A j \in Jobs : RecoveredCk(status[j], rows(j)) \in Rows
      <4> HIDE DEF rows
      <4> QED BY <2>2, RowsTransitions
    <3> HIDE DEF rows
    <3> QED BY <2>1, <3>1 DEF Rows
  <2>4. status' \in [Jobs -> JobState]
    <3>1. \A j \in Jobs : RecoveredStatus(status[j], rows(j)) \in JobState
      <4> HIDE DEF rows
      <4> QED BY StateTransitions
    <3> HIDE DEF rows
    <3> QED BY <2>1, <3>1
  <2>5. dispatcher' \in {"off", "start", "turn", "wait"} /\ faults' \in 0..MaxFaults
    BY <1>8, PipelineAssumption DEF Restart
  <2>6. /\ pc' \in [Jobs -> PCs] /\ pending' \in [Jobs -> JobState]
        /\ ctl' \in [Callers -> [job : Jobs \cup {NoJob}, write : JobStatus]]
    BY <1>8 DEF Restart, PCs, JobState, JobStatus, Idle
  <2> QED BY <1>8, <2>3, <2>4, <2>5, <2>6 DEF Restart, LoopFree
<1> QED BY <1>1, <1>2, <1>3, <1>4, <1>5, <1>6, <1>7, <1>8

\* The job the dispatcher takes is one it may take.
LEMMA FirstInQueueIsDispatchable ==
    ASSUME TypeOK, Dispatchable # {}
    PROVE  FirstInQueue \in Dispatchable
<1> DEFINE Orders == {order[j] : j \in Dispatchable}
<1>1. Orders \subseteq Nat /\ Orders # {}
  <2>1. \A j \in Dispatchable : order[j] \in 0..MaxOrder
    BY DEF TypeOK, Dispatchable
  <2>2. 0..MaxOrder \subseteq Nat
    BY PipelineAssumption
  <2> QED BY <2>1, <2>2
<1>2. \E m \in Orders : \A n \in Orders : m <= n
  <2> HIDE DEF Orders
  <2> QED BY <1>1, LeastNatural
<1>3. \E j \in Dispatchable : \A k \in Dispatchable : order[j] <= order[k]
  BY <1>2
<1> QED BY <1>3 DEF FirstInQueue

\* An executor step is a move of a job that has an executor and keeps it.
LEMMA ExecutorMoves ==
    ASSUME TypeOK, NEW j \in Jobs,
           ExecutorStep(j) \/ EnterGate(j) \/ WriteLost(j) \/ ExecutionFails(j)
    PROVE  /\ pc[j] # "idle"
           /\ \E label \in PCs \ {"idle"} : pc' = [pc EXCEPT ![j] = label]
           /\ UNCHANGED <<blockAll, dictation>>
<1> DEFINE Move == /\ pc[j] # "idle"
                   /\ \E label \in PCs \ {"idle"} : pc' = [pc EXCEPT ![j] = label]
                   /\ UNCHANGED <<blockAll, dictation>>
<1> USE DEF Goto, PCs, flags, outside
<1>1. CASE InitializeJob(j) \/ Claim(j) \/ NextEnded(j) \/ NextYields(j)
  BY <1>1 DEF InitializeJob, Claim, NextEnded, NextYields, Live, CommitLater
<1>2. CASE NextPreempted(j) \/ Preempt(j) \/ NextCheckpoint(j)
  BY <1>2 DEF NextPreempted, Preempt, NextCheckpoint, Live, CommitLater
<1>3. CASE CommitStatus(j)
  BY <1>3 DEF CommitStatus, TypeOK
<1>4. CASE Begin(j) \/ PassGate(j) \/ TurnedAway(j) \/ LeaveGpu(j) \/ GpuFails(j)
  BY <1>4 DEF Begin, PassGate, TurnedAway, LeaveGpu, GpuFails
<1>5. CASE YieldAtBoundary(j) \/ GiveBackAttempt(j) \/ OperationFails(j) \/ ReadFailure(j)
  BY <1>5 DEF YieldAtBoundary, GiveBackAttempt, OperationFails, ReadFailure
<1>6. CASE CommitFailure(j) \/ Close(j) \/ EnterGate(j) \/ WriteLost(j) \/ ExecutionFails(j)
  BY <1>6 DEF CommitFailure, Close, EnterGate, WriteLost, ExecutionFails
<1>7. CASE Complete(j)
  BY <1>7 DEF Complete
<1> QED BY <1>1, <1>2, <1>3, <1>4, <1>5, <1>6, <1>7 DEF ExecutorStep

\* Every step keeps the types.
LEMMA TypePreserved == TypeOK /\ [Next]_vars => TypeOK'
<1>1. TypeOK /\ UNCHANGED vars => TypeOK'
  BY DEF TypeOK, vars, db, flags, tasks, threads, gpu
<1>2. TypeOK /\ Next => TypeOK'
  BY ExecutorTyped, DispatcherTyped, ControlsTyped, ServiceTyped DEF Next
<1> QED BY <1>1, <1>2

\* Type correctness of the queue: in every reachable state of every instance
\* the rows, the flags, the threads and the requests keep to their types.
THEOREM TypeCorrect == Spec => []TypeOK
BY TypeInitial, TypePreserved, PTL DEF Spec

-----------------------------------------------------------------------------
(* The handover of the GPU.                                                 *)

IInv == TypeOK /\ LocalModelsExclusive /\ GpuAnnounced /\ GpuHandedOver

-----------------------------------------------------------------------------
\* Exclusion only looks at the jobs that have an executor.
LEMMA FewerRunning ==
    ASSUME TypeOK, LocalModelsExclusive, RunningJobs' \subseteq RunningJobs
    PROVE  LocalModelsExclusive'
<1>1. IsFiniteSet(RunningJobs)
  BY PipelineAssumption, FS_Subset DEF RunningJobs
<1>2. /\ Cardinality(RunningJobs') \in Nat /\ Cardinality(RunningJobs) \in Nat
      /\ Cardinality(RunningJobs') <= Cardinality(RunningJobs)
  <2> DEFINE R == RunningJobs'
  <2>1. R \subseteq RunningJobs
    OBVIOUS
  <2> HIDE DEF R
  <2>2. /\ IsFiniteSet(R) /\ Cardinality(R) <= Cardinality(RunningJobs)
    BY <1>1, <2>1, FS_Subset
  <2>3. Cardinality(R) \in Nat /\ Cardinality(RunningJobs) \in Nat
    BY <1>1, <2>2, FS_CardinalityType
  <2> QED BY <2>2, <2>3 DEF R
<1>3. Cardinality(RunningJobs') <= MaxConcurrent
  BY <1>2, PipelineAssumption DEF LocalModelsExclusive
<1> QED BY <1>3 DEF LocalModelsExclusive

\* At most one job is at the GPU, because only local jobs go there.
LEMMA AloneAtTheGpu ==
    ASSUME IInv, NEW j \in Jobs, j \notin Online, pc[j] # "idle",
           NEW k \in Jobs, pc[k] \in {"gate", "gpu"}
    PROVE  k = j
BY DEF IInv, LocalModelsExclusive, GpuAnnounced, RunningJobs

\* Moves that neither enter nor leave the GPU state alone keep the handover.
LEMMA OtherMoves ==
    ASSUME IInv, NEW j \in Jobs, NEW label \in PCs \ {"idle", "gate", "gpu"},
           pc' = [pc EXCEPT ![j] = label], UNCHANGED <<gpu, blockAll, dictation>>
    PROVE  GpuAnnounced' /\ GpuHandedOver'
BY DEF IInv, TypeOK, GpuAnnounced, GpuHandedOver, gpu

-----------------------------------------------------------------------------
\* Every step of an executor thread keeps the invariant.
LEMMA ExecutorHandover ==
    ASSUME IInv, NEW j \in Jobs,
           ExecutorStep(j) \/ EnterGate(j) \/ WriteLost(j) \/ ExecutionFails(j)
    PROVE  GpuAnnounced' /\ GpuHandedOver'
<1> DEFINE Other == /\ \E label \in PCs \ {"idle", "gate", "gpu"} :
                            pc' = [pc EXCEPT ![j] = label]
                    /\ UNCHANGED gpu
<1>0. ASSUME Other PROVE GpuAnnounced' /\ GpuHandedOver'
  BY <1>0, OtherMoves, ExecutorMoves DEF IInv
<1>1. CASE InitializeJob(j) \/ Claim(j) \/ NextEnded(j) \/ NextYields(j)
  <2>1. Other
    BY <1>1 DEF InitializeJob, Claim, NextEnded, NextYields, Live, CommitLater, Goto, PCs
  <2> QED BY <2>1, <1>0
<1>2. CASE NextPreempted(j) \/ Preempt(j) \/ NextCheckpoint(j)
  <2>1. Other
    BY <1>2 DEF NextPreempted, Preempt, NextCheckpoint, Live, CommitLater, Goto, PCs
  <2> QED BY <2>1, <1>0
<1>3. CASE CommitStatus(j)
  <2>1. Other
    BY <1>3 DEF CommitStatus, IInv, TypeOK, Goto, PCs
  <2> QED BY <2>1, <1>0
<1>4. CASE Begin(j) \/ LeaveGpu(j) \/ YieldAtBoundary(j) \/ GiveBackAttempt(j)
  <2>1. Other
    BY <1>4 DEF Begin, LeaveGpu, YieldAtBoundary, GiveBackAttempt, Goto, PCs
  <2> QED BY <2>1, <1>0
<1>5. CASE OperationFails(j) \/ ReadFailure(j) \/ CommitFailure(j) \/ Complete(j) \/ WriteLost(j)
  <2>1. Other
    BY <1>5 DEF OperationFails, ReadFailure, CommitFailure, Complete, WriteLost, Goto, PCs
  <2> QED BY <2>1, <1>0
<1>6. CASE EnterGate(j)
  BY <1>6 DEF EnterGate, Goto, outside, flags, IInv, TypeOK, GpuAnnounced, GpuHandedOver
<1>7. CASE PassGate(j)
  BY <1>7 DEF PassGate, Goto, Boundary, outside, flags, IInv, TypeOK, GpuAnnounced,
              GpuHandedOver
<1>8. CASE TurnedAway(j)
  <2>1. /\ pc[j] = "gate" /\ j \notin Online
        /\ pc' = [pc EXCEPT ![j] = "yield"] \/ pc' = [pc EXCEPT ![j] = "op"]
    BY <1>8 DEF TurnedAway, Goto, IInv, GpuAnnounced
  <2>2. ASSUME NEW k \in Jobs PROVE pc'[k] \notin {"gate", "gpu"}
    <3>1. CASE k = j
      BY <2>1, <3>1 DEF IInv, TypeOK
    <3>2. CASE k # j
      <4>1. pc'[k] = pc[k]
        BY <2>1, <3>2 DEF IInv, TypeOK
      <4>2. pc[k] \notin {"gate", "gpu"}
        BY <2>1, <3>2, AloneAtTheGpu
      <4> QED BY <4>1, <4>2
    <3> QED BY <3>1, <3>2
  <2> QED BY <1>8, <2>2 DEF TurnedAway, outside, flags, IInv, GpuAnnounced, GpuHandedOver
<1>9. CASE GpuFails(j)
  <2>1. pc[j] = "gpu" /\ pc' = [pc EXCEPT ![j] = "fail"] /\ j \notin Online
    BY <1>9 DEF GpuFails, Goto, IInv, GpuAnnounced
  <2>2. \A k \in Jobs : pc'[k] \notin {"gate", "gpu"}
    BY <2>1, AloneAtTheGpu DEF IInv, TypeOK
  <2> QED BY <1>9, <2>2 DEF GpuFails, outside, flags, IInv, GpuAnnounced, GpuHandedOver
<1>10. CASE Close(j) \/ ExecutionFails(j)
  <2>1. /\ pc' = [pc EXCEPT ![j] = "done"]
        /\ gpuSession' = IF gpuSession = j THEN NoJob ELSE gpuSession
        /\ gpuBusy' = (gpuSession' # NoJob \/ \E k \in Jobs : pc[k] \in {"gate", "gpu"})
        /\ UNCHANGED <<blockAll, dictation>>
    BY <1>10 DEF Close, ExecutionFails, Goto, outside, flags
  <2>2. \A k \in Jobs : pc'[k] \in {"gate", "gpu"} => pc[k] = pc'[k]
    BY <2>1 DEF IInv, TypeOK
  <2>3. GpuAnnounced'
    BY <2>1, <2>2 DEF IInv, GpuAnnounced
  <2>4. GpuHandedOver'
    BY <2>1, <2>2 DEF IInv, GpuHandedOver
  <2> QED BY <2>3, <2>4
<1> QED
  BY <1>1, <1>2, <1>3, <1>4, <1>5, <1>6, <1>7, <1>8, <1>9, <1>10 DEF ExecutorStep

\* The dispatcher launches a job beside others only if all of them are online.
LEMMA LaunchExclusive ==
    ASSUME IInv, NEW j \in Jobs, Launch(j)
    PROVE  LocalModelsExclusive'
<1>1. /\ RunningJobs \subseteq Online /\ Cardinality(RunningJobs) < MaxConcurrent
      /\ j \in Dispatchable
      /\ RunningJobs = {} \/ j \in Online
  BY FirstInQueueIsDispatchable DEF Launch, CanLaunch, IInv
<1>2. RunningJobs' = RunningJobs \cup {j} /\ j \notin RunningJobs
  BY <1>1 DEF Launch, Goto, RunningJobs, Dispatchable, IInv, TypeOK
<1>3. IsFiniteSet(RunningJobs)
  BY PipelineAssumption, FS_Subset DEF RunningJobs
<1>4. Cardinality(RunningJobs \cup {j}) = Cardinality(RunningJobs) + 1
  BY <1>2, <1>3, FS_AddElement
<1>5. Cardinality(RunningJobs) \in Nat
  BY <1>3, FS_CardinalityType
<1>6. Cardinality(RunningJobs') <= MaxConcurrent
  BY <1>1, <1>2, <1>4, <1>5, PipelineAssumption
<1>7. \A i, k \in Jobs : i # k /\ {i, k} \subseteq RunningJobs' => {i, k} \subseteq Online
  BY <1>1, <1>2
<1> QED BY <1>6, <1>7 DEF LocalModelsExclusive

\* Every step keeps the invariant.
LEMMA HandoverStep == IInv /\ [Next]_vars => IInv'
<1> SUFFICES ASSUME IInv, [Next]_vars
             PROVE  LocalModelsExclusive' /\ GpuAnnounced' /\ GpuHandedOver'
  BY TypePreserved DEF IInv
<1> USE DEF IInv
<1>1. ASSUME NEW j \in Jobs, ExecutorStep(j) \/ EnterGate(j) \/ WriteLost(j) \/ ExecutionFails(j)
      PROVE  LocalModelsExclusive' /\ GpuAnnounced' /\ GpuHandedOver'
  <2>1. RunningJobs' = RunningJobs
    BY <1>1, ExecutorMoves DEF RunningJobs, TypeOK
  <2> QED BY <1>1, <2>1, FewerRunning, ExecutorHandover
<1>2. CASE DispatcherTurn
  <2>1. RunningJobs' \subseteq RunningJobs
    BY <1>2 DEF DispatcherTurn, RunningJobs
  <2>2. \A j \in Jobs : pc'[j] \in {"gate", "gpu"} => pc[j] = pc'[j]
    BY <1>2 DEF DispatcherTurn
  <2>3. GpuAnnounced' /\ GpuHandedOver'
    BY <1>2, <2>2 DEF DispatcherTurn, gpu, flags, GpuAnnounced, GpuHandedOver
  <2> QED BY <2>1, <2>3, FewerRunning
<1>3. ASSUME NEW j \in Jobs, Launch(j)
      PROVE  LocalModelsExclusive' /\ GpuAnnounced' /\ GpuHandedOver'
  <2>1. GpuAnnounced' /\ GpuHandedOver'
    BY <1>3, OtherMoves DEF Launch, Goto, flags, PCs
  <2> QED BY <1>3, <2>1, LaunchExclusive
<1> DEFINE Quietly == UNCHANGED <<pc, gpu, blockAll, dictation>>
<1>4. ASSUME Quietly
      PROVE  LocalModelsExclusive' /\ GpuAnnounced' /\ GpuHandedOver'
  <2>1. RunningJobs' = RunningJobs
    BY <1>4 DEF RunningJobs
  <2> QED BY <1>4, <2>1, FewerRunning DEF GpuAnnounced, GpuHandedOver, gpu
<1>5. CASE DispatcherSettles \/ UNCHANGED vars
  <2>1. Quietly
    BY <1>5 DEF DispatcherSettles, vars, threads, flags
  <2> QED BY <2>1, <1>4
<1>6. ASSUME NEW k \in Callers, NEW j \in Jobs,
             Pause(k, j) \/ Cancel(k, j) \/ CommitControl(k)
      PROVE  LocalModelsExclusive' /\ GpuAnnounced' /\ GpuHandedOver'
  <2>1. Quietly
    BY <1>6 DEF Pause, Cancel, CommitControl, threads, flags
  <2> QED BY <2>1, <1>4
<1>7. ASSUME NEW j \in Jobs, NEW s,
             \/ Submit(j) \/ Resume(j) \/ Retry(j) \/ RetrySegment(j, s)
             \/ PickPreempted(j)
      PROVE  LocalModelsExclusive' /\ GpuAnnounced' /\ GpuHandedOver'
  <2>1. Quietly
    BY <1>7 DEF Submit, Resume, Retry, RetrySegment, PickPreempted, threads, flags
  <2> QED BY <2>1, <1>4
<1>8. CASE \/ Reorder \/ FinishSubmit \/ ResumePreempted \/ PreemptedResumed
           \/ BeginShutdown \/ \E paused \in BOOLEAN : ControlQueue(paused)
  <2>1. Quietly
    BY <1>8 DEF Reorder, FinishSubmit, ResumePreempted, PreemptedResumed, BeginShutdown,
                ControlQueue, threads, flags
  <2> QED BY <2>1, <1>4
<1>9. CASE ArmDictation \/ DictationReady \/ EndDictation
  <2>1. RunningJobs' = RunningJobs
    BY <1>9 DEF ArmDictation, DictationReady, EndDictation, threads, RunningJobs
  <2>2. GpuAnnounced' /\ GpuHandedOver'
    BY <1>9 DEF ArmDictation, DictationReady, EndDictation, threads, gpu, flags,
                GpuAnnounced, GpuHandedOver
  <2> QED BY <2>1, <2>2, FewerRunning
<1>10. CASE Restart
  <2>1. RunningJobs' = {}
    BY <1>10 DEF Restart, RunningJobs
  <2>2. GpuAnnounced' /\ GpuHandedOver'
    BY <1>10 DEF Restart, GpuAnnounced, GpuHandedOver
  <2> QED BY <2>1, <2>2, FewerRunning
<1>11. CASE \E k \in Callers : CommitControl(k)
  <2>1. Quietly
    BY <1>11 DEF CommitControl, threads, flags
  <2> QED BY <2>1, <1>4
<1> QED
  BY <1>1, <1>2, <1>3, <1>5, <1>6, <1>7, <1>8, <1>9, <1>10, <1>11 DEF Next

\* No executor runs when the service is first started.
LEMMA HandoverInitial == Init => IInv
<1> SUFFICES ASSUME Init PROVE IInv
  OBVIOUS
<1>1. RunningJobs = {} /\ Cardinality({}) = 0
  BY FS_EmptySet DEF Init, RunningJobs
<1> QED BY <1>1, TypeInitial, PipelineAssumption
        DEF Init, IInv, LocalModelsExclusive, GpuAnnounced, GpuHandedOver

LEMMA HandoverInvariant == Spec => []IInv
<1>1. Init => IInv
  BY HandoverInitial
<1>2. IInv /\ [Next]_vars => IInv'
  BY HandoverStep
<1> QED BY <1>1, <1>2, PTL DEF Spec

\* Two executors exist at once only for two online jobs, and never more than
\* the pool allows, across launches, reaps, failures and restarts.
THEOREM ModelsExclusive == Spec => []LocalModelsExclusive
<1>1. IInv => LocalModelsExclusive
  BY DEF IInv
<1> QED BY <1>1, HandoverInvariant, PTL

\* While dictation owns the GPU no classroom model runs on it or is kept on it.
THEOREM DictationOwnsTheGpu == Spec => []GpuHandedOver
<1>1. IInv => GpuHandedOver
  BY DEF IInv
<1> QED BY <1>1, HandoverInvariant, PTL

\* The busy event and the preemption block tell the truth about the GPU.
THEOREM BusyIsAnnounced == Spec => []GpuAnnounced
<1>1. IInv => GpuAnnounced
  BY DEF IInv
<1> QED BY <1>1, HandoverInvariant, PTL

-----------------------------------------------------------------------------
(***************************************************************************)
(* What happens to the rows of a job: who owns a running one, how often it *)
(* may be tried, when the job is done, which steps undo a finished one and *)
(* in which order they begin, and what a job recorded as running still     *)
(* needs once its executor has stopped.                                    *)
(*                                                                         *)
(* CheckpointOwnership is not inductive.  A start of the service skips the *)
(* rows of a cancelled job, so such a row may be left running: nothing may *)
(* be about to write the status of that job (RunningRows).  A start skips  *)
(* failed and completed jobs as well: these must have no executor at work  *)
(* (EndedRests) and no row left (CompletedMeansDone).  An executor begins  *)
(* the row it chose in an earlier transaction (CheckpointChosen), and what *)
(* it still has to write never ends a job (PendingWrite).                  *)
(***************************************************************************)

Ended == {"absent", "failed", "completed"}
Resting == {"idle", "closing", "done"}

\* A row that a crash left running, of a job nobody is about to write.
Left(j) ==
    /\ status[j] = "cancelled" /\ pc[j] = "idle"
    /\ \A k \in Callers : ctl[k].job # j
    /\ ~(loop.at = "write" /\ loop.job = j)

WorkRecorded(j) ==
    pc[j] \in Working => cur[j] \in Checkpoints /\ ckpt[j][cur[j]].st = "running"
RunningRows(j) ==
    \A c \in Checkpoints :
        ckpt[j][c].st = "running" =>
           (pc[j] \in Working /\ cur[j] = c) \/ Left(j) \/ j \in lost
CheckpointChosen(j) ==
    pc[j] = "begin" \/ (pc[j] = "commit" /\ after[j] = "begin") => cur[j] \in Checkpoints
EndedRests(j) ==
    /\ status[j] \in Ended => pc[j] \in Resting
    /\ status[j] = "absent" => pc[j] = "idle" /\ j \notin lost
PendingWrite(j) ==
    pc[j] = "commit" => pending[j] \in {"running", "pending", "paused", "cancelled"}
RowWithin(row) ==
    /\ row.n <= row.max /\ row.max > 0
    /\ row.st \in {"pending", "retryable"} => row.n < row.max
CompletedDone(j) == status[j] = "completed" => Incomplete(ckpt[j]) = {}

JobInv(j) ==
    /\ WorkRecorded(j) /\ RunningRows(j) /\ CheckpointChosen(j)
    /\ EndedRests(j) /\ PendingWrite(j) /\ CompletedDone(j)
    /\ \A c \in Checkpoints : RowWithin(ckpt[j][c])

ControlWrites ==
    \A k \in Callers : ctl[k] # Idle =>
        ctl[k].job \in Jobs /\ ctl[k].write \in {"paused", "cancelling", "cancelled"}
LoopTurns ==
    /\ dispatcher = "turn" => loop.at = "free"
    /\ loop.at = "submit" =>
          loop.job \in Jobs /\ pc[loop.job] = "idle" /\ status[loop.job] \notin Ended
    /\ loop.at = "write" => loop.job \in Jobs

OInv == TypeOK /\ ControlWrites /\ LoopTurns /\ \A j \in Jobs : JobInv(j)

-----------------------------------------------------------------------------
\* A job whose row, thread and status a step leaves alone keeps its part of the
\* invariant, unless the step is about to write the status of a cancelled job.
LEMMA Untouched ==
    ASSUME OInv, NEW i \in Jobs,
           status'[i] = status[i], ckpt'[i] = ckpt[i], pc'[i] = pc[i], cur'[i] = cur[i],
           pending'[i] = pending[i], after'[i] = after[i], Left(i) => Left(i)',
           i \in lost' <=> i \in lost
    PROVE  JobInv(i)'
BY DEF OInv, JobInv, WorkRecorded, RunningRows, CheckpointChosen, EndedRests, PendingWrite,
       CompletedDone, Incomplete, Existing

\* A step of executor j keeps the parts of the other jobs.
LEMMA OthersUntouched ==
    ASSUME OInv, NEW j \in Jobs, NEW i \in Jobs \ {j},
           \A k \in Jobs \ {j} :
               /\ status'[k] = status[k] /\ ckpt'[k] = ckpt[k] /\ pc'[k] = pc[k]
               /\ cur'[k] = cur[k] /\ pending'[k] = pending[k] /\ after'[k] = after[k]
               /\ k \in lost' <=> k \in lost,
           UNCHANGED <<ctl, loop>>
    PROVE  JobInv(i)'
<1>1. Left(i) => Left(i)'
  BY DEF Left
<1> QED BY <1>1, Untouched

\* A move of an executor that writes no row keeps its part.
LEMMA MoveOnly ==
    ASSUME OInv, NEW j \in Jobs, pc[j] # "idle", ckpt'[j] = ckpt[j], lost' = lost,
           pc[j] \in Working <=> pc'[j] \in Working, cur[j] = cur'[j] \/ pc[j] \notin Working,
           pc'[j] = "begin" \/ (pc'[j] = "commit" /\ after'[j] = "begin") => cur'[j] \in Checkpoints,
           status'[j] \in Ended => pc'[j] \in Resting,
           status'[j] \in {"absent", "completed"} => status'[j] = status[j],
           pc'[j] = "commit" => pending'[j] \in {"running", "pending", "paused", "cancelled"}
    PROVE  JobInv(j)'
<1>1. WorkRecorded(j)' /\ RunningRows(j)'
  BY DEF OInv, JobInv, WorkRecorded, RunningRows, Left
<1>2. CheckpointChosen(j)' /\ EndedRests(j)' /\ PendingWrite(j)'
  BY DEF OInv, JobInv, CheckpointChosen, EndedRests, PendingWrite
<1>3. CompletedDone(j)' /\ \A c \in Checkpoints : RowWithin(ckpt[j][c])'
  BY DEF OInv, JobInv, CompletedDone, RowWithin, Incomplete, Existing
<1> QED BY <1>1, <1>2, <1>3 DEF JobInv

\* The moves of an executor between its transactions.
LEMMA ExecutorMovesOwn ==
    ASSUME OInv, NEW j \in Jobs,
           \/ Claim(j) \/ NextEnded(j) \/ NextYields(j) \/ NextPreempted(j) \/ Preempt(j)
           \/ NextCheckpoint(j) \/ EnterGate(j) \/ PassGate(j) \/ TurnedAway(j) \/ LeaveGpu(j)
           \/ GpuFails(j) \/ YieldAtBoundary(j) \/ OperationFails(j) \/ ReadFailure(j) \/ Close(j)
    PROVE  JobInv(j)' /\ UNCHANGED <<status, ckpt, lost>>
<1> USE DEF Goto, CommitLater, db, gpu, flags, outside
<1>0. /\ EndedRests(j) /\ CheckpointChosen(j) /\ PendingWrite(j)
      /\ TypeOK /\ j \in DOMAIN pc /\ j \in DOMAIN cur /\ j \in DOMAIN pending /\ j \in DOMAIN after
  BY DEF OInv, JobInv, TypeOK
<1>1. CASE Claim(j) \/ NextEnded(j) \/ NextYields(j) \/ NextPreempted(j) \/ Preempt(j)
  <2>1. /\ UNCHANGED <<status, ckpt, lost>> /\ pc[j] \in {"claim", "next", "preempt"}
        /\ pc'[j] \in {"commit", "next", "closing", "preempt"}
        /\ pc'[j] = "commit" => /\ pending'[j] \in {"running", "pending", "paused", "cancelled"}
                                /\ after'[j] \in {"next", "closing"}
    BY <1>0, <1>1 DEF Claim, NextEnded, NextYields, NextPreempted, Preempt, Live
  <2>2. status[j] \in Ended => pc'[j] \in Resting
    BY <1>0, <2>1, <1>1 DEF NextEnded, Live, EndedRests, Ended, Resting
  <2> QED BY <2>1, <2>2, MoveOnly DEF Working, Ended
<1>2. CASE NextCheckpoint(j)
  <2> DEFINE rest == Incomplete(ckpt[j])
             label == IF status[j] = "paused" \/ rest = {} THEN "closing" ELSE "begin"
  <2>1. /\ UNCHANGED <<status, ckpt, lost>> /\ pc[j] = "next" /\ status[j] \notin Ended
        /\ pc'[j] \in {"commit", label}
        /\ pc'[j] = "commit" => pending'[j] = "running" /\ after'[j] = label
        /\ label = "begin" => cur'[j] = FirstIncomplete(ckpt[j])
    BY <1>0, <1>2 DEF NextCheckpoint, Live, Ended
  <2>2. rest # {} => FirstIncomplete(ckpt[j]) \in Checkpoints
    <3>1. ckpt[j] \in Rows
      BY <1>0 DEF TypeOK, Rows
    <3> QED BY <3>1, FirstIncompleteIsLeast DEF Incomplete, Existing
  <2>3. label \in {"begin", "closing"} /\ (label = "begin" => rest # {})
    OBVIOUS
  <2> HIDE DEF label, rest
  <2>4. pc'[j] = "begin" \/ (pc'[j] = "commit" /\ after'[j] = "begin") => cur'[j] \in Checkpoints
    BY <2>1, <2>2, <2>3
  <2> QED BY <2>1, <2>3, <2>4, MoveOnly DEF Working, Ended
<1>3. CASE \/ EnterGate(j) \/ PassGate(j) \/ TurnedAway(j) \/ LeaveGpu(j) \/ GpuFails(j)
           \/ YieldAtBoundary(j) \/ OperationFails(j) \/ ReadFailure(j)
  <2>1. /\ UNCHANGED <<status, ckpt, lost>> /\ pc[j] \in Working /\ pc'[j] \in Working /\ cur'[j] = cur[j]
    BY <1>0, <1>3 DEF EnterGate, PassGate, TurnedAway, LeaveGpu, GpuFails, YieldAtBoundary,
                      OperationFails, ReadFailure, Working
  <2>2. status[j] \notin Ended
    BY <1>0, <2>1 DEF EndedRests, Resting, Working
  <2> QED BY <2>1, <2>2, MoveOnly DEF Working, Ended
<1>4. CASE Close(j)
  <2>1. UNCHANGED <<status, ckpt, lost>> /\ pc[j] = "closing" /\ pc'[j] = "done"
    BY <1>0, <1>4 DEF Close
  <2> QED BY <2>1, MoveOnly DEF Working, Resting, Ended
<1> QED BY <1>1, <1>2, <1>3, <1>4

-----------------------------------------------------------------------------
\* Rows that are made, and what each transition leaves of the limits.
LEMMA NewRow == NewCheckpoint.st = "pending" /\ RowWithin(NewCheckpoint)
BY MaxAttemptsAssumption DEF NewCheckpoint, NoCheckpoint, RowWithin

LEMMA RowLimits ==
    ASSUME NEW row \in CheckpointRow, RowWithin(row), NEW s
    PROVE  /\ RowWithin(Reset(row))
           /\ row.n < row.max => RowWithin(Begun(row))
           /\ RowWithin(Interrupted(row))
           /\ RowWithin(FailedRow(s, row)) /\ FailedRow(s, row).st # "running"
BY MaxAttemptsAssumption
   DEF CheckpointRow, CheckpointStatus, RowWithin, NewCheckpoint, NoCheckpoint, Reset, Begun,
       Interrupted, FailedRow, Retryable

\* A row that a step does not make keeps within its limit, and rows that are made are
\* new ones.
LEMMA CreatedRows ==
    ASSUME NEW ck \in Rows, NEW ranks, NEW c \in Checkpoints
    PROVE  \/ CreateCheckpoints(ck, ranks)[c] = ck[c]
           \/ CreateCheckpoints(ck, ranks)[c] = NewCheckpoint /\ ck[c].st = "absent"
BY DEF CreateCheckpoints

LEMMA InitializedRows ==
    ASSUME TypeOK, NEW j \in Jobs, \A c \in Checkpoints : RowWithin(ckpt[j][c])
    PROVE  \A c \in Checkpoints :
              /\ RowWithin(Initialized(j)[c])
              /\ Initialized(j)[c].st = "running" <=> ckpt[j][c].st = "running"
              /\ ckpt[j][c].st # "absent" => Initialized(j)[c] = ckpt[j][c]
<1>1. ckpt[j] \in Rows
  BY DEF TypeOK, Rows
<1>2. ASSUME NEW c \in Checkpoints
      PROVE  \/ Initialized(j)[c] = ckpt[j][c]
             \/ Initialized(j)[c] = NewCheckpoint /\ ckpt[j][c].st = "absent"
  BY <1>1, CreatedRows DEF Initialized
<1> QED BY <1>2, NewRow

\* InitializeJob: rows appear, none of them runs.
LEMMA InitializeOwn ==
    ASSUME OInv, NEW j \in Jobs, InitializeJob(j)
    PROVE  JobInv(j)'
<1>1. /\ pc[j] = "init" /\ pc'[j] = "claim" /\ status'[j] = status[j] /\ cur'[j] = cur[j]
      /\ ckpt'[j] = Initialized(j) /\ lost' = lost
  BY DEF InitializeJob, Goto, OInv, TypeOK, outside
<1>2. status[j] \notin Ended /\ ~Left(j)
  BY <1>1 DEF OInv, JobInv, EndedRests, Resting, Left
<1>3. \A c \in Checkpoints :
         RowWithin(ckpt'[j][c]) /\ (ckpt'[j][c].st = "running" => j \in lost)
  BY <1>1, <1>2, InitializedRows DEF OInv, JobInv, RunningRows, Working
<1>4. (\A c \in Checkpoints : RowWithin(ckpt[j][c]))'
  BY <1>3 DEF RowWithin
<1> QED BY <1>1, <1>2, <1>3, <1>4
        DEF JobInv, WorkRecorded, RunningRows, CheckpointChosen, EndedRests, PendingWrite,
            CompletedDone, Working, Ended

\* CommitStatus: what an executor had decided to write.
LEMMA CommitOwn ==
    ASSUME OInv, NEW j \in Jobs, CommitStatus(j)
    PROVE  JobInv(j)'
<1>1. /\ pc[j] = "commit" /\ pc'[j] = after[j] /\ status'[j] = pending[j] /\ cur'[j] = cur[j]
      /\ ckpt'[j] = ckpt[j] /\ after[j] \in {"next", "begin", "closing"} /\ lost' = lost
  BY DEF CommitStatus, Goto, OInv, TypeOK, outside
<1>2. PendingWrite(j) /\ CheckpointChosen(j)
  BY DEF OInv, JobInv
<1> QED BY <1>1, <1>2, MoveOnly DEF PendingWrite, CheckpointChosen, Working, Ended

\* Begin: the chosen row runs, and no other row does.
LEMMA BeginOwn ==
    ASSUME OInv, NEW j \in Jobs, Begin(j)
    PROVE  JobInv(j)'
<1> DEFINE c == cur[j]
           row == Armed(j)
<1>1. /\ pc[j] = "begin" /\ status'[j] = status[j] /\ cur'[j] = cur[j] /\ c \in Checkpoints
      /\ ckpt[j] \in Rows /\ ckpt[j][c] \in CheckpointRow /\ RowWithin(ckpt[j][c])
      /\ lost' = lost
  BY DEF Begin, outside, OInv, TypeOK, Rows, JobInv, CheckpointChosen
<1>2. CASE CanBegin(status[j], row)
  <2>1. row \in CheckpointRow /\ row.n < row.max /\ RowWithin(row)
    BY <1>1, <1>2 DEF CanBegin, Armed, CheckpointRow, RowWithin
  <2>2. pc'[j] = "op" /\ ckpt'[j] = [ckpt[j] EXCEPT ![c] = Begun(row)]
    BY <1>2 DEF Begin, Goto, OInv, TypeOK
  <2>3. RowWithin(Begun(row)) /\ Begun(row).st = "running"
    BY <2>1, RowLimits DEF Begun
  <2>4. \A d \in Checkpoints : ckpt'[j][d] = IF d = c THEN Begun(row) ELSE ckpt[j][d]
    BY <1>1, <2>2 DEF Rows
  <2>5. \A d \in Checkpoints : ckpt[j][d].st = "running" => j \in lost
    BY <1>1 DEF OInv, JobInv, RunningRows, Working, Left
  <2>6. status[j] \notin Ended
    BY <1>2 DEF CanBegin, Ended
  <2>7. (\A d \in Checkpoints : RowWithin(ckpt[j][d]))'
    BY <2>3, <2>4 DEF OInv, JobInv, RowWithin
  <2> HIDE DEF row
  <2> QED BY <1>1, <2>2, <2>3, <2>4, <2>5, <2>6, <2>7
          DEF JobInv, WorkRecorded, RunningRows, CheckpointChosen, EndedRests, PendingWrite,
              CompletedDone, Working, Ended
<1>3. CASE ~CanBegin(status[j], row)
  <2>1. pc'[j] = "closing" /\ ckpt'[j] = ckpt[j]
    BY <1>3 DEF Begin, Goto, OInv, TypeOK
  <2> QED BY <1>1, <2>1, MoveOnly DEF Working, Resting
<1> QED BY <1>2, <1>3

\* GiveBackAttempt and CommitFailure: the row an executor works on stops running.
LEMMA StoppedOwn ==
    ASSUME OInv, NEW j \in Jobs, GiveBackAttempt(j) \/ CommitFailure(j)
    PROVE  JobInv(j)'
<1> DEFINE c == cur[j]
           row == ckpt[j][c]
<1>1. /\ pc[j] \in Working /\ c \in Checkpoints /\ ckpt[j] \in Rows /\ row \in CheckpointRow
      /\ \A d \in Checkpoints : RowWithin(ckpt[j][d])
      /\ \A d \in Checkpoints \ {c} : ckpt[j][d].st = "running" => j \in lost
      /\ status[j] \notin Ended /\ lost' = lost
  <2>1. pc[j] \in Working
    BY DEF GiveBackAttempt, CommitFailure, Working
  <2>2. status[j] \notin Ended
    BY <2>1 DEF OInv, JobInv, EndedRests, Working, Resting
  <2>3. ckpt[j] \in Rows
    BY DEF OInv, TypeOK, Rows
  <2>4. WorkRecorded(j) /\ RunningRows(j) /\ ~Left(j)
    BY <2>1 DEF OInv, JobInv, Left, Working
  <2>5. lost' = lost
    BY DEF GiveBackAttempt, CommitFailure, outside
  <2> QED BY <2>1, <2>2, <2>3, <2>4, <2>5 DEF OInv, JobInv, WorkRecorded, RunningRows, Rows
<1>2. \E new \in CheckpointRow : /\ RowWithin(new) /\ new.st # "running"
                                 /\ ckpt'[j] = [ckpt[j] EXCEPT ![c] = new]
  <2>1. RowWithin(Interrupted(row)) /\ Interrupted(row).st # "running" /\ Interrupted(row) \in CheckpointRow
    BY <1>1, RowLimits, RowTransitions DEF Interrupted
  <2>2. /\ RowWithin(FailedRow(pending[j], row)) /\ FailedRow(pending[j], row).st # "running"
        /\ FailedRow(pending[j], row) \in CheckpointRow
    BY <1>1, RowLimits, RowTransitions
  <2>3. \/ ckpt' = [ckpt EXCEPT ![j][c] = Interrupted(row)]
        \/ ckpt' = [ckpt EXCEPT ![j][c] = FailedRow(pending[j], row)]
    BY DEF GiveBackAttempt, CommitFailure
  <2> HIDE DEF row
  <2> QED BY <2>1, <2>2, <2>3 DEF OInv, TypeOK
<1>3. /\ pc'[j] \in {"next", "closing"} /\ cur'[j] = cur[j]
      /\ status'[j] \in {"absent", "completed"} => status'[j] = status[j]
      /\ status'[j] \in Ended => pc'[j] \in Resting
  BY <1>1 DEF GiveBackAttempt, CommitFailure, FailedStatus, Goto, OInv, TypeOK, Ended, Resting
<1>4. \A d \in Checkpoints :
         RowWithin(ckpt'[j][d]) /\ (ckpt'[j][d].st = "running" => j \in lost)
  BY <1>1, <1>2 DEF Rows
<1>5. (\A d \in Checkpoints : RowWithin(ckpt[j][d]))'
  BY <1>4 DEF RowWithin
<1> QED BY <1>1, <1>3, <1>4, <1>5
        DEF JobInv, WorkRecorded, RunningRows, CheckpointChosen, EndedRests, PendingWrite,
            CompletedDone, Working, Ended

\* Complete: the row is completed, and the job only with its last row.
LEMMA CompleteOwn ==
    ASSUME OInv, NEW j \in Jobs, Complete(j)
    PROVE  JobInv(j)'
<1> DEFINE c == cur[j]
<1>1. /\ pc[j] = "op" /\ c \in Checkpoints /\ ckpt[j] \in Rows
      /\ \A d \in Checkpoints : RowWithin(ckpt[j][d])
      /\ \A d \in Checkpoints \ {c} : ckpt[j][d].st = "running" => j \in lost
      /\ ckpt[j][c].st = "running"
      /\ status[j] \notin Ended /\ lost' = lost
  <2>1. pc[j] = "op"
    BY DEF Complete
  <2>2. lost' = lost
    BY DEF Complete, outside
  <2> QED BY <2>1, <2>2 DEF OInv, TypeOK, Rows, JobInv, WorkRecorded, RunningRows, EndedRests,
                            Left, Working, Resting
<1>2. PICK found \in SUBSET Segments :
        /\ ckpt'[j] = CompletionRows(j, found) /\ status'[j] = CompletionStatus(j, found)
        /\ pc'[j] = IF status'[j] \in TerminalStatus THEN "closing" ELSE "next"
        /\ cur'[j] = cur[j]
  BY DEF Complete, Goto, OInv, TypeOK
<1> DEFINE rows == CompletedRows(ckpt[j], c)
<1>3. /\ rows \in Rows /\ CompletionRows(j, found) \in Rows
      /\ \A d \in Checkpoints : /\ rows[d].n = ckpt[j][d].n /\ rows[d].max = ckpt[j][d].max
                                /\ rows[d].st = IF d = c THEN "completed" ELSE ckpt[j][d].st
  <2>1. rows \in Rows /\ CompletionRows(j, found) \in Rows
    BY <1>1, RowsTransitions, PipelineRows DEF OInv
  <2>2. \A d \in Checkpoints :
          rows[d] = IF d = c THEN [ckpt[j][d] EXCEPT !.st = "completed"] ELSE ckpt[j][d]
    BY <1>1 DEF CompletedRows, Rows
  <2>3. \A d \in Checkpoints : ckpt[j][d] \in CheckpointRow
    BY <1>1 DEF Rows
  <2> HIDE DEF rows
  <2> QED BY <2>1, <2>2, <2>3 DEF CheckpointRow
<1>4. \A d \in Checkpoints : CompletionRows(j, found)[d] \in {rows[d], NewCheckpoint}
  <2> DEFINE ranks == UNION {SegmentCk[s] : s \in found}
  <2>1. CompletionRows(j, found) \in {rows, CreateCheckpoints(rows, ranks)}
    BY DEF CompletionRows
  <2>2. ASSUME NEW d \in Checkpoints
        PROVE  CreateCheckpoints(rows, ranks)[d] \in {rows[d], NewCheckpoint}
    BY DEF CreateCheckpoints
  <2> HIDE DEF rows, ranks
  <2> QED BY <2>1, <2>2
<1>5. \A d \in Checkpoints :
         /\ RowWithin(CompletionRows(j, found)[d])
         /\ CompletionRows(j, found)[d].st = "running" => j \in lost
  <2> HIDE DEF rows
  <2>1. ASSUME NEW d \in Checkpoints
        PROVE  RowWithin(rows[d]) /\ (rows[d].st = "running" => j \in lost)
    BY <1>1, <1>3 DEF RowWithin
  <2> QED BY <1>4, <2>1, NewRow
<1>6. status'[j] = "completed" => Incomplete(CompletionRows(j, found)) = {}
  BY <1>1, <1>2 DEF CompletionStatus, CompletedStatus, Ended
<1>7. status'[j] \in Ended => status'[j] = "completed"
  BY <1>1, <1>2 DEF CompletionStatus, CompletedStatus, Ended
<1>8. /\ (\A d \in Checkpoints : RowWithin(ckpt[j][d]))' /\ CompletedDone(j)'
      /\ \A d \in Checkpoints : ckpt'[j][d].st = "running" => j \in lost
  BY <1>2, <1>5, <1>6 DEF RowWithin, CompletedDone, Incomplete, Existing
<1> QED BY <1>1, <1>2, <1>7, <1>8
        DEF JobInv, WorkRecorded, RunningRows, CheckpointChosen, EndedRests, PendingWrite,
            Working, Resting, TerminalStatus, Ended

\* WriteLost: the row stays as it is, and the job is one of those a write failed of.
LEMMA LostOwn ==
    ASSUME OInv, NEW j \in Jobs, WriteLost(j)
    PROVE  JobInv(j)'
<1>1. /\ pc[j] \in Working \cup {"begin"} /\ pc'[j] = "closing" /\ j \in lost'
      /\ UNCHANGED <<status, ckpt, cur, pending, after>>
  BY DEF WriteLost, Goto, OInv, TypeOK, db, Working
<1>2. status[j] \notin Ended
  BY <1>1 DEF OInv, JobInv, EndedRests, Working, Resting
<1> QED BY <1>1, <1>2
        DEF OInv, JobInv, WorkRecorded, RunningRows, CheckpointChosen, EndedRests, PendingWrite,
            CompletedDone, Incomplete, Existing, RowWithin, Working, Resting, Ended

-----------------------------------------------------------------------------
\* A step of an executor writes no other job, and neither the dispatcher, the loop
\* nor the request threads.
LEMMA ExecutorLocal ==
    ASSUME TypeOK, NEW j \in Jobs,
           ExecutorStep(j) \/ EnterGate(j) \/ WriteLost(j) \/ ExecutionFails(j)
    PROVE  /\ \A k \in Jobs \ {j} :
                 /\ status'[k] = status[k] /\ ckpt'[k] = ckpt[k] /\ pc'[k] = pc[k]
                 /\ cur'[k] = cur[k] /\ pending'[k] = pending[k] /\ after'[k] = after[k]
                 /\ k \in lost' <=> k \in lost
           /\ UNCHANGED <<ctl, loop, dispatcher>>
<1> DEFINE Local == /\ \A k \in Jobs \ {j} :
                         /\ status'[k] = status[k] /\ ckpt'[k] = ckpt[k] /\ pc'[k] = pc[k]
                         /\ cur'[k] = cur[k] /\ pending'[k] = pending[k] /\ after'[k] = after[k]
                         /\ k \in lost' <=> k \in lost
                    /\ UNCHANGED <<ctl, loop, dispatcher>>
<1> USE DEF Goto, CommitLater, db, gpu, flags, outside, tasks, TypeOK
<1>1. CASE \/ InitializeJob(j) \/ Claim(j) \/ NextEnded(j) \/ NextYields(j) \/ NextPreempted(j)
           \/ Preempt(j)
  BY <1>1 DEF InitializeJob, Claim, NextEnded, NextYields, NextPreempted, Preempt
<1>2. CASE NextCheckpoint(j) \/ CommitStatus(j) \/ Begin(j)
  BY <1>2 DEF NextCheckpoint, CommitStatus, Begin
<1>3. CASE \/ EnterGate(j) \/ PassGate(j) \/ TurnedAway(j) \/ LeaveGpu(j) \/ GpuFails(j)
           \/ YieldAtBoundary(j) \/ OperationFails(j) \/ ReadFailure(j) \/ Close(j)
  BY <1>3 DEF EnterGate, PassGate, TurnedAway, LeaveGpu, GpuFails, YieldAtBoundary,
              OperationFails, ReadFailure, Close
<1>4. CASE GiveBackAttempt(j) \/ WriteLost(j) \/ ExecutionFails(j)
  BY <1>4 DEF GiveBackAttempt, WriteLost, ExecutionFails
<1>5. CASE CommitFailure(j)
  BY <1>5 DEF CommitFailure
<1>6. CASE Complete(j)
  BY <1>6 DEF Complete
<1> QED BY <1>1, <1>2, <1>3, <1>4, <1>5, <1>6 DEF ExecutorStep

\* Every step of an executor keeps the invariant.
LEMMA ExecutorOwn ==
    ASSUME OInv, NEW j \in Jobs,
           ExecutorStep(j) \/ EnterGate(j) \/ WriteLost(j) \/ ExecutionFails(j)
    PROVE  OInv'
<1>1. TypeOK'
  BY ExecutorTyped DEF OInv
<1>2. JobInv(j)'
  <2>1. CASE ExecutionFails(j)
    <3>1. /\ pc[j] \in {"init", "claim", "next", "preempt", "commit", "closing"}
          /\ pc'[j] = "done" /\ status'[j] = "failed" /\ ckpt'[j] = ckpt[j]
          /\ cur'[j] = cur[j] /\ lost' = lost
      BY <2>1 DEF ExecutionFails, Goto, OInv, TypeOK
    <3> QED BY <3>1, MoveOnly DEF Working, Resting
  <2> QED BY <2>1, ExecutorMovesOwn, InitializeOwn, CommitOwn, BeginOwn, StoppedOwn, CompleteOwn,
             LostOwn
          DEF ExecutorStep
<1>3. \A i \in Jobs : JobInv(i)'
  BY <1>2, ExecutorLocal, OthersUntouched DEF OInv
<1>4. ControlWrites' /\ LoopTurns'
  <2>1. pc[j] # "idle"
    BY ExecutorMoves DEF OInv
  <2> QED BY <2>1, ExecutorLocal DEF OInv, ControlWrites, LoopTurns
<1> QED BY <1>1, <1>3, <1>4 DEF OInv

\* Nor do the turns of the dispatcher break it.
LEMMA DispatcherOwn ==
    ASSUME OInv, DispatcherTurn \/ DispatcherSettles \/ \E j \in Jobs : Launch(j)
    PROVE  OInv'
<1>1. TypeOK'
  BY DispatcherTyped DEF OInv
<1> USE DEF db, flags, tasks, threads, gpu
<1>2. CASE DispatcherTurn
  <2>1. /\ UNCHANGED <<status, ckpt, cur, pending, after, ctl, loop, lost>> /\ loop.at = "free"
        /\ \A i \in Jobs : pc'[i] = IF pc[i] = "done" THEN "idle" ELSE pc[i]
    BY <1>2 DEF DispatcherTurn
  <2>2. ASSUME NEW i \in Jobs, pc[i] = "done" PROVE JobInv(i)'
    BY <2>1, <2>2, MoveOnly DEF Working, Resting
  <2>3. ASSUME NEW i \in Jobs, pc[i] # "done" PROVE JobInv(i)'
    <3>1. Left(i) => Left(i)'
      BY <2>1, <2>3 DEF Left
    <3> QED BY <2>1, <2>3, <3>1, Untouched
  <2> QED BY <1>1, <2>1, <2>2, <2>3 DEF OInv, ControlWrites, LoopTurns
<1>3. CASE DispatcherSettles
  <2>1. /\ UNCHANGED <<status, ckpt, pc, cur, pending, after, ctl, loop, lost>>
        /\ dispatcher' \in {"off", "wait"}
    BY <1>3 DEF DispatcherSettles
  <2>2. \A i \in Jobs : JobInv(i)'
    BY <2>1, Untouched DEF Left
  <2> QED BY <1>1, <2>1, <2>2 DEF OInv, ControlWrites, LoopTurns
<1>4. ASSUME NEW j \in Jobs, Launch(j) PROVE OInv'
  <2>1. /\ UNCHANGED <<status, ckpt, cur, pending, after, ctl, loop, lost, dispatcher>>
        /\ pc' = [pc EXCEPT ![j] = "init"] /\ dispatcher = "turn" /\ j \in Dispatchable
    BY <1>4, FirstInQueueIsDispatchable DEF Launch, CanLaunch, Goto, OInv
  <2>2. /\ pc[j] = "idle" /\ pc'[j] = "init" /\ status[j] \in {"pending", "cancelling"}
        /\ \A i \in Jobs \ {j} : pc'[i] = pc[i]
    BY <2>1 DEF OInv, TypeOK, Dispatchable, RunningJobs
  <2>3. JobInv(j)'
    BY <2>1, <2>2 DEF OInv, JobInv, WorkRecorded, RunningRows, CheckpointChosen, EndedRests,
                      PendingWrite, CompletedDone, Incomplete, Existing, RowWithin, Working, Left, Ended
  <2>4. \A i \in Jobs : JobInv(i)'
    BY <2>1, <2>2, <2>3, OthersUntouched
  <2> QED BY <1>1, <2>1, <2>4 DEF OInv, ControlWrites, LoopTurns
<1> QED BY <1>2, <1>3, <1>4

-----------------------------------------------------------------------------
\* A request or a callback that writes a new status, and no row: whoever may write
\* the status is not looking at a cancelled job's row left running.
LEMMA StatusWritten ==
    ASSUME OInv, NEW j \in Jobs, status'[j] \notin Ended, ckpt'[j] = ckpt[j],
           UNCHANGED <<threads, lost>>, ~Left(j)
    PROVE  JobInv(j)'
BY DEF OInv, JobInv, WorkRecorded, RunningRows, CheckpointChosen, EndedRests, PendingWrite,
       CompletedDone, RowWithin, threads, Ended

\* Rows that a request makes wait again, of a job without an executor at work.
LEMMA RowsWritten ==
    ASSUME OInv, NEW j \in Jobs, status'[j] \notin Ended, UNCHANGED <<threads, lost>>,
           pc[j] \notin Working,
           \A c \in Checkpoints :
              RowWithin(ckpt'[j][c]) /\ (ckpt'[j][c].st = "running" => j \in lost)
    PROVE  JobInv(j)'
<1>1. (\A c \in Checkpoints : RowWithin(ckpt[j][c]))'
  BY DEF RowWithin
<1> QED BY <1>1
        DEF OInv, JobInv, WorkRecorded, RunningRows, CheckpointChosen, EndedRests, PendingWrite,
            CompletedDone, threads, Ended

\* Scheduling never starts a turn.
LEMMA ScheduleNoTurn ==
    ASSUME Schedule, dispatcher # "turn"
    PROVE  dispatcher' # "turn"
BY DEF Schedule, tasks

\* The user's retry gives the first incomplete row an attempt to use.
LEMMA RetriedRows ==
    ASSUME NEW ck \in Rows, Incomplete(ck) # {},
           \A c \in Checkpoints : RowWithin(ck[c])
    PROVE  \A c \in Checkpoints :
              /\ RowWithin(ManualRetry(ck)[c])
              /\ ManualRetry(ck)[c].st = "running" => ck[c].st = "running"
<1> DEFINE first == FirstIncomplete(ck)
           row == ck[first]
           limit == IF row.n + 1 > row.max THEN row.n + 1 ELSE row.max
           new == [st |-> "retryable", n |-> row.n, max |-> limit]
<1>1. first \in Checkpoints /\ row \in CheckpointRow
  BY FirstIncompleteIsLeast DEF Incomplete, Existing, Rows
<1>2. RowWithin(new) /\ new.st # "running"
  BY <1>1 DEF RowWithin, CheckpointRow
<1>3. ManualRetry(ck) = [ck EXCEPT ![first] = new]
  BY DEF ManualRetry
<1> HIDE DEF new, first
<1>4. \A c \in Checkpoints : ManualRetry(ck)[c] \in {ck[c], new}
  BY <1>3 DEF Rows
<1> QED BY <1>2, <1>4

\* The requests that touch a job's status and rows.
LEMMA RequestsOwn ==
    ASSUME OInv, NEW j \in Jobs,
           Submit(j) \/ Resume(j) \/ Retry(j) \/ \E s \in Segments : RetrySegment(j, s)
    PROVE  OInv'
<1>1. TypeOK'
  BY ControlsTyped DEF OInv
<1>2. /\ \A k \in Jobs \ {j} : status'[k] = status[k] /\ ckpt'[k] = ckpt[k]
      /\ UNCHANGED <<threads, ctl, lost>>
  BY DEF Submit, Resume, Retry, RetrySegment, Requeue, OInv, TypeOK
<1>3. LoopTurns' /\ ControlWrites' /\ \A i \in Jobs \ {j} : Left(i) => Left(i)'
  <2>1. dispatcher # "turn" /\ loop.at = "free"
    BY DEF Submit, Resume, Retry, RetrySegment, LoopIsFree
  <2>2. dispatcher' # "turn"
    BY <2>1, ScheduleNoTurn DEF Submit, Resume, Retry, RetrySegment, Requeue, tasks
  <2>3. \/ loop' = loop
        \/ /\ loop'.at = "submit" /\ loop'.job = j
           /\ status[j] = "absent" /\ status'[j] = "pending"
    BY DEF Submit, Resume, Retry, RetrySegment, LoopFree, OInv, TypeOK
  <2>4. status[j] = "absent" => pc'[j] = "idle"
    BY <1>2 DEF OInv, JobInv, EndedRests, threads
  <2>5. LoopTurns'
    BY <2>1, <2>2, <2>3, <2>4 DEF LoopTurns, Ended
  <2>6. \A i \in Jobs \ {j} : Left(i) => Left(i)'
    BY <1>2, <2>1, <2>3 DEF Left, threads
  <2> QED BY <1>2, <2>5, <2>6 DEF OInv, ControlWrites
<1>4. JobInv(j)'
  <2>1. CASE Submit(j)
    BY <1>2, <2>1, StatusWritten DEF Submit, OInv, TypeOK, Left, Ended
  <2>2. CASE Resume(j)
    BY <1>2, <2>2, StatusWritten DEF Resume, Requeue, OInv, TypeOK, Left, Ended
  <2>3. CASE Retry(j)
    <3>1. CASE status[j] = "pending"
      BY <1>2, <2>3, <3>1, StatusWritten DEF Retry, Left, Ended
    <3>2. CASE status[j] = "failed"
      <4>1. ckpt[j] \in Rows
        BY DEF OInv, TypeOK, Rows
      <4>2. /\ pc[j] \notin Working
            /\ \A c \in Checkpoints :
                  RowWithin(ckpt[j][c]) /\ (ckpt[j][c].st = "running" => j \in lost)
        BY <3>2 DEF OInv, JobInv, RunningRows, EndedRests, Left, Ended, Resting, Working
      <4>3. /\ ckpt'[j] = ManualRetry(ckpt[j]) /\ status'[j] = "pending"
            /\ Incomplete(ckpt[j]) # {}
        BY <2>3, <3>2 DEF Retry, Requeue, OInv, TypeOK
      <4> QED BY <1>2, <4>1, <4>2, <4>3, RetriedRows, RowsWritten DEF Ended
    <3> QED BY <2>3, <3>1, <3>2 DEF Retry
  <2>4. ASSUME NEW s \in Segments, RetrySegment(j, s) PROVE JobInv(j)'
    <3>1. \A c \in Checkpoints : ckpt[j][c] \in CheckpointRow /\ RowWithin(ckpt[j][c])
      BY DEF OInv, TypeOK, JobInv
    <3>2. /\ \A c \in Checkpoints : ckpt[j][c].st # "running"
          /\ \A c \in Checkpoints : ckpt'[j][c] \in {ckpt[j][c], Reset(ckpt[j][c])}
          /\ status'[j] = "pending"
      BY <2>4 DEF RetrySegment, CanRetrySegment, Requeue, OInv, TypeOK
    <3>3. pc[j] \notin Working
      BY <3>2 DEF OInv, JobInv, WorkRecorded
    <3>4. \A c \in Checkpoints : RowWithin(Reset(ckpt[j][c])) /\ Reset(ckpt[j][c]).st # "running"
      BY <3>1, RowLimits DEF Reset
    <3>5. \A c \in Checkpoints : RowWithin(ckpt'[j][c]) /\ ckpt'[j][c].st # "running"
      BY <3>1, <3>2, <3>4
    <3> QED BY <1>2, <3>2, <3>3, <3>5, RowsWritten DEF Ended
  <2> QED BY <2>1, <2>2, <2>3, <2>4
<1>5. ASSUME NEW i \in Jobs \ {j} PROVE JobInv(i)'
  BY <1>2, <1>3, Untouched DEF threads
<1> QED BY <1>1, <1>3, <1>4, <1>5 DEF OInv

\* The requests that touch no row: pause and cancel on their threads, the order of
\* the queue, its pause, and the second half of a submission.
LEMMA ControlsOwn ==
    ASSUME OInv,
           \/ \E k \in Callers, j \in Jobs : Pause(k, j) \/ Cancel(k, j)
           \/ \E k \in Callers : CommitControl(k)
           \/ Reorder \/ FinishSubmit
           \/ \E paused \in BOOLEAN : ControlQueue(paused)
    PROVE  OInv'
<1>1. TypeOK'
  BY ControlsTyped DEF OInv
<1> USE DEF db
<1>2. ASSUME NEW k \in Callers, NEW j \in Jobs, Pause(k, j) \/ Cancel(k, j) PROVE OInv'
  <2>1. PICK w \in {"paused", "cancelling", "cancelled"} :
          ctl' = [ctl EXCEPT ![k] = [job |-> j, write |-> w]]
    BY <1>2 DEF Pause, Cancel, CancelResult
  <2>2. /\ UNCHANGED <<status, ckpt, threads, lost, loop, dispatcher>>
        /\ status[j] # "cancelled"
    BY <1>2 DEF Pause, Cancel, Cancellable, TerminalStatus, tasks
  <2>3. \A i \in Jobs : Left(i) => Left(i)'
    BY <2>1, <2>2 DEF Left, threads, OInv, TypeOK
  <2>4. \A i \in Jobs : JobInv(i)'
    BY <2>2, <2>3, Untouched DEF threads
  <2>5. ControlWrites'
    BY <2>1 DEF OInv, ControlWrites, TypeOK
  <2> QED BY <1>1, <2>2, <2>4, <2>5 DEF OInv, LoopTurns, threads
<1>3. ASSUME NEW k \in Callers, CommitControl(k) PROVE OInv'
  <2>0. PICK j \in Jobs : j = ctl[k].job
    BY <1>3 DEF CommitControl, OInv, ControlWrites
  <2>1. /\ ctl[k].write \in {"paused", "cancelling", "cancelled"}
        /\ status' = [status EXCEPT ![j] = ctl[k].write]
        /\ ctl' = [ctl EXCEPT ![k] = Idle]
        /\ UNCHANGED <<ckpt, threads, lost, loop, dispatcher>>
    BY <1>3, <2>0 DEF CommitControl, OInv, ControlWrites, tasks
  <2>2. JobInv(j)'
    <3>1. ~Left(j)
      BY <2>0 DEF Left
    <3>2. status'[j] \notin Ended
      BY <2>1 DEF OInv, TypeOK, Ended
    <3> QED BY <2>1, <3>1, <3>2, StatusWritten
  <2>3. ASSUME NEW i \in Jobs, i # j PROVE JobInv(i)'
    <3>1. status'[i] = status[i]
      BY <2>1, <2>3 DEF OInv, TypeOK
    <3>2. Left(i) => Left(i)'
      BY <2>1, <3>1, PipelineAssumption DEF Left, threads, OInv, TypeOK, Idle
    <3> QED BY <2>1, <3>1, <3>2, Untouched DEF threads
  <2>4. ControlWrites'
    BY <2>1 DEF OInv, ControlWrites, TypeOK
  <2>5. LoopTurns'
    BY <2>0, <2>1 DEF OInv, LoopTurns, TypeOK, Ended, threads
  <2> QED BY <1>1, <2>2, <2>3, <2>4, <2>5 DEF OInv
<1>4. CASE Reorder
  <2>1. UNCHANGED <<status, ckpt, threads, lost, ctl, loop, dispatcher>>
    BY <1>4 DEF Reorder, tasks
  <2>2. \A i \in Jobs : JobInv(i)'
    BY <2>1, Untouched DEF Left, threads
  <2> QED BY <1>1, <2>1, <2>2 DEF OInv, ControlWrites, LoopTurns, threads
<1>5. CASE FinishSubmit
  <2>0. PICK j \in Jobs : j = loop.job
    BY <1>5 DEF FinishSubmit, OInv, LoopTurns
  <2>1. /\ pc[j] = "idle" /\ status[j] \notin Ended
        /\ ckpt' = [ckpt EXCEPT ![j] = Initialized(j)]
        /\ loop' = LoopFree /\ UNCHANGED <<status, threads, lost, ctl>>
    BY <1>5, <2>0 DEF FinishSubmit, OInv, LoopTurns
  <2>2. dispatcher' # "turn"
    BY <1>5, ScheduleNoTurn DEF FinishSubmit, OInv, LoopTurns
  <2>3. \A i \in Jobs : Left(i) => Left(i)'
    BY <2>1 DEF Left, LoopFree, threads
  <2>4. JobInv(j)'
    <3>1. ckpt'[j] = Initialized(j)
      BY <2>1 DEF OInv, TypeOK
    <3>2. \A c \in Checkpoints :
            RowWithin(ckpt'[j][c]) /\ (ckpt'[j][c].st = "running" <=> ckpt[j][c].st = "running")
      BY <2>1, <3>1, InitializedRows DEF OInv, JobInv
    <3>3. (\A c \in Checkpoints : RowWithin(ckpt[j][c]))'
      BY <3>2 DEF RowWithin
    <3>4. RunningRows(j)'
      BY <2>1, <2>3, <3>2 DEF OInv, JobInv, RunningRows, Working, threads
    <3> QED BY <2>1, <3>3, <3>4
            DEF OInv, JobInv, WorkRecorded, CheckpointChosen, EndedRests, PendingWrite,
                CompletedDone, Working, Ended, threads
  <2>5. ASSUME NEW i \in Jobs, i # j PROVE JobInv(i)'
    <3>1. ckpt'[i] = ckpt[i]
      BY <2>1, <2>5 DEF OInv, TypeOK
    <3> QED BY <2>1, <2>3, <3>1, Untouched DEF threads
  <2> QED BY <1>1, <2>1, <2>2, <2>4, <2>5 DEF OInv, ControlWrites, LoopTurns, LoopFree
<1>6. ASSUME NEW paused \in BOOLEAN, ControlQueue(paused) PROVE OInv'
  <2>1. /\ UNCHANGED <<status, ckpt, threads, lost, ctl, loop>>
        /\ dispatcher # "turn" /\ loop.at = "free"
    BY <1>6 DEF ControlQueue, LoopIsFree
  <2>2. dispatcher' # "turn"
    BY <1>6, <2>1, ScheduleNoTurn DEF ControlQueue, tasks
  <2>3. \A i \in Jobs : JobInv(i)'
    BY <2>1, Untouched DEF Left, threads
  <2> QED BY <1>1, <2>1, <2>2, <2>3 DEF OInv, ControlWrites, LoopTurns
<1> QED BY <1>2, <1>3, <1>4, <1>5, <1>6

-----------------------------------------------------------------------------
\* What a start of the service leaves of the rows it repairs.
LEMMA RecoveredRowsRest ==
    ASSUME NEW ck \in Rows, \A c \in Checkpoints : RowWithin(ck[c]), NEW s
    PROVE  \A c \in Checkpoints :
              RowWithin(RecoveredRows(s, ck)[c]) /\ RecoveredRows(s, ck)[c].st # "running"
<1>1. ASSUME NEW c \in Checkpoints, ck[c].st = "running"
      PROVE  RowWithin(RecoveredRows(s, ck)[c]) /\ RecoveredRows(s, ck)[c].st # "running"
  <2>1. ck[c] \in CheckpointRow /\ RowWithin(ck[c])
    BY DEF Rows
  <2>2. PICK st \in {"cancelled", "retryable", "failed"} :
          /\ RecoveredRows(s, ck)[c] = [ck[c] EXCEPT !.st = st]
          /\ st = "retryable" => ck[c].n < ck[c].max
    BY <1>1 DEF RecoveredRows, Retryable
  <2> QED BY <2>1, <2>2 DEF RowWithin, CheckpointRow
<1>2. ASSUME NEW c \in Checkpoints, ck[c].st # "running"
      PROVE  RecoveredRows(s, ck)[c] = ck[c]
  BY <1>2 DEF RecoveredRows
<1> QED BY <1>1, <1>2

\* A start skips only jobs whose rows do not run, or a cancelled job.
LEMMA RestartOwn ==
    ASSUME OInv, Restart
    PROVE  OInv'
<1>1. TypeOK'
  BY ServiceTyped DEF OInv
<1>2. ControlWrites' /\ LoopTurns'
  BY DEF Restart, ControlWrites, LoopTurns, LoopFree
<1>3. ASSUME NEW j \in Jobs PROVE JobInv(j)'
  <2> DEFINE rows == IF status[j] = "pending" THEN Initialized(j) ELSE ckpt[j]
  <2>1. /\ ckpt'[j] = RecoveredCk(status[j], rows)
        /\ status'[j] = RecoveredStatus(status[j], rows)
        /\ pc'[j] = "idle"
        /\ status'[j] = "cancelled" => Left(j)'
        /\ j \in lost' <=> j \in lost /\ status[j] = "failed"
    BY PipelineAssumption DEF Restart, Left, Idle, LoopFree
  <2>2. rows \in Rows /\ \A c \in Checkpoints : RowWithin(rows[c])
    BY PipelineRows, InitializedRows DEF OInv, JobInv
  <2>3. CASE SkippedByRecovery(status[j], rows)
    <3>1. ckpt'[j] = ckpt[j] /\ status'[j] = status[j] /\ status[j] # "pending"
      BY <2>1, <2>3 DEF RecoveredCk, RecoveredStatus, SkippedByRecovery, RecoverableStatus
    <3>2. status[j] # "cancelled" =>
             \A c \in Checkpoints : ckpt[j][c].st = "running" => j \in lost'
      <4>1. CASE status[j] \in Ended
        <5>1. \A c \in Checkpoints : ckpt[j][c].st = "running" => j \in lost
          BY <4>1 DEF OInv, JobInv, RunningRows, EndedRests, Left, Ended, Resting, Working
        <5>2. CASE status[j] = "failed"
          BY <2>1, <5>1, <5>2
        <5>3. CASE status[j] = "absent"
          BY <5>1, <5>3 DEF OInv, JobInv, EndedRests
        <5>4. CASE status[j] = "completed"
          BY <5>4 DEF OInv, JobInv, CompletedDone, Incomplete, Existing
        <5> QED BY <4>1, <5>2, <5>3, <5>4 DEF Ended
      <4>2. CASE status[j] = "paused" /\ Existing(ckpt[j]) = {}
        BY <4>2 DEF Existing
      <4> QED BY <2>3, <3>1, <4>1, <4>2
              DEF SkippedByRecovery, RecoverableStatus, Ended, OInv, TypeOK, JobState, JobStatus
    <3>3. CompletedDone(j)' /\ (\A c \in Checkpoints : RowWithin(ckpt[j][c]))'
      BY <3>1 DEF OInv, JobInv, CompletedDone, Incomplete, Existing, RowWithin
    <3> QED BY <2>1, <3>1, <3>2, <3>3
            DEF JobInv, WorkRecorded, RunningRows, CheckpointChosen, EndedRests, PendingWrite,
                Working, Resting
  <2>4. CASE ~SkippedByRecovery(status[j], rows)
    <3> HIDE DEF rows
    <3>1. /\ ckpt'[j] = RecoveredRows(status[j], rows)
          /\ status[j] \in RecoverableStatus
          /\ status'[j] = "completed" => Incomplete(RecoveredRows(status[j], rows)) = {}
          /\ status'[j] # "absent"
      BY <2>1, <2>4 DEF RecoveredCk, RecoveredStatus, SkippedByRecovery
    <3>2. \A c \in Checkpoints : RowWithin(ckpt'[j][c]) /\ ckpt'[j][c].st # "running"
      BY <2>2, <3>1, RecoveredRowsRest
    <3>3. CompletedDone(j)' /\ (\A c \in Checkpoints : RowWithin(ckpt[j][c]))'
      BY <3>1, <3>2 DEF CompletedDone, Incomplete, Existing, RowWithin
    <3> QED BY <2>1, <3>1, <3>2, <3>3
            DEF JobInv, WorkRecorded, RunningRows, CheckpointChosen, EndedRests, PendingWrite,
                Working, Resting
  <2> QED BY <2>3, <2>4
<1> QED BY <1>1, <1>2, <1>3 DEF OInv

\* The handover to dictation, and the shutdown that drains the queue.
LEMMA ServiceOwn ==
    ASSUME OInv,
           \/ ArmDictation \/ DictationReady \/ EndDictation
           \/ \E j \in Jobs : PickPreempted(j)
           \/ ResumePreempted \/ PreemptedResumed \/ BeginShutdown
    PROVE  OInv'
<1>1. TypeOK'
  BY ServiceTyped DEF OInv
<1> USE DEF db, tasks
<1>2. CASE ArmDictation \/ DictationReady \/ BeginShutdown
  <2>1. UNCHANGED <<status, ckpt, threads, lost, ctl, loop, dispatcher>>
    BY <1>2 DEF ArmDictation, DictationReady, BeginShutdown
  <2>2. \A i \in Jobs : JobInv(i)'
    BY <2>1, Untouched DEF Left, threads
  <2> QED BY <1>1, <2>1, <2>2 DEF OInv, ControlWrites, LoopTurns, threads
<1>3. CASE \/ EndDictation \/ PreemptedResumed \/ \E j \in Jobs : PickPreempted(j)
  <2>1. /\ UNCHANGED <<status, ckpt, threads, lost, ctl>>
        /\ dispatcher # "turn" /\ loop'.at \in {"free", "pick", "write"}
        /\ loop'.at = "write" => loop'.job \in Jobs /\ status[loop'.job] = "paused"
    <3>1. CASE EndDictation \/ PreemptedResumed
      BY <3>1 DEF EndDictation, PreemptedResumed, LoopIsFree, LoopFree, OInv, LoopTurns
    <3>2. ASSUME NEW j \in Jobs, PickPreempted(j)
          PROVE  /\ UNCHANGED <<status, ckpt, threads, lost, ctl>>
                 /\ dispatcher # "turn" /\ loop'.at \in {"pick", "write"}
                 /\ loop'.at = "write" => loop'.job = j /\ status[j] = "paused"
      <4>1. /\ UNCHANGED <<status, ckpt, threads, lost, ctl>> /\ dispatcher # "turn"
            /\ loop.at = "pick"
        BY <3>2 DEF PickPreempted, OInv, LoopTurns
      <4>2. CASE status[j] = "paused"
        BY <3>2, <4>1, <4>2 DEF PickPreempted
      <4>3. CASE status[j] # "paused"
        <5>1. loop' = [loop EXCEPT !.todo = @ \ {j}]
          BY <3>2, <4>3 DEF PickPreempted
        <5> QED BY <4>1, <5>1 DEF OInv, TypeOK
      <4> QED BY <4>2, <4>3
    <3> QED BY <1>3, <3>1, <3>2
  <2>2. dispatcher' # "turn"
    BY <1>3, <2>1, ScheduleNoTurn DEF EndDictation, PreemptedResumed, PickPreempted
  <2>3. \A i \in Jobs : Left(i) => Left(i)'
    BY <2>1 DEF Left, threads
  <2>4. \A i \in Jobs : JobInv(i)'
    BY <2>1, <2>3, Untouched DEF threads
  <2> QED BY <1>1, <2>1, <2>2, <2>4 DEF OInv, ControlWrites, LoopTurns
<1>4. CASE ResumePreempted
  <2>0. PICK j \in Jobs : j = loop.job
    BY <1>4 DEF ResumePreempted, OInv, LoopTurns
  <2>1. /\ status' = [status EXCEPT ![j] = "pending"] /\ loop.at = "write"
        /\ loop'.at = "pick" /\ dispatcher # "turn"
        /\ UNCHANGED <<ckpt, threads, lost, ctl>>
    BY <1>4, <2>0 DEF ResumePreempted, OInv, LoopTurns, TypeOK
  <2>2. dispatcher' # "turn"
    BY <1>4, <2>1, ScheduleNoTurn DEF ResumePreempted
  <2>3. JobInv(j)'
    <3>1. ~Left(j)
      BY <2>0, <2>1 DEF Left
    <3> QED BY <2>1, <3>1, StatusWritten DEF OInv, TypeOK, Ended
  <2>4. ASSUME NEW i \in Jobs, i # j PROVE JobInv(i)'
    <3>1. status'[i] = status[i]
      BY <2>1, <2>4 DEF OInv, TypeOK
    <3>2. Left(i) => Left(i)'
      BY <2>1, <3>1 DEF Left, threads
    <3> QED BY <2>1, <3>1, <3>2, Untouched DEF threads
  <2> QED BY <1>1, <2>1, <2>2, <2>3, <2>4 DEF OInv, ControlWrites, LoopTurns
<1> QED BY <1>2, <1>3, <1>4

-----------------------------------------------------------------------------
\* The invariant holds at first, and every step keeps it.
LEMMA OwnershipInitial == Init => OInv
<1> SUFFICES ASSUME Init PROVE OInv
  OBVIOUS
<1>1. ASSUME NEW j \in Jobs PROVE JobInv(j)
  <2>1. \A c \in Checkpoints : ckpt[j][c] = NoCheckpoint
    BY DEF Init, NoRows
  <2>2. NoCheckpoint.st = "absent" /\ RowWithin(NoCheckpoint)
    BY MaxAttemptsAssumption DEF NoCheckpoint, RowWithin
  <2>3. status[j] = "absent" /\ pc[j] = "idle" /\ j \notin lost
    BY DEF Init
  <2> QED BY <2>1, <2>2, <2>3
          DEF JobInv, WorkRecorded, RunningRows, CheckpointChosen, EndedRests, PendingWrite,
              CompletedDone, Working, Resting
<1> QED BY <1>1, TypeInitial DEF OInv, Init, ControlWrites, LoopTurns, LoopFree

LEMMA OwnershipStep == OInv /\ [Next]_vars => OInv'
<1> SUFFICES ASSUME OInv, [Next]_vars PROVE OInv'
  OBVIOUS
<1>1. CASE UNCHANGED vars
  <2>1. TypeOK'
    BY <1>1, TypePreserved DEF OInv
  <2>2. UNCHANGED <<status, ckpt, threads, lost, ctl, loop, dispatcher>>
    BY <1>1 DEF vars, db, tasks
  <2>3. \A i \in Jobs : JobInv(i)'
    BY <2>2, Untouched DEF Left, threads
  <2> QED BY <2>1, <2>2, <2>3 DEF OInv, ControlWrites, LoopTurns, threads
<1>2. CASE Next
  <2>1. CASE \E j \in Jobs : Submit(j) \/ Resume(j) \/ Retry(j)
    BY <2>1, RequestsOwn
  <2>2. CASE \E j \in Jobs, s \in Segments : RetrySegment(j, s)
    BY <2>2, RequestsOwn
  <2> QED BY <1>2, <2>1, <2>2, ExecutorOwn, DispatcherOwn, ControlsOwn, ServiceOwn, RestartOwn
          DEF Next
<1> QED BY <1>1, <1>2

LEMMA OwnershipInvariant == Spec => []OInv
<1>1. Init => OInv
  BY OwnershipInitial
<1>2. OInv /\ [Next]_vars => OInv'
  BY OwnershipStep
<1> QED BY <1>1, <1>2, PTL DEF Spec

\* A running row belongs to the executor at work on it, whatever crashes and whoever
\* pauses, cancels or retries meanwhile, except under a cancelled job and where a
\* write of run_checkpoint failed itself: begin's, the one that gives the attempt back
\* or the one of the failure.
THEOREM RowsAreOwned == Spec => []CheckpointOwnership
<1>1. OInv => CheckpointOwnership
  BY DEF OInv, JobInv, WorkRecorded, RunningRows, Left, CheckpointOwnership
<1> QED BY <1>1, OwnershipInvariant, PTL

\* A row that waits to run has an attempt left, and none was begun beyond the limit.
THEOREM AttemptsBounded == Spec => []AttemptsWithinLimit
<1>1. OInv => AttemptsWithinLimit
  BY DEF OInv, JobInv, RowWithin, AttemptsWithinLimit
<1> QED BY <1>1, OwnershipInvariant, PTL

\* A job is completed only when no row of it is left to work on.
THEOREM CompletedIsDone == Spec => []CompletedMeansDone
<1>1. OInv => CompletedMeansDone
  BY DEF OInv, JobInv, CompletedDone, CompletedMeansDone
<1> QED BY <1>1, OwnershipInvariant, PTL

-----------------------------------------------------------------------------
(* Which steps undo a row, and the order in which rows begin.              *)

\* A finished row stops being one, a row starts to run.
Undone(j, c) == ckpt[j][c].st = "completed" /\ ckpt'[j][c].st # "completed"
Starts(j, c) == ckpt[j][c].st # "running" /\ ckpt'[j][c].st = "running"

\* The row is neither undone nor started by the step.
Steady(j, c) == ~Undone(j, c) /\ ~Starts(j, c)

-----------------------------------------------------------------------------
\* The order handed out is above every order in use.
LEMMA NextOrderIsAbove ==
    ASSUME TypeOK, NEW j \in Jobs
    PROVE  NextOrder \in Nat /\ order[j] < NextOrder
<1> DEFINE Bounds == {m \in 0..MaxOrder : \A i \in Jobs : order[i] <= m}
           Highest(m) == /\ \A i \in Jobs : order[i] <= m
                         /\ m = 0 \/ \E i \in Jobs : order[i] = m
<1>1. MaxOrder \in Nat /\ \A i \in Jobs : order[i] \in 0..MaxOrder
  BY PipelineAssumption DEF TypeOK
<1>2. PICK m \in Bounds : \A n \in Bounds : m <= n
  <2>1. Bounds \subseteq Nat /\ MaxOrder \in Bounds
    BY <1>1
  <2> HIDE DEF Bounds
  <2> QED BY <2>1, LeastNatural
<1>3. Highest(m)
  <2> SUFFICES ASSUME m # 0, \A i \in Jobs : order[i] # m PROVE FALSE
    BY <1>2
  <2>1. m - 1 \in 0..MaxOrder /\ \A i \in Jobs : order[i] <= m - 1
    BY <1>1, <1>2
  <2> QED BY <1>1, <1>2, <2>1
<1>4. PICK n \in 0..MaxOrder : NextOrder = 1 + n /\ Highest(n)
  <2>1. m \in 0..MaxOrder
    BY <1>2
  <2> QED BY <1>3, <2>1 DEF NextOrder
<1> QED BY <1>1, <1>4

-----------------------------------------------------------------------------
\* The steps of the executor of j.
LEMMA ExecutorRows ==
    ASSUME OInv, NEW j \in Jobs, NEW c \in Checkpoints,
           ExecutorStep(j) \/ EnterGate(j) \/ WriteLost(j) \/ ExecutionFails(j)
    PROVE  Steady(j, c) \/ (Starts(j, c) /\ ~Undone(j, c) /\ Begin(j) /\ c = cur[j])
<1>1. CASE Begin(j)
  <2> DEFINE row == Armed(j)
  <2>1. /\ cur[j] \in Checkpoints /\ ckpt[j] \in Rows /\ row.st = ckpt[j][cur[j]].st
    BY <1>1 DEF Begin, OInv, TypeOK, Rows, JobInv, CheckpointChosen, Armed
  <2>2. \/ ckpt'[j] = ckpt[j]
        \/ /\ CanBegin(status[j], row)
           /\ ckpt'[j] = [ckpt[j] EXCEPT ![cur[j]] = Begun(row)]
    BY <1>1 DEF Begin, OInv, TypeOK
  <2>3. Begun(row).st = "running"
    BY DEF Begun
  <2> HIDE DEF row
  <2> QED BY <1>1, <2>1, <2>2, <2>3 DEF CanBegin, Steady, Undone, Starts, Rows
<1>2. CASE InitializeJob(j)
  <2>1. ckpt'[j] = Initialized(j)
    BY <1>2 DEF InitializeJob, OInv, TypeOK
  <2> QED BY <2>1, InitializedRows DEF OInv, JobInv, Steady, Undone, Starts
<1>3. CASE GiveBackAttempt(j) \/ CommitFailure(j)
  <2> DEFINE row == ckpt[j][cur[j]]
  <2>1. /\ ckpt[j] \in Rows /\ cur[j] \in Checkpoints /\ row.st = "running"
    BY <1>3 DEF GiveBackAttempt, CommitFailure, Working, OInv, TypeOK, Rows, JobInv, WorkRecorded
  <2>2. PICK new : /\ new.st # "running" /\ ckpt'[j] = [ckpt[j] EXCEPT ![cur[j]] = new]
    <3>1. Interrupted(row).st # "running"
      BY DEF Interrupted
    <3>2. FailedRow(pending[j], row).st # "running"
      BY <2>1 DEF FailedRow, Rows, CheckpointRow
    <3>3. \/ ckpt' = [ckpt EXCEPT ![j][cur[j]] = Interrupted(row)]
          \/ ckpt' = [ckpt EXCEPT ![j][cur[j]] = FailedRow(pending[j], row)]
      BY <1>3 DEF GiveBackAttempt, CommitFailure
    <3>4. /\ ckpt \in [Jobs -> Rows] /\ DOMAIN ckpt[j] = Checkpoints
      BY <2>1 DEF OInv, TypeOK, Rows
    <3> HIDE DEF row
    <3>5. CASE ckpt' = [ckpt EXCEPT ![j][cur[j]] = Interrupted(row)]
      <4>1. ckpt'[j] = [ckpt[j] EXCEPT ![cur[j]] = Interrupted(row)]
        BY <3>4, <3>5
      <4> QED BY <3>1, <4>1
    <3>6. CASE ckpt' = [ckpt EXCEPT ![j][cur[j]] = FailedRow(pending[j], row)]
      <4>1. ckpt'[j] = [ckpt[j] EXCEPT ![cur[j]] = FailedRow(pending[j], row)]
        BY <3>4, <3>6
      <4> QED BY <3>2, <4>1
    <3> QED BY <3>3, <3>5, <3>6
  <2> QED BY <2>1, <2>2 DEF Steady, Undone, Starts, Rows
<1>4. CASE Complete(j)
  <2>1. /\ ckpt[j] \in Rows /\ cur[j] \in Checkpoints
    BY <1>4 DEF Complete, Working, OInv, TypeOK, Rows, JobInv, WorkRecorded
  <2>2. PICK found \in SUBSET Segments : ckpt'[j] = CompletionRows(j, found)
    BY <1>4 DEF Complete, OInv, TypeOK
  <2> DEFINE rows == CompletedRows(ckpt[j], cur[j])
  <2>3. rows[c].st = IF c = cur[j] THEN "completed" ELSE ckpt[j][c].st
    BY <2>1 DEF CompletedRows, Rows, CheckpointRow
  <2>4. \/ CompletionRows(j, found)[c] = rows[c]
        \/ CompletionRows(j, found)[c] = NewCheckpoint /\ rows[c].st = "absent"
    BY DEF CompletionRows, CreateCheckpoints
  <2> HIDE DEF rows
  <2> QED BY <2>2, <2>3, <2>4, NewRow DEF Steady, Undone, Starts
<1>5. CASE CommitStatus(j) \/ WriteLost(j) \/ ExecutionFails(j)
  BY <1>5 DEF CommitStatus, WriteLost, ExecutionFails, db, Steady, Undone, Starts
<1> QED BY <1>1, <1>2, <1>3, <1>4, <1>5, ExecutorMovesOwn DEF ExecutorStep, Steady, Undone, Starts

\* Only the executor of a job starts one of its rows, and only the retry of a segment
\* undoes a finished one.
LEMMA RowChanges ==
    ASSUME OInv, [Next]_vars, NEW j \in Jobs, NEW c \in Checkpoints
    PROVE  \/ Steady(j, c)
           \/ Starts(j, c) /\ ~Undone(j, c) /\ Begin(j) /\ c = cur[j]
           \/ ~Starts(j, c) /\ \E s \in Segments : RetrySegment(j, s)
<1> USE DEF Steady, Undone, Starts
<1>1. ASSUME NEW i \in Jobs, ExecutorStep(i) \/ EnterGate(i) \/ WriteLost(i) \/ ExecutionFails(i)
      PROVE  Steady(j, c) \/ (Starts(j, c) /\ ~Undone(j, c) /\ Begin(j) /\ c = cur[j])
  BY <1>1, ExecutorRows, ExecutorLocal DEF OInv
<1>2. CASE \/ DispatcherTurn \/ DispatcherSettles \/ \E i \in Jobs : Launch(i) \/ Submit(i)
  BY <1>2 DEF DispatcherTurn, DispatcherSettles, Launch, Submit, db
<1>3. CASE \/ \E k \in Callers, i \in Jobs : Pause(k, i) \/ Cancel(k, i)
           \/ \E k \in Callers : CommitControl(k)
           \/ Reorder \/ \E paused \in BOOLEAN : ControlQueue(paused)
  BY <1>3 DEF Pause, Cancel, CommitControl, Reorder, ControlQueue, db
<1>4. CASE \/ ArmDictation \/ DictationReady \/ EndDictation
           \/ \E i \in Jobs : PickPreempted(i) \/ Resume(i)
           \/ ResumePreempted \/ PreemptedResumed \/ BeginShutdown \/ UNCHANGED vars
  BY <1>4 DEF ArmDictation, DictationReady, EndDictation, PickPreempted, Resume,
              ResumePreempted, PreemptedResumed, BeginShutdown, vars, db
<1>5. CASE FinishSubmit
  <2>1. ckpt'[j] \in {ckpt[j], Initialized(j)}
    BY <1>5 DEF FinishSubmit, OInv, TypeOK
  <2> QED BY <2>1, InitializedRows DEF OInv, JobInv
<1>6. ASSUME NEW i \in Jobs, Retry(i) PROVE Steady(j, c)
  <2>1. \/ ckpt'[j] = ckpt[j]
        \/ Incomplete(ckpt[j]) # {} /\ ckpt'[j] = ManualRetry(ckpt[j])
    BY <1>6 DEF Retry, OInv, TypeOK
  <2>2. CASE Incomplete(ckpt[j]) # {} /\ ckpt'[j] = ManualRetry(ckpt[j])
    <3> DEFINE first == FirstIncomplete(ckpt[j])
               new == ManualRetry(ckpt[j])[first]
    <3>1. ckpt[j] \in Rows /\ first \in Checkpoints /\ ckpt[j][first].st # "completed"
      BY <2>2, PipelineRows, FirstIncompleteIsLeast DEF OInv, Incomplete, Existing
    <3>2. /\ ManualRetry(ckpt[j])[c] = IF c = first THEN new ELSE ckpt[j][c]
          /\ new.st = "retryable"
      BY <3>1 DEF ManualRetry, Rows
    <3> QED BY <2>2, <3>1, <3>2
  <2> QED BY <2>1, <2>2
<1>7. ASSUME NEW i \in Jobs, NEW s \in Segments, RetrySegment(i, s)
      PROVE  Steady(j, c) \/ (~Starts(j, c) /\ RetrySegment(j, s))
  <2>1. \/ ckpt'[j] = ckpt[j]
        \/ i = j /\ ckpt'[j][c] \in {ckpt[j][c], Reset(ckpt[j][c])}
    BY <1>7 DEF RetrySegment, OInv, TypeOK
  <2> QED BY <1>7, <2>1 DEF Reset
<1>8. CASE Restart
  <2> DEFINE rows == IF status[j] = "pending" THEN Initialized(j) ELSE ckpt[j]
  <2>1. ckpt'[j] = RecoveredCk(status[j], rows)
    BY <1>8 DEF Restart
  <2>2. rows \in Rows /\ (\A d \in Checkpoints : RowWithin(rows[d]))
        /\ (rows[c].st = "running" <=> ckpt[j][c].st = "running")
        /\ (ckpt[j][c].st = "completed" => rows[c] = ckpt[j][c])
    BY PipelineRows, InitializedRows DEF OInv, JobInv
  <2> HIDE DEF rows
  <2>3. \/ ckpt'[j][c] = rows[c]
        \/ rows[c].st = "running" /\ ckpt'[j][c].st # "running"
    BY <2>1, <2>2, RecoveredRowsRest DEF RecoveredCk, RecoveredRows
  <2> QED BY <2>2, <2>3
<1> QED BY <1>1, <1>2, <1>3, <1>4, <1>5, <1>6, <1>7, <1>8 DEF Next

\* A finished checkpoint is done again only because the user asked for its segment,
\* which also puts the job at the end of the queue.
THEOREM FinishedWorkKept == Spec => CompletedWorkKept
<1> DEFINE Kept == \A j \in Jobs, c \in Checkpoints :
                      Undone(j, c) => ckpt'[j][c].st = "pending" /\ order'[j] > order[j]
<1>1. ASSUME OInv, [Next]_vars PROVE Kept
  <2> SUFFICES ASSUME NEW j \in Jobs, NEW c \in Checkpoints, Undone(j, c)
               PROVE  ckpt'[j][c].st = "pending" /\ order'[j] > order[j]
    OBVIOUS
  <2>1. PICK s \in Segments : RetrySegment(j, s)
    BY <1>1, RowChanges DEF Steady, Undone, Starts
  <2>2. ckpt'[j][c] \in {ckpt[j][c], Reset(ckpt[j][c])} /\ order'[j] = NextOrder
    BY <1>1, <2>1 DEF RetrySegment, Requeue, OInv, TypeOK
  <2>3. order[j] < NextOrder /\ order[j] \in Nat /\ NextOrder \in Nat
    BY <1>1, NextOrderIsAbove, PipelineAssumption DEF OInv, TypeOK
  <2> QED BY <2>2, <2>3 DEF Undone, Reset
<1>2. OInv /\ [Next]_vars => [Kept]_vars
  BY <1>1
<1> QED BY <1>2, OwnershipInvariant, PTL DEF Spec, CompletedWorkKept, Undone

-----------------------------------------------------------------------------
(* The order of the checkpoints, where no segment is asked for again: a     *)
(* segment's rows may start over behind the back of an executor that has    *)
(* chosen a later row.  What run_next chose stays the first incomplete row  *)
(* until the executor is done with it.                                      *)

First(j) == cur[j] \in Incomplete(ckpt[j]) /\ \A d \in Incomplete(ckpt[j]) : cur[j] <= d

AtWork(j) == pc[j] = "begin" \/ (pc[j] = "commit" /\ after[j] = "begin") \/ pc[j] \in Working

Chosen(j) == AtWork(j) => First(j)

PInv == OInv /\ \A j \in Jobs : Chosen(j)

\* An executor that keeps its row, and a step that does not touch it.
LEMMA ChosenKept ==
    ASSUME PInv, NEW j \in Jobs, ckpt'[j] = ckpt[j], cur'[j] = cur[j], AtWork(j)' => AtWork(j)
    PROVE  Chosen(j)'
BY DEF PInv, Chosen, First, Incomplete, Existing

\* A job that is not at work.
LEMMA ChosenLater ==
    ASSUME NEW j \in Jobs, pc'[j] \notin Working \cup {"begin"},
           pc'[j] = "commit" => after'[j] # "begin"
    PROVE  Chosen(j)'
BY DEF Chosen, AtWork

\* The executor of j.
LEMMA ExecutorChosen ==
    ASSUME PInv, NEW j \in Jobs,
           ExecutorStep(j) \/ EnterGate(j) \/ WriteLost(j) \/ ExecutionFails(j)
    PROVE  Chosen(j)'
<1> USE DEF Goto, CommitLater, db
<1>0. TypeOK /\ j \in DOMAIN pc /\ j \in DOMAIN cur /\ j \in DOMAIN after
  BY DEF PInv, OInv, TypeOK
<1>1. CASE \/ InitializeJob(j) \/ Claim(j) \/ NextEnded(j) \/ NextYields(j) \/ NextPreempted(j)
           \/ Preempt(j) \/ GiveBackAttempt(j) \/ CommitFailure(j) \/ Close(j)
           \/ WriteLost(j) \/ ExecutionFails(j)
  <2>1. /\ pc'[j] \in {"claim", "commit", "next", "closing", "preempt", "done"}
        /\ pc'[j] = "commit" => after'[j] \in {"next", "closing"}
    BY <1>0, <1>1 DEF InitializeJob, Claim, NextEnded, NextYields, NextPreempted, Preempt,
                      GiveBackAttempt, CommitFailure, Close, WriteLost, ExecutionFails
  <2> QED BY <2>1, ChosenLater DEF Working
<1>2. CASE NextCheckpoint(j)
  <2> DEFINE rest == Incomplete(ckpt[j])
             label == IF status[j] = "paused" \/ rest = {} THEN "closing" ELSE "begin"
  <2>1. /\ pc'[j] \in {"commit", label} /\ ckpt' = ckpt
        /\ pc'[j] = "commit" => after'[j] = label
        /\ label = "begin" => cur'[j] = FirstIncomplete(ckpt[j])
    BY <1>0, <1>2 DEF NextCheckpoint
  <2>2. CASE label = "begin"
    <3>1. ckpt[j] \in Rows /\ rest # {}
      BY <1>0, <2>2 DEF TypeOK, Rows
    <3>2. FirstIncomplete(ckpt[j]) \in rest /\ \A d \in rest : FirstIncomplete(ckpt[j]) <= d
      BY <3>1, FirstIncompleteIsLeast
    <3> QED BY <2>1, <2>2, <3>2 DEF Chosen, First, Incomplete, Existing
  <2>3. CASE label = "closing"
    <3> HIDE DEF label
    <3> QED BY <2>1, <2>3, ChosenLater DEF Working
  <2>4. label \in {"begin", "closing"}
    OBVIOUS
  <2> HIDE DEF label
  <2> QED BY <2>2, <2>3, <2>4
<1>3. CASE CommitStatus(j)
  <2>1. /\ pc[j] = "commit" /\ pc'[j] = after[j] /\ UNCHANGED <<ckpt, cur, after>>
        /\ after[j] \in {"next", "begin", "closing"}
    BY <1>0, <1>3 DEF CommitStatus, TypeOK
  <2>2. AtWork(j)' => AtWork(j)
    BY <2>1 DEF AtWork, Working
  <2> QED BY <2>1, <2>2, ChosenKept
<1>4. CASE Begin(j)
  <2> DEFINE row == Armed(j)
  <2>1. CASE CanBegin(status[j], row)
    <3>1. /\ First(j) /\ cur'[j] = cur[j] /\ ckpt[j] \in Rows /\ cur[j] \in Checkpoints
          /\ ckpt'[j] = [ckpt[j] EXCEPT ![cur[j]] = Begun(row)]
      BY <1>0, <1>4, <2>1 DEF Begin, TypeOK, Rows, PInv, Chosen, AtWork, First, Incomplete, Existing
    <3>2. Begun(row).st = "running"
      BY DEF Begun
    <3>3. ckpt[j][cur[j]].st \in {"pending", "retryable"}
      BY <2>1, <3>1 DEF CanBegin, Armed
    <3> HIDE DEF row
    <3>4. Incomplete(ckpt'[j]) = Incomplete(ckpt[j])
      BY <3>1, <3>2, <3>3 DEF Incomplete, Existing, Rows
    <3>5. First(j)'
      BY <3>1, <3>4 DEF First, Incomplete, Existing
    <3> QED BY <3>5 DEF Chosen
  <2>2. CASE ~CanBegin(status[j], row)
    <3>1. pc'[j] = "closing"
      BY <1>0, <1>4, <2>2 DEF Begin
    <3> QED BY <3>1, ChosenLater DEF Working
  <2> QED BY <2>1, <2>2
<1>5. CASE Complete(j)
  <2>1. pc'[j] \in {"closing", "next"}
    BY <1>0, <1>5 DEF Complete
  <2> QED BY <2>1, ChosenLater DEF Working
<1>6. CASE \/ EnterGate(j) \/ PassGate(j) \/ TurnedAway(j) \/ LeaveGpu(j) \/ GpuFails(j)
           \/ YieldAtBoundary(j) \/ OperationFails(j) \/ ReadFailure(j)
  <2>1. UNCHANGED <<ckpt, cur>> /\ pc[j] \in Working
    BY <1>6 DEF EnterGate, PassGate, TurnedAway, LeaveGpu, GpuFails, YieldAtBoundary,
                OperationFails, ReadFailure, Working
  <2> QED BY <2>1, ChosenKept DEF AtWork
<1> QED BY <1>1, <1>2, <1>3, <1>4, <1>5, <1>6 DEF ExecutorStep

\* The other steps leave the thread alone, and write rows only of a job at rest.
LEMMA OthersChosen ==
    ASSUME PInv, NEW j \in Jobs, "segment" \notin Controls, [Next]_vars,
           \A i \in Jobs : ~(ExecutorStep(i) \/ EnterGate(i) \/ WriteLost(i) \/ ExecutionFails(i))
    PROVE  Chosen(j)'
<1> DEFINE Asleep == UNCHANGED <<threads, ckpt>>
<1> USE DEF db
<1>1. CASE \/ DispatcherSettles \/ Reorder \/ BeginShutdown \/ UNCHANGED vars
           \/ \E paused \in BOOLEAN : ControlQueue(paused)
  <2>1. Asleep
    BY <1>1 DEF DispatcherSettles, Reorder, BeginShutdown, ControlQueue, vars
  <2> QED BY <2>1, ChosenKept DEF threads, AtWork
<1>2. CASE \/ \E k \in Callers, i \in Jobs : Pause(k, i) \/ Cancel(k, i)
           \/ \E k \in Callers : CommitControl(k)
           \/ \E i \in Jobs : Submit(i) \/ Resume(i)
  <2>1. Asleep
    BY <1>2 DEF Pause, Cancel, CommitControl, Submit, Resume
  <2> QED BY <2>1, ChosenKept DEF threads, AtWork
<1>3. CASE \/ ArmDictation \/ DictationReady \/ EndDictation \/ ResumePreempted
           \/ PreemptedResumed \/ \E i \in Jobs : PickPreempted(i)
  <2>1. Asleep
    BY <1>3 DEF ArmDictation, DictationReady, EndDictation, ResumePreempted, PreemptedResumed,
                PickPreempted
  <2> QED BY <2>1, ChosenKept DEF threads, AtWork
<1>4. CASE FinishSubmit
  <2>1. PICK i \in Jobs : i = loop.job /\ pc[i] = "idle"
    BY <1>4 DEF FinishSubmit, PInv, OInv, LoopTurns
  <2>2. UNCHANGED threads /\ ckpt' = [ckpt EXCEPT ![i] = Initialized(i)]
    BY <1>4, <2>1 DEF FinishSubmit
  <2>3. CASE i = j
    BY <2>1, <2>2, <2>3, ChosenLater DEF threads, Working
  <2>4. CASE i # j
    <3>1. ckpt'[j] = ckpt[j]
      BY <2>2, <2>4 DEF PInv, OInv, TypeOK
    <3> QED BY <2>2, <3>1, ChosenKept DEF threads, AtWork
  <2> QED BY <2>3, <2>4
<1>5. ASSUME NEW i \in Jobs, Retry(i) PROVE Chosen(j)'
  <2>1. UNCHANGED threads /\ (ckpt'[j] = ckpt[j] \/ (i = j /\ status[i] = "failed"))
    BY <1>5 DEF Retry, PInv, OInv, TypeOK
  <2>2. CASE ckpt'[j] = ckpt[j]
    BY <2>1, <2>2, ChosenKept DEF threads, AtWork
  <2>3. CASE i = j /\ status[i] = "failed"
    <3>1. pc[j] \in Resting
      BY <2>3 DEF PInv, OInv, JobInv, EndedRests, Ended
    <3> QED BY <2>1, <3>1, ChosenLater DEF threads, Resting, Working
  <2> QED BY <2>1, <2>2, <2>3
<1>6. CASE \E i \in Jobs, s \in Segments : RetrySegment(i, s)
  BY <1>6 DEF RetrySegment
<1>7. CASE Restart
  <2>1. pc'[j] = "idle"
    BY <1>7 DEF Restart
  <2> QED BY <2>1, ChosenLater DEF Working
<1>8. CASE DispatcherTurn \/ \E i \in Jobs : Launch(i)
  <2>1. UNCHANGED <<ckpt, cur, after>> /\ pc'[j] \in {pc[j], "idle", "init"}
    BY <1>8 DEF DispatcherTurn, Launch, Goto, PInv, OInv, TypeOK
  <2>2. AtWork(j)' => AtWork(j)
    BY <2>1 DEF AtWork, Working
  <2> QED BY <2>1, <2>2, ChosenKept
<1> QED BY <1>1, <1>2, <1>3, <1>4, <1>5, <1>6, <1>7, <1>8 DEF Next

LEMMA ChosenInvariant ==
    ASSUME "segment" \notin Controls
    PROVE  Spec => []PInv
<1>1. Init => PInv
  <2> SUFFICES ASSUME Init PROVE PInv
    OBVIOUS
  <2>1. \A j \in Jobs : ~AtWork(j)
    BY DEF Init, AtWork, Working
  <2> QED BY <2>1, OwnershipInitial DEF PInv, Chosen
<1>2. PInv /\ [Next]_vars => PInv'
  <2> SUFFICES ASSUME PInv, [Next]_vars, NEW j \in Jobs PROVE Chosen(j)'
    BY OwnershipStep DEF PInv
  <2>1. ASSUME NEW i \in Jobs, ExecutorStep(i) \/ EnterGate(i) \/ WriteLost(i) \/ ExecutionFails(i)
        PROVE  Chosen(j)'
    <3>1. CASE i = j
      BY <2>1, <3>1, ExecutorChosen
    <3>2. CASE i # j
      <4>1. /\ ckpt'[j] = ckpt[j] /\ cur'[j] = cur[j] /\ pc'[j] = pc[j] /\ after'[j] = after[j]
        BY <2>1, <3>2, ExecutorLocal DEF PInv, OInv
      <4> QED BY <4>1, ChosenKept DEF AtWork
    <3> QED BY <3>1, <3>2
  <2> QED BY <2>1, OthersChosen
<1> QED BY <1>1, <1>2, PTL DEF Spec

\* A checkpoint begins only after all those before it, as long as no segment is asked
\* for again.
THEOREM BeginsInOrder ==
    ASSUME "segment" \notin Controls
    PROVE  Spec => ChecksInOrder
<1> DEFINE Ordered == \A j \in Jobs, c \in Checkpoints : Starts(j, c) =>
                         \A d \in Existing(ckpt[j]) : d < c => ckpt[j][d].st = "completed"
<1>1. ASSUME PInv, [Next]_vars PROVE Ordered
  <2> SUFFICES ASSUME NEW j \in Jobs, NEW c \in Checkpoints, Starts(j, c),
                      NEW d \in Existing(ckpt[j]), d < c, ckpt[j][d].st # "completed"
               PROVE  FALSE
    OBVIOUS
  <2>1. Begin(j) /\ c = cur[j]
    BY <1>1, RowChanges DEF PInv, Steady
  <2>2. c <= d
    BY <1>1, <2>1 DEF Begin, PInv, Chosen, AtWork, First, Incomplete
  <2>3. c \in Nat /\ d \in Nat
    BY CheckpointsAssumption DEF Existing
  <2> QED BY <2>2, <2>3
<1>2. PInv /\ [Next]_vars => [Ordered]_vars
  BY <1>1
<1> QED BY <1>2, ChosenInvariant, PTL DEF Spec, ChecksInOrder, Starts

-----------------------------------------------------------------------------
(* No stranded job.  Only an executor writes that its job is running, so    *)
(* that nobody else changes the rows while it is: what its executor saw     *)
(* when it stopped is still so (StopsForGood).  The row it chose is a row   *)
(* left to do whoever has paused, cancelled or retried the job since        *)
(* (ChosenIsLeft), and the failing transaction of a running job has read    *)
(* that it is running (FailsRunning).                                       *)

ChosenIsLeft(j) ==
    pc[j] = "begin" \/ (pc[j] = "commit" /\ after[j] = "begin") => cur[j] \in Incomplete(ckpt[j])
FailsRunning(j) == pc[j] = "failing" /\ status[j] = "running" => pending[j] = "running"
StopsForGood(j) ==
    status[j] = "running" /\ pc[j] \in Resting => j \in lost \/ NothingToBegin(j)

RunInv(j) == ChosenIsLeft(j) /\ FailsRunning(j) /\ StopsForGood(j)

SInv ==
    /\ OInv
    /\ loop.at = "submit" => status[loop.job] # "running"
    /\ \A j \in Jobs : RunInv(j)

\* A step that leaves the thread and the rows of the job alone, and does not write that
\* it is running.
LEMMA RunKept ==
    ASSUME SInv, NEW j \in Jobs, status'[j] = status[j] \/ status'[j] # "running",
           ckpt'[j] = ckpt[j], pc'[j] = pc[j], cur'[j] = cur[j], pending'[j] = pending[j],
           after'[j] = after[j], j \in lost => j \in lost'
    PROVE  RunInv(j)'
<1>1. ChosenIsLeft(j)' /\ FailsRunning(j)'
  BY DEF SInv, RunInv, ChosenIsLeft, FailsRunning, Incomplete, Existing
<1>2. StopsForGood(j)'
  BY DEF SInv, RunInv, StopsForGood, NothingToBegin, Incomplete, Existing
<1> QED BY <1>1, <1>2 DEF RunInv

\* A request that makes rows wait again, of a job it queues.
LEMMA RunQueued ==
    ASSUME SInv, NEW j \in Jobs, status'[j] # "running", pc'[j] = pc[j], cur'[j] = cur[j],
           after'[j] = after[j],
           \A c \in Incomplete(ckpt[j]) : c \in Incomplete(ckpt'[j])
    PROVE  RunInv(j)'
<1>1. ChosenIsLeft(j)'
  BY DEF SInv, RunInv, ChosenIsLeft, Incomplete, Existing
<1> QED BY <1>1 DEF RunInv, FailsRunning, StopsForGood

\* A job that goes on: it is neither at rest, nor about to begin a row, nor failing.
LEMMA RunGoesOn ==
    ASSUME NEW j \in Jobs, pc'[j] \notin Resting \cup {"begin", "failing"},
           pc'[j] = "commit" => after'[j] # "begin"
    PROVE  RunInv(j)'
BY DEF RunInv, ChosenIsLeft, FailsRunning, StopsForGood, Resting

\* A job at rest that is not running.
LEMMA RunRests ==
    ASSUME NEW j \in Jobs, pc'[j] \in Resting, status'[j] # "running"
    PROVE  RunInv(j)'
BY DEF RunInv, ChosenIsLeft, FailsRunning, StopsForGood, Resting

\* The moves of an executor that write neither the job nor its rows.
LEMMA MovesRun ==
    ASSUME SInv, NEW j \in Jobs,
           \/ Claim(j) \/ NextEnded(j) \/ NextYields(j) \/ NextPreempted(j) \/ Preempt(j)
           \/ NextCheckpoint(j) \/ EnterGate(j) \/ PassGate(j) \/ TurnedAway(j) \/ LeaveGpu(j)
           \/ GpuFails(j) \/ YieldAtBoundary(j) \/ OperationFails(j) \/ ReadFailure(j) \/ Close(j)
    PROVE  RunInv(j)'
<1> USE DEF Goto, CommitLater, db
<1>0. /\ j \in DOMAIN pc /\ j \in DOMAIN cur /\ j \in DOMAIN pending /\ j \in DOMAIN after
      /\ TypeOK /\ RunInv(j)
  BY DEF SInv, OInv, TypeOK
<1>1. UNCHANGED <<status, ckpt, lost>>
  BY ExecutorMovesOwn DEF SInv
<1>2. CASE Claim(j) \/ NextEnded(j) \/ NextYields(j) \/ NextPreempted(j) \/ Preempt(j)
  <2>1. \/ pc'[j] \in {"next", "preempt"}
        \/ pc'[j] = "commit" /\ after'[j] \in {"next", "closing"}
        \/ pc'[j] = "closing" /\ status[j] # "running"
    BY <1>0, <1>2 DEF Claim, NextEnded, NextYields, NextPreempted, Preempt, Live, TerminalStatus
  <2> QED BY <1>1, <2>1, RunGoesOn, RunRests DEF Resting
<1>3. CASE NextCheckpoint(j)
  <2> DEFINE rest == Incomplete(ckpt[j])
             label == IF status[j] = "paused" \/ rest = {} THEN "closing" ELSE "begin"
  <2>1. /\ status[j] \in {"pending", "running", "paused"}
        /\ IF status[j] = "pending" THEN pc'[j] = "commit" /\ after'[j] = label
           ELSE pc'[j] = label
        /\ label = "begin" => cur'[j] = FirstIncomplete(ckpt[j])
    BY <1>0, <1>3 DEF NextCheckpoint, Live
  <2>2. CASE label = "begin"
    <3>1. ckpt[j] \in Rows /\ rest # {}
      BY <1>0, <2>2 DEF TypeOK, Rows
    <3>2. FirstIncomplete(ckpt[j]) \in rest
      BY <3>1, FirstIncompleteIsLeast
    <3>3. cur'[j] \in Incomplete(ckpt'[j]) /\ pc'[j] \in {"commit", "begin"}
      BY <1>1, <2>1, <2>2, <3>2
    <3> QED BY <3>3 DEF RunInv, ChosenIsLeft, FailsRunning, StopsForGood, Resting, Incomplete,
                        Existing
  <2>3. CASE label = "closing"
    <3>1. \/ pc'[j] = "commit" /\ after'[j] = "closing"
          \/ pc'[j] = "closing" /\ (status[j] = "running" => rest = {})
      BY <2>1, <2>3
    <3>2. CASE pc'[j] = "commit" /\ after'[j] = "closing"
      BY <3>2, RunGoesOn DEF Resting
    <3>3. CASE pc'[j] = "closing" /\ (status[j] = "running" => rest = {})
      BY <1>1, <3>3 DEF RunInv, ChosenIsLeft, FailsRunning, StopsForGood, NothingToBegin,
                        Incomplete, Existing
    <3> QED BY <3>1, <3>2, <3>3
  <2>4. label \in {"begin", "closing"}
    OBVIOUS
  <2> HIDE DEF label
  <2> QED BY <2>2, <2>3, <2>4
<1>4. CASE \/ EnterGate(j) \/ PassGate(j) \/ TurnedAway(j) \/ LeaveGpu(j) \/ GpuFails(j)
           \/ YieldAtBoundary(j) \/ OperationFails(j)
  <2>1. pc'[j] \in {"gate", "gpu", "yield", "op", "fail"}
    BY <1>0, <1>4 DEF EnterGate, PassGate, TurnedAway, LeaveGpu, GpuFails, YieldAtBoundary,
                      OperationFails
  <2> QED BY <2>1, RunGoesOn DEF Resting
<1>5. CASE ReadFailure(j)
  <2>1. pc'[j] = "failing" /\ pending'[j] = status[j]
    BY <1>0, <1>5 DEF ReadFailure
  <2> QED BY <1>1, <2>1 DEF RunInv, ChosenIsLeft, FailsRunning, StopsForGood, Resting
<1>6. CASE Close(j)
  <2>1. pc[j] = "closing" /\ pc'[j] = "done" /\ UNCHANGED <<cur, pending, after>>
    BY <1>0, <1>6 DEF Close
  <2> QED BY <1>0, <1>1, <2>1
          DEF RunInv, ChosenIsLeft, FailsRunning, StopsForGood, NothingToBegin, Incomplete,
              Existing, Resting
<1> QED BY <1>2, <1>3, <1>4, <1>5, <1>6

\* The transactions of an executor.
LEMMA WritesRun ==
    ASSUME SInv, NEW j \in Jobs,
           \/ InitializeJob(j) \/ CommitStatus(j) \/ Begin(j) \/ GiveBackAttempt(j)
           \/ CommitFailure(j) \/ Complete(j) \/ WriteLost(j) \/ ExecutionFails(j)
    PROVE  RunInv(j)'
<1> USE DEF Goto, db
<1>0. TypeOK /\ RunInv(j) /\ JobInv(j)
  BY DEF SInv, OInv
<1>1. CASE InitializeJob(j) \/ GiveBackAttempt(j)
  <2>1. pc'[j] \in {"claim", "next"}
    BY <1>0, <1>1 DEF InitializeJob, GiveBackAttempt, TypeOK
  <2> QED BY <2>1, RunGoesOn DEF Resting
<1>2. CASE CommitStatus(j)
  <2>1. /\ pc[j] = "commit" /\ pc'[j] = after[j] /\ status'[j] = pending[j]
        /\ UNCHANGED <<ckpt, cur, pending, after>> /\ after[j] \in {"next", "begin", "closing"}
    BY <1>0, <1>2 DEF CommitStatus, TypeOK
  <2>2. CASE after[j] = "next"
    BY <2>1, <2>2, RunGoesOn DEF Resting
  <2>3. CASE after[j] = "begin"
    BY <1>0, <2>1, <2>3 DEF RunInv, ChosenIsLeft, FailsRunning, StopsForGood, Resting,
                            Incomplete, Existing
  <2>4. CASE after[j] = "closing"
    BY <2>1, <2>4 DEF RunInv, ChosenIsLeft, FailsRunning, StopsForGood, NothingToBegin
  <2> QED BY <2>1, <2>2, <2>3, <2>4
<1>3. CASE Begin(j)
  <2> DEFINE row == ckpt[j][cur[j]]
  <2>1. CASE CanBegin(status[j], Armed(j))
    <3>1. pc'[j] = "op"
      BY <1>0, <1>3, <2>1 DEF Begin, TypeOK
    <3> QED BY <3>1, RunGoesOn DEF Resting
  <2>2. CASE ~CanBegin(status[j], Armed(j))
    <3>1. /\ pc[j] = "begin" /\ pc'[j] = "closing" /\ UNCHANGED <<status, ckpt, cur, lost>>
      BY <1>0, <1>3, <2>2 DEF Begin, TypeOK, outside
    <3>2. /\ cur[j] \in Checkpoints /\ row \in CheckpointRow /\ RowWithin(row)
          /\ row.st \notin {"absent", "completed"}
      BY <1>0, <3>1 DEF RunInv, ChosenIsLeft, Incomplete, Existing, TypeOK, JobInv
    <3>3. ASSUME status[j] = "running", j \notin lost PROVE row.st \in {"failed", "cancelled"}
      <4>1. row.st # "running"
        BY <1>0, <3>1, <3>2, <3>3 DEF JobInv, RunningRows, Left, Working
      <4>2. row.st \notin {"pending", "retryable"}
        <5> SUFFICES ASSUME row.st \in {"pending", "retryable"} PROVE FALSE
          OBVIOUS
        <5>1. row.n \in Nat /\ row.n < row.max
          BY <3>2 DEF RowWithin, CheckpointRow
        <5> HIDE DEF row
        <5>2. /\ Armed(j).st = row.st /\ Armed(j).n = row.n
              /\ Armed(j).max \in {row.max, row.n + 1}
          BY DEF Armed, row
        <5> QED BY <2>2, <3>3, <5>1, <5>2 DEF CanBegin
      <4> QED BY <3>2, <4>1, <4>2 DEF CheckpointRow, CheckpointStatus
    <3>4. StopsForGood(j)'
      BY <3>1, <3>2, <3>3 DEF StopsForGood, NothingToBegin
    <3> QED BY <3>1, <3>4 DEF RunInv, ChosenIsLeft, FailsRunning
  <2> QED BY <2>1, <2>2
<1>4. CASE CommitFailure(j)
  <2>1. pc[j] = "failing" /\ pc'[j] = "closing"
    BY <1>0, <1>4 DEF CommitFailure, TypeOK
  <2>2. FailedStatus(pending[j], ckpt[j][cur[j]]) # "running"
    BY DEF FailedStatus
  <2>3. status'[j] # "running"
    BY <1>0, <1>4, <2>1, <2>2 DEF CommitFailure, TypeOK, RunInv, FailsRunning
  <2> QED BY <2>1, <2>3, RunRests DEF Resting
<1>5. CASE Complete(j)
  <2>1. \/ pc'[j] = "next"
        \/ pc'[j] = "closing" /\ status'[j] \in TerminalStatus
    BY <1>0, <1>5 DEF Complete, TypeOK
  <2> QED BY <2>1, RunGoesOn, RunRests DEF Resting, TerminalStatus
<1>6. CASE WriteLost(j)
  <2>1. pc'[j] = "closing" /\ j \in lost'
    BY <1>0, <1>6 DEF WriteLost, TypeOK
  <2> QED BY <2>1 DEF RunInv, ChosenIsLeft, FailsRunning, StopsForGood
<1>7. CASE ExecutionFails(j)
  <2>1. pc'[j] = "done" /\ status'[j] = "failed"
    BY <1>0, <1>7 DEF ExecutionFails, TypeOK
  <2> QED BY <2>1, RunRests DEF Resting
<1> QED BY <1>1, <1>2, <1>3, <1>4, <1>5, <1>6, <1>7

\* The user's retry and the retry of a segment leave what is left to do.
LEMMA RetriedLeft ==
    ASSUME SInv, NEW j \in Jobs, Retry(j) \/ \E s \in Segments : RetrySegment(j, s)
    PROVE  \A c \in Incomplete(ckpt[j]) : c \in Incomplete(ckpt'[j])
<1>1. ckpt[j] \in Rows
  BY DEF SInv, OInv, TypeOK, Rows
<1>2. CASE Retry(j)
  <2>1. CASE ckpt'[j] = ckpt[j]
    BY <2>1 DEF Incomplete, Existing
  <2>2. CASE Incomplete(ckpt[j]) # {} /\ ckpt'[j] = ManualRetry(ckpt[j])
    <3>1. PICK new : /\ ckpt'[j] = [ckpt[j] EXCEPT ![FirstIncomplete(ckpt[j])] = new]
                     /\ new.st = "retryable"
      BY <2>2 DEF ManualRetry
    <3> QED BY <1>1, <3>1 DEF Incomplete, Existing, Rows
  <2> QED BY <1>2, <2>1, <2>2 DEF Retry, SInv, OInv, TypeOK
<1>3. ASSUME NEW s \in Segments, RetrySegment(j, s)
      PROVE  \A c \in Incomplete(ckpt[j]) : c \in Incomplete(ckpt'[j])
  <2>1. \A c \in Checkpoints : ckpt'[j][c] \in {ckpt[j][c], Reset(ckpt[j][c])}
    BY <1>3 DEF RetrySegment, SInv, OInv, TypeOK
  <2> QED BY <2>1 DEF Reset, Incomplete, Existing
<1> QED BY <1>2, <1>3

\* Every step keeps it.
LEMMA RunStep ==
    ASSUME SInv, [Next]_vars
    PROVE  /\ \A j \in Jobs : RunInv(j)'
           /\ loop'.at = "submit" => status'[loop'.job] # "running"
<1> DEFINE Kept == /\ \A j \in Jobs : RunInv(j)'
                   /\ loop'.at = "submit" => status'[loop'.job] # "running"
<1> USE DEF db, tasks
<1>0. TypeOK /\ LoopTurns /\ ControlWrites
  BY DEF SInv, OInv
<1>1. ASSUME NEW i \in Jobs, ExecutorStep(i) \/ EnterGate(i) \/ WriteLost(i) \/ ExecutionFails(i)
      PROVE  Kept
  <2>1. /\ \A j \in Jobs \ {i} :
              /\ status'[j] = status[j] /\ ckpt'[j] = ckpt[j] /\ pc'[j] = pc[j]
              /\ cur'[j] = cur[j] /\ pending'[j] = pending[j] /\ after'[j] = after[j]
              /\ j \in lost' <=> j \in lost
        /\ loop' = loop /\ pc[i] # "idle"
    BY <1>0, <1>1, ExecutorLocal, ExecutorMoves
  <2>2. RunInv(i)'
    BY <1>1, MovesRun, WritesRun DEF ExecutorStep
  <2>3. ASSUME NEW j \in Jobs, j # i PROVE RunInv(j)'
    BY <2>1, <2>3, RunKept
  <2>4. loop'.at = "submit" => status'[loop'.job] # "running"
    BY <1>0, <2>1 DEF SInv, LoopTurns
  <2> QED BY <2>2, <2>3, <2>4
<1>2. ASSUME /\ UNCHANGED <<ckpt, threads, lost>>
             /\ \A j \in Jobs : status'[j] = status[j] \/ status'[j] # "running",
             loop'.at = "submit" => status'[loop'.job] # "running"
      PROVE  Kept
  BY <1>2, RunKept DEF threads
<1>3. CASE \/ DispatcherSettles \/ Reorder \/ BeginShutdown \/ UNCHANGED vars
           \/ ArmDictation \/ DictationReady \/ \E paused \in BOOLEAN : ControlQueue(paused)
           \/ \E k \in Callers, i \in Jobs : Pause(k, i) \/ Cancel(k, i)
  <2>1. UNCHANGED <<status, ckpt, threads, lost, loop>>
    BY <1>3 DEF DispatcherSettles, Reorder, BeginShutdown, vars, ArmDictation, DictationReady,
                ControlQueue, Pause, Cancel
  <2> QED BY <1>2, <2>1 DEF SInv
<1>4. CASE EndDictation \/ PreemptedResumed \/ \E i \in Jobs : PickPreempted(i)
  <2>1. UNCHANGED <<status, ckpt, threads, lost>>
    BY <1>4 DEF EndDictation, PreemptedResumed, PickPreempted
  <2>2. loop'.at # "submit"
    <3>1. CASE EndDictation \/ PreemptedResumed
      BY <3>1 DEF EndDictation, PreemptedResumed, LoopFree
    <3>2. ASSUME NEW i \in Jobs, PickPreempted(i) PROVE loop'.at # "submit"
      <4>1. CASE status[i] = "paused"
        BY <3>2, <4>1 DEF PickPreempted
      <4>2. CASE status[i] # "paused"
        <5>1. loop' = [loop EXCEPT !.todo = @ \ {i}] /\ loop.at = "pick"
          BY <3>2, <4>2 DEF PickPreempted
        <5> QED BY <1>0, <5>1 DEF TypeOK
      <4> QED BY <4>1, <4>2
    <3> QED BY <1>4, <3>1, <3>2
  <2> QED BY <1>2, <2>1, <2>2
<1>5. ASSUME NEW k \in Callers, CommitControl(k) PROVE Kept
  <2>1. PICK w \in {"paused", "cancelling", "cancelled"} :
           status' = [status EXCEPT ![ctl[k].job] = w]
    BY <1>0, <1>5 DEF CommitControl, ControlWrites
  <2>2. UNCHANGED <<ckpt, threads, lost, loop>>
    BY <1>5 DEF CommitControl
  <2>3. \A j \in Jobs : status'[j] = status[j] \/ status'[j] # "running"
    BY <1>0, <2>1 DEF TypeOK
  <2>4. loop'.at = "submit" => status'[loop'.job] # "running"
    BY <1>0, <2>2, <2>3 DEF SInv, LoopTurns
  <2> QED BY <1>2, <2>2, <2>3, <2>4
<1>6. ASSUME NEW i \in Jobs, Submit(i) \/ Resume(i) PROVE Kept
  <2>1. status' = [status EXCEPT ![i] = "pending"] /\ UNCHANGED <<ckpt, threads, lost>>
    BY <1>6 DEF Submit, Resume, Requeue
  <2>2. \A j \in Jobs : status'[j] = status[j] \/ status'[j] # "running"
    BY <1>0, <2>1 DEF TypeOK
  <2>3. loop'.at = "submit" => loop'.job = i
    BY <1>6 DEF Submit, Resume, LoopIsFree
  <2>4. loop'.at = "submit" => status'[loop'.job] # "running"
    BY <1>0, <2>1, <2>3 DEF TypeOK
  <2> QED BY <1>2, <2>1, <2>2, <2>4
<1>7. CASE ResumePreempted
  <2>1. /\ UNCHANGED <<ckpt, threads, lost>> /\ loop'.at # "submit"
        /\ status' = [status EXCEPT ![loop.job] = "pending"]
    BY <1>0, <1>7 DEF ResumePreempted, TypeOK
  <2>2. \A j \in Jobs : status'[j] = status[j] \/ status'[j] # "running"
    BY <1>0, <2>1 DEF TypeOK
  <2> QED BY <1>2, <2>1, <2>2
<1>8. ASSUME NEW i \in Jobs, Retry(i) \/ \E s \in Segments : RetrySegment(i, s) PROVE Kept
  <2>1. /\ \A j \in Jobs \ {i} : status'[j] = status[j] /\ ckpt'[j] = ckpt[j]
        /\ status'[i] = "pending" /\ UNCHANGED <<threads, lost, loop>> /\ loop.at = "free"
    BY <1>0, <1>8 DEF Retry, RetrySegment, Requeue, LoopIsFree, TypeOK
  <2>2. RunInv(i)'
    BY <1>8, <2>1, RetriedLeft, RunQueued DEF threads
  <2>3. ASSUME NEW j \in Jobs, j # i PROVE RunInv(j)'
    BY <2>1, <2>3, RunKept DEF threads
  <2> QED BY <2>1, <2>2, <2>3
<1>9. CASE FinishSubmit
  <2>1. PICK i \in Jobs : i = loop.job /\ pc[i] = "idle" /\ status[i] # "running"
    BY <1>0, <1>9 DEF FinishSubmit, LoopTurns, SInv
  <2>2. /\ UNCHANGED <<threads, status, lost>> /\ loop'.at # "submit"
        /\ ckpt' = [ckpt EXCEPT ![i] = Initialized(i)]
    BY <1>9, <2>1 DEF FinishSubmit, LoopFree
  <2>3. RunInv(i)'
    BY <2>1, <2>2, RunRests DEF threads, Resting
  <2>4. ASSUME NEW j \in Jobs, j # i PROVE RunInv(j)'
    <3>1. ckpt'[j] = ckpt[j]
      BY <1>0, <2>2, <2>4 DEF TypeOK
    <3> QED BY <2>2, <3>1, RunKept DEF threads
  <2> QED BY <2>2, <2>3, <2>4
<1>10. CASE DispatcherTurn
  <2>1. /\ UNCHANGED <<status, ckpt, cur, pending, after, lost, loop>>
        /\ \A j \in Jobs : pc'[j] = IF pc[j] = "done" THEN "idle" ELSE pc[j]
    BY <1>10 DEF DispatcherTurn
  <2>2. ASSUME NEW j \in Jobs PROVE RunInv(j)'
    <3>1. CASE pc[j] # "done"
      BY <2>1, <3>1, RunKept
    <3>2. CASE pc[j] = "done"
      <4>1. StopsForGood(j) /\ pc'[j] = "idle"
        BY <2>1, <3>2 DEF SInv, RunInv
      <4> QED BY <2>1, <3>2, <4>1 DEF RunInv, ChosenIsLeft, FailsRunning, StopsForGood,
                                NothingToBegin, Incomplete, Existing, Resting
    <3> QED BY <3>1, <3>2
  <2> QED BY <2>1, <2>2 DEF SInv
<1>11. ASSUME NEW i \in Jobs, Launch(i) PROVE Kept
  <2>1. /\ pc' = [pc EXCEPT ![i] = "init"]
        /\ UNCHANGED <<status, ckpt, cur, pending, after, lost, loop>>
    BY <1>11 DEF Launch, Goto
  <2>2. RunInv(i)'
    BY <1>0, <2>1, RunGoesOn DEF TypeOK, Resting
  <2>3. ASSUME NEW j \in Jobs, j # i PROVE RunInv(j)'
    <3>1. pc'[j] = pc[j]
      BY <1>0, <2>1, <2>3 DEF TypeOK
    <3> QED BY <2>1, <3>1, RunKept
  <2> QED BY <2>1, <2>2, <2>3 DEF SInv
<1>12. CASE Restart
  <2>1. /\ loop'.at # "submit"
        /\ \A j \in Jobs : pc'[j] = "idle" /\ status'[j] # "running"
    <3>1. loop'.at # "submit" /\ \A j \in Jobs : pc'[j] = "idle"
      BY <1>12 DEF Restart, LoopFree
    <3>2. ASSUME NEW s, NEW rows PROVE RecoveredStatus(s, rows) # "running"
      BY DEF RecoveredStatus, SkippedByRecovery, RecoverableStatus
    <3>3. ASSUME NEW j \in Jobs PROVE status'[j] # "running"
      BY <1>12, <3>2 DEF Restart
    <3> QED BY <3>1, <3>3
  <2> QED BY <2>1, RunRests DEF Resting
<1> QED
  BY <1>1, <1>3, <1>4, <1>5, <1>6, <1>7, <1>8, <1>9, <1>10, <1>11, <1>12 DEF Next

LEMMA RunInvariant == Spec => []SInv
<1>1. Init => SInv
  <2> SUFFICES ASSUME Init PROVE SInv
    OBVIOUS
  <2>1. ASSUME NEW j \in Jobs PROVE RunInv(j)
    <3>1. status[j] = "absent" /\ pc[j] = "idle"
      BY DEF Init
    <3> QED BY <3>1 DEF RunInv, ChosenIsLeft, FailsRunning, StopsForGood
  <2> QED BY <2>1, OwnershipInitial DEF SInv, Init, LoopFree
<1>2. SInv /\ [Next]_vars => SInv'
  BY RunStep, OwnershipStep DEF SInv
<1> QED BY <1>1, <1>2, PTL DEF Spec

\* A job that is recorded as running while nothing executes has nothing its last
\* executor could begin, or a write of its checkpoint failed: whoever paused,
\* cancelled, resumed or retried it meanwhile, and whatever crashed.
THEOREM NoneStranded == Spec => []NoStrandedJob
<1>1. SInv => NoStrandedJob
  BY DEF SInv, RunInv, StopsForGood, Resting, NoStrandedJob, Quiet, RunningJobs
<1> QED BY <1>1, RunInvariant, PTL
=============================================================================
