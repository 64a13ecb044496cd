--------------------------- MODULE JobStateMachine ---------------------------
(***************************************************************************)
(* The transitions of a classroom job and of its checkpoints, as the pure   *)
(* functions that backend/classscribe/jobs/state_machine.py applies to the  *)
(* rows it has read.  Nothing here is a step of the system: the pipeline    *)
(* decides when a row is read and when the result is written back.          *)
(*                                                                          *)
(* A checkpoint is named by its rank in the order of first_incomplete,      *)
(* (stage, position); ck maps every rank to its row, "absent" when the row  *)
(* does not exist.                                                          *)
(***************************************************************************)
EXTENDS Naturals

CONSTANTS Checkpoints,   \* the ranks a checkpoint of a job can have
          MaxAttempts    \* CheckpointSpec.max_attempts

ASSUME CheckpointsAssumption == Checkpoints \subseteq Nat \ {0}
ASSUME MaxAttemptsAssumption == MaxAttempts \in Nat \ {0}

-----------------------------------------------------------------------------
JobStatus == {"pending", "running", "paused", "cancelling", "cancelled",
              "completed", "failed"}

CheckpointStatus == {"absent", "pending", "running", "completed", "retryable",
                     "failed", "cancelled"}

CheckpointRow == [st : CheckpointStatus, n : Nat, max : Nat]

TerminalStatus == {"cancelled", "completed"}

NoCheckpoint == [st |-> "absent", n |-> 0, max |-> MaxAttempts]
NewCheckpoint == [NoCheckpoint EXCEPT !.st = "pending"]

-----------------------------------------------------------------------------
Existing(ck) == {c \in Checkpoints : ck[c].st # "absent"}

Incomplete(ck) == {c \in Existing(ck) : ck[c].st # "completed"}

\* Mutant of FirstIncomplete: the order of the stages is reversed.
LastIncomplete(ck) ==
    CHOOSE c \in Incomplete(ck) : \A d \in Incomplete(ck) : c >= d

\* The row the job works on next; only meaningful when one is incomplete.
FirstIncomplete(ck) ==
    CHOOSE c \in Incomplete(ck) : \A d \in Incomplete(ck) : c <= d

\* Idempotent: a row that exists keeps its progress.
CreateCheckpoints(ck, ranks) ==
    [c \in Checkpoints |->
        IF c \in ranks /\ ck[c].st = "absent" THEN NewCheckpoint ELSE ck[c]]

-----------------------------------------------------------------------------
(* request_cancel: a terminal job ignores it, "cancelling" refuses it.      *)
Cancellable == JobStatus \ (TerminalStatus \cup {"cancelling"})

CancelResult(s) == IF s = "running" THEN "cancelling" ELSE "cancelled"

CanBegin(s, row) ==
    /\ s = "running"
    /\ row.st \in {"pending", "retryable"}
    /\ row.n < row.max

Begun(row) == [st |-> "running", n |-> row.n + 1, max |-> row.max]

\* CheckpointInterrupted gives the attempt back.
Interrupted(row) ==
    [st |-> "pending", n |-> IF row.n = 0 THEN 0 ELSE row.n - 1, max |-> row.max]

\* complete_checkpoint and the progress it recomputes: the last incomplete row
\* ends the job, unless a cancel was accepted meanwhile.
CompletedRows(ck, c) == [ck EXCEPT ![c].st = "completed"]

CompletedStatus(s, ck) ==
    IF Incomplete(ck) # {} THEN s
    ELSE IF s \in {"cancelling", "cancelled"} THEN "cancelled"
    ELSE "completed"

\* Mutant of Retryable: one attempt too many.
RetryableOffByOne(row) == row.n <= row.max

\* fail_checkpoint, on the job status it has read.
Retryable(row) == row.n < row.max

FailedRow(s, row) ==
    [row EXCEPT !.st = IF s \in {"cancelling", "cancelled"} THEN "cancelled"
                       ELSE IF Retryable(row) THEN "retryable"
                       ELSE "failed"]

\* Mutant of FailedStatus: the row's new status is given to the job.
FailedStatusOfRow(s, row) == FailedRow(s, row).st

FailedStatus(s, row) ==
    IF s \in {"cancelling", "cancelled"} THEN "cancelled"
    ELSE IF ~Retryable(row) THEN "failed"
    ELSE IF s = "paused" THEN "paused"
    ELSE "pending"

\* retry(manual=True) grants the first incomplete row one more attempt.
ManualRetry(ck) ==
    LET row == ck[FirstIncomplete(ck)]
        limit == IF row.n + 1 > row.max THEN row.n + 1 ELSE row.max
    IN [ck EXCEPT ![FirstIncomplete(ck)] =
           [st |-> "retryable", n |-> row.n, max |-> limit]]

-----------------------------------------------------------------------------
(* recovery_scan, for one job found after a restart.                        *)
RecoverableStatus == {"running", "cancelling", "pending", "paused"}

\* Mutant of RecoveredRows: an interrupted job starts over.
RecoveredFromScratch(s, ck) ==
    [c \in Checkpoints |->
        IF ck[c].st \in {"running", "completed"} THEN NewCheckpoint ELSE ck[c]]

RecoveredRows(s, ck) ==
    [c \in Checkpoints |->
        IF ck[c].st # "running" THEN ck[c]
        ELSE [ck[c] EXCEPT !.st = IF s = "cancelling" THEN "cancelled"
                                  ELSE IF Retryable(ck[c]) THEN "retryable"
                                  ELSE "failed"]]

SkippedByRecovery(s, ck) ==
    \/ s \notin RecoverableStatus
    \/ s = "paused" /\ Existing(ck) = {}

RecoveredCk(s, ck) ==
    IF SkippedByRecovery(s, ck) THEN ck ELSE RecoveredRows(s, ck)

RecoveredStatus(s, ck) ==
    LET rows == RecoveredRows(s, ck)
    IN IF SkippedByRecovery(s, ck) THEN s
       ELSE IF s = "cancelling" THEN "cancelled"
       ELSE IF Incomplete(rows) = {} THEN "completed"
       ELSE IF rows[FirstIncomplete(rows)].st = "failed" THEN "failed"
       ELSE IF s = "paused" THEN "paused"
       ELSE "pending"

\* Mutant of HasRecoveryPlan: only jobs found running are scheduled.
PlanOnlyRunning(s, ck) == s = "running" /\ RecoveredStatus(s, ck) = "pending"

\* The job is handed back to the dispatcher.
HasRecoveryPlan(s, ck) ==
    s \in {"running", "pending"} /\ RecoveredStatus(s, ck) = "pending"
=============================================================================
