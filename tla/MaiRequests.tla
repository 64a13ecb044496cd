----------------------------- MODULE MaiRequests -----------------------------
(***************************************************************************)
(* The paid request of one online (azure_mai) job: the executor thread in   *)
(* run_external, the durable send intents, the response file, and the       *)
(* retries the user authorizes (backend/classscribe/classroom/online.py,    *)
(* online_attempts.py and retry_job of api/service.py).                     *)
(*                                                                          *)
(* The job has passed its local checkpoints: the request and the import of  *)
(* the response are left.  The races of the other job controls with the     *)
(* executor are those of ClassroomPipeline; here a cancel is one step, and  *)
(* every other step is one transaction, file replacement or network call.   *)
(***************************************************************************)
EXTENDS JobStateMachine, Sequences

CONSTANTS MaxInputs,    \* bound: versions of the endpoint, options and terms
          RetryBound,   \* bound: the largest max_attempts a retry grants
          MaxFaults     \* bound: crashes of a behaviour

Request == 1            \* mai_request
Import == 2             \* mai_import

ASSUME MaiAssumption ==
    /\ Checkpoints = {Request, Import}
    /\ MaxInputs \in Nat \ {0}
    /\ RetryBound \in Nat
    /\ MaxFaults \in Nat

VARIABLES
    status, ckpt,   \* the job and its two checkpoint rows
    attempts,       \* OnlineRequestAttempt rows by attempt_number
    saved,          \* the attempts whose response.raw.json exists
    pc, cur,        \* the executor thread and its checkpoint
    local,          \* the request definition and audio it has read
    inputs,         \* what it would read now
    throttled,      \* retry_after_seconds of the last attempt is not over
    seen,           \* the attempt on the user's page, 0 before it is opened
    sends,          \* history: the requests the service received
    faults          \* bound counter

vars == <<status, ckpt, attempts, saved, pc, cur, local, inputs, throttled, seen,
          sends, faults>>

-----------------------------------------------------------------------------
AttemptStatus == {"prepared", "sending", "responded", "imported", "uncertain", "failed"}

Attempt == [st : AttemptStatus, fp : 1..MaxInputs]

\* Outside the try block of the request a failure fails the checkpoint ...
Stoppable == {"read", "encode", "intent", "record", "complete", "import"}

\* ... inside it the attempt is first recorded as uncertain.
Uncertain == {"connect", "upload", "wait", "save", "respond"}

PCs == Stoppable \cup Uncertain \cup
       {"idle", "next", "begin", "recover", "prepare", "refused", "unknown", "fail"}

TypeOK ==
    /\ status \in JobStatus
    /\ ckpt \in [Checkpoints -> CheckpointRow]
    /\ attempts \in Seq(Attempt)
    /\ saved \subseteq Nat
    /\ pc \in PCs
    /\ cur \in Checkpoints
    /\ local \in 1..MaxInputs
    /\ inputs \in 1..MaxInputs
    /\ throttled \in BOOLEAN
    /\ seen \in Nat
    /\ sends \in Seq([n : Nat, fp : 1..MaxInputs])
    /\ faults \in 0..MaxFaults

Init ==
    /\ status = "pending"
    /\ ckpt = [c \in Checkpoints |-> NewCheckpoint]
    /\ attempts = <<>> /\ saved = {}
    /\ pc = "idle" /\ cur = Request
    /\ local = 1 /\ inputs = 1
    /\ throttled = FALSE /\ seen = 0
    /\ sends = <<>>
    /\ faults = 0

-----------------------------------------------------------------------------
(* Attempts.                                                                *)

Latest == Len(attempts)

\* latest_attempt(...).status
LatestIs(S) == Latest > 0 /\ attempts[Latest].st \in S

Mark(st) == attempts' = [attempts EXCEPT ![Latest].st = st]

\* The response file may be newer than the row, but not than a refusal.
Recoverable ==
    /\ LatestIs({"sending", "uncertain", "responded", "imported"})
    /\ Latest \in saved

\* retry_policy: a new attempt is needed, and it may be billed again.
NeedsConfirmation == LatestIs(AttemptStatus \ {"prepared"}) /\ ~Recoverable

Stopped == status \in {"cancelling", "cancelled"}

Goto(label) == pc' = label

-----------------------------------------------------------------------------
(* The executor: run_next, run_external and _request.                       *)

job == <<status, ckpt>>
page == <<inputs, throttled, seen>>

\* Mutant of Dispatch: a job to be cancelled is left where it is.
DispatchPendingOnly ==
    /\ pc = "idle" /\ status = "pending"
    /\ status' = "running"
    /\ Goto("next")
    /\ UNCHANGED <<ckpt, attempts, saved, cur, local, page, sends, faults>>

\* The dispatcher takes a pending job, and one that is to be cancelled.
Dispatch ==
    /\ pc = "idle" /\ status \in {"pending", "cancelling"}
    /\ status' = IF status = "pending" THEN "running" ELSE status
    /\ Goto("next")
    /\ UNCHANGED <<ckpt, attempts, saved, cur, local, page, sends, faults>>

NextEnded ==
    /\ pc = "next" /\ status # "running"
    /\ status' = IF status = "cancelling" THEN "cancelled" ELSE status
    /\ Goto("idle")
    /\ UNCHANGED <<ckpt, attempts, saved, cur, local, page, sends, faults>>

NextCheckpoint ==
    /\ pc = "next" /\ status = "running" /\ Incomplete(ckpt) # {}
    /\ cur' = FirstIncomplete(ckpt)
    /\ Goto("begin")
    /\ UNCHANGED <<job, attempts, saved, local, page, sends, faults>>

\* run_external allows the request exactly one more attempt.
Armed ==
    IF cur = Request
    THEN [st |-> ckpt[cur].st, n |-> ckpt[cur].n, max |-> ckpt[cur].n + 1]
    ELSE ckpt[cur]

Begin ==
    /\ pc = "begin"
    /\ IF CanBegin(status, Armed)
       THEN /\ ckpt' = [ckpt EXCEPT ![cur] = Begun(Armed)]
            /\ Goto(IF cur = Request THEN "recover" ELSE "import")
       ELSE Goto("idle") /\ UNCHANGED ckpt
    /\ UNCHANGED <<status, attempts, saved, cur, local, page, sends, faults>>

\* Local evidence first: a response that was published before its row.
Recover ==
    /\ pc = "recover"
    /\ IF Recoverable
       THEN /\ Mark(IF LatestIs({"imported"}) THEN "imported" ELSE "responded")
            /\ Goto("complete")
       ELSE Goto("read") /\ UNCHANGED attempts
    /\ UNCHANGED <<job, saved, cur, local, page, sends, faults>>

\* Credentials, options, glossary terms and the digest of the audio master.
ReadInputs ==
    /\ pc = "read"
    /\ local' = inputs
    /\ Goto("prepare")
    /\ UNCHANGED <<job, attempts, saved, cur, page, sends, faults>>

\* Mutant of Prepare: the fingerprint is not compared.
PrepareUnchecked ==
    /\ pc = "prepare"
    /\ IF Latest = 0
       THEN /\ attempts' = Append(attempts, [st |-> "prepared", fp |-> local])
            /\ Goto("encode")
       ELSE /\ Goto(IF LatestIs({"prepared"}) THEN "encode" ELSE "fail")
            /\ UNCHANGED attempts
    /\ UNCHANGED <<job, saved, cur, local, page, sends, faults>>

\* The send intent: the first one is the submission's, and one whose outcome is
\* not known or whose inputs have changed is never taken up again.  (A response
\* on disk has ended the request in Recover.)
Prepare ==
    /\ pc = "prepare"
    /\ IF Latest = 0
       THEN /\ attempts' = Append(attempts, [st |-> "prepared", fp |-> local])
            /\ Goto("encode")
       ELSE /\ Goto(IF attempts[Latest].fp = local /\ LatestIs({"prepared"})
                    THEN "encode" ELSE "fail")
            /\ UNCHANGED attempts
    /\ UNCHANGED <<job, saved, cur, local, page, sends, faults>>

\* prepare_mai_upload, and the audio master is what it was.
Encode ==
    /\ pc = "encode"
    /\ Goto("intent")
    /\ UNCHANGED <<job, attempts, saved, cur, local, page, sends, faults>>

\* Mutant of CommitIntent: the upload starts before the intent is written.
CommitIntentLate ==
    /\ pc = "intent"
    /\ Goto("record")
    /\ UNCHANGED <<job, attempts, saved, cur, local, page, sends, faults>>

\* Persisted before any socket can upload data.
CommitIntent ==
    /\ pc = "intent"
    /\ Mark("sending")
    /\ Goto("record")
    /\ UNCHANGED <<job, saved, cur, local, page, sends, faults>>

\* request.json
RecordRequest ==
    /\ pc = "record"
    /\ Goto("connect")
    /\ UNCHANGED <<job, attempts, saved, cur, local, page, sends, faults>>

Connect ==
    /\ pc = "connect"
    /\ Goto(IF Stopped THEN "unknown" ELSE "upload")
    /\ UNCHANGED <<job, attempts, saved, cur, local, page, sends, faults>>

Upload ==
    /\ pc = "upload"
    /\ sends' = Append(sends, [n |-> Latest, fp |-> local])
    /\ Goto("wait")
    /\ UNCHANGED <<job, attempts, saved, cur, local, page, faults>>

\* A response other than 200.
Refused ==
    /\ pc = "wait"
    /\ Goto("refused")
    /\ UNCHANGED <<job, attempts, saved, cur, local, page, sends, faults>>

Received ==
    /\ pc = "wait" /\ ~Stopped
    /\ Goto("save")
    /\ UNCHANGED <<job, attempts, saved, cur, local, page, sends, faults>>

SaveResponse ==
    /\ pc = "save"
    /\ saved' = saved \cup {Latest}
    /\ Goto("respond")
    /\ UNCHANGED <<job, attempts, cur, local, page, sends, faults>>

CommitResponse ==
    /\ pc = "respond"
    /\ Mark("responded")
    /\ Goto("complete")
    /\ UNCHANGED <<job, saved, cur, local, page, sends, faults>>

\* A lost connection, a cancel seen by the watcher, or a failed write.
ResultUnknown ==
    /\ pc \in Uncertain
    /\ Goto("unknown")
    /\ UNCHANGED <<job, attempts, saved, cur, local, page, sends, faults>>

\* The diagnostics of a 429 or a 5xx start a waiting time.
RecordOutcome ==
    /\ pc \in {"refused", "unknown"}
    /\ Mark(IF pc = "refused" THEN "failed" ELSE "uncertain")
    /\ throttled' \in IF pc = "refused" THEN BOOLEAN ELSE {FALSE}
    /\ Goto("fail")
    /\ UNCHANGED <<job, saved, cur, local, inputs, seen, sends, faults>>

CompleteRequest ==
    /\ pc = "complete"
    /\ ckpt' = CompletedRows(ckpt, cur)
    /\ status' = CompletedStatus(status, ckpt')
    /\ Goto("next")
    /\ UNCHANGED <<attempts, saved, cur, local, page, sends, faults>>

\* The segments, the attempt and the checkpoint commit together.
ImportResponse ==
    /\ pc = "import" /\ LatestIs({"responded", "imported"})
    /\ Mark("imported")
    /\ ckpt' = CompletedRows(ckpt, cur)
    /\ status' = CompletedStatus(status, ckpt')
    /\ Goto("idle")
    /\ UNCHANGED <<saved, cur, local, page, sends, faults>>

StageFails ==
    /\ pc \in Stoppable
    /\ Goto("fail")
    /\ UNCHANGED <<job, attempts, saved, cur, local, page, sends, faults>>

FailCheckpoint ==
    /\ pc = "fail"
    /\ ckpt' = [ckpt EXCEPT ![cur] = FailedRow(status, ckpt[cur])]
    /\ status' = FailedStatus(status, ckpt[cur])
    /\ Goto("idle")
    /\ UNCHANGED <<attempts, saved, cur, local, page, sends, faults>>

-----------------------------------------------------------------------------
(* The user, and the crash of the service.                                  *)

Cancel ==
    /\ status \in Cancellable
    /\ status' = CancelResult(status)
    /\ UNCHANGED <<ckpt, attempts, saved, pc, cur, local, page, sends, faults>>

\* The job page shows the latest attempt; it may be out of date when it is used.
OpenPage ==
    /\ seen # Latest
    /\ seen' = Latest
    /\ UNCHANGED <<job, attempts, saved, pc, cur, local, inputs, throttled, sends, faults>>

\* The waiting time is over.
CoolDown ==
    /\ throttled /\ throttled' = FALSE
    /\ UNCHANGED <<job, attempts, saved, pc, cur, local, inputs, seen, sends, faults>>

\* New credentials or terms.
ChangeInputs ==
    /\ inputs < MaxInputs
    /\ inputs' = inputs + 1
    /\ UNCHANGED <<job, attempts, saved, pc, cur, local, throttled, seen, sends, faults>>

\* Mutant of Authorized: whatever the user saw, the latest attempt is meant.
AuthorizedUnseen(confirm, expected) == NeedsConfirmation => confirm /\ ~throttled

\* authorize_retry accepts the call.
Authorized(confirm, expected) ==
    /\ Latest > 0 => expected \in {0, Latest}
    /\ NeedsConfirmation => confirm /\ expected = Latest /\ ~throttled

\* retry_job: the attempt the user has confirmed, or none, is on the page.
Retry(confirm, expected) ==
    /\ status = "failed" /\ Incomplete(ckpt) # {}
    /\ ckpt[FirstIncomplete(ckpt)].n < RetryBound
    /\ IF FirstIncomplete(ckpt) = Request
       THEN /\ Authorized(confirm, expected)
            /\ attempts' = IF NeedsConfirmation
                           THEN Append(attempts,
                                       [attempts[Latest] EXCEPT !.st = "prepared"])
                           ELSE attempts
       ELSE UNCHANGED attempts
    /\ ckpt' = ManualRetry(ckpt)
    /\ status' = "pending"
    /\ UNCHANGED <<saved, pc, cur, local, page, sends, faults>>

\* The service dies anywhere and recovery_scan repairs the rows it left.
Crash ==
    /\ faults < MaxFaults /\ faults' = faults + 1
    /\ pc' = "idle" /\ cur' = Request /\ local' = 1
    /\ ckpt' = RecoveredCk(status, ckpt)
    /\ status' = RecoveredStatus(status, ckpt)
    /\ UNCHANGED <<attempts, saved, page, sends>>

-----------------------------------------------------------------------------
ExecutorStep ==
    \/ Dispatch \/ NextEnded \/ NextCheckpoint \/ Begin
    \/ Recover \/ ReadInputs \/ Prepare \/ Encode \/ CommitIntent \/ RecordRequest
    \/ Connect \/ Upload \/ Refused \/ Received \/ SaveResponse \/ CommitResponse
    \/ ResultUnknown \/ RecordOutcome
    \/ CompleteRequest \/ ImportResponse \/ StageFails \/ FailCheckpoint

Next ==
    \/ ExecutorStep
    \/ Cancel \/ OpenPage \/ CoolDown \/ ChangeInputs
    \/ \E confirm \in BOOLEAN, expected \in {0, seen} : Retry(confirm, expected)
    \/ Crash

Spec == Init /\ [][Next]_vars

\* The thread makes progress: every call it makes is bounded in time.
FairSpec == Spec /\ WF_vars(ExecutorStep)

-----------------------------------------------------------------------------
(* Properties.                                                              *)

\* The job implements the promise made to the user who pays: one send per
\* authorization, a new one only for a request that was sent and brought
\* nothing, none after a response is on disk, through crashes between any two
\* of the commits, the upload and the file replacement.
Sent(n) == \E i \in 1..Len(sends) : sends[i].n = n

Promise == INSTANCE PaidRequest
    WITH phase <- IF saved # {} THEN "saved" ELSE IF Sent(Latest) THEN "sent"
                  ELSE "authorized",
         sent <- Len(sends)

PaidOnce == Promise!Spec

\* What is sent is what the attempt recorded, although the endpoint, the
\* options and the glossary may change while the request is prepared or
\* between an attempt and the retry that copies its fingerprint.
SentAsRecorded == \A i \in 1..Len(sends) : sends[i].fp = attempts[sends[i].n].fp

\* A request is sent again only when the user has seen that very attempt: a
\* second click on an old page, or a page opened before the retry, is refused.
ConfirmedAsSeen ==
    [][Latest > 0 /\ Latest' > Latest => seen = Latest /\ ~throttled]_vars

\* Every run ends: whatever fails and wherever the process dies, the job is
\* finished, failed for the user to decide, or cancelled, never left running.
JobResolves ==
    status \in {"pending", "running", "cancelling"}
        ~> status \in {"completed", "failed", "cancelled"}
=============================================================================
