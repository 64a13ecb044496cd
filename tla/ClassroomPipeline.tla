-------------------------- MODULE ClassroomPipeline --------------------------
(***************************************************************************)
(* The classroom queue of the core service: the job and checkpoint rows in  *)
(* SQLite, the dispatcher task on the event loop, one executor thread per   *)
(* claimed job, the request threads of the job controls, and the handover   *)
(* of the GPU to IBus dictation (backend/classscribe/classroom/pipeline.py, *)
(* queue.py and the job controls of api/service.py).                        *)
(*                                                                          *)
(* Transactions.  The session reads in autocommit mode and opens its        *)
(* transaction at the first UPDATE, which writes the changed columns only.  *)
(* A handler without BEGIN IMMEDIATE therefore reads the job's status in    *)
(* one step and writes it, whatever it has become, in a later one; a        *)
(* handler with BEGIN IMMEDIATE, or one that writes only columns nobody     *)
(* else writes meanwhile, is one step.                                      *)
(***************************************************************************)
EXTENDS JobStateMachine, FiniteSets

CONSTANTS Jobs,            \* the jobs users submit
          NoJob,           \* no job
          Online,          \* the jobs of the azure_mai provider
          GlobalCk,        \* GLOBAL_CHECKPOINTS of a local job
          NormalizeCk,     \* normalize_audio_master, one of GlobalCk
          StructureCk,     \* moss_structure, the last of GlobalCk
          Segments,        \* the segments moss_structure can find
          SegmentCk,       \* segment -> its SEGMENT_CHECKPOINTS and reviews
          OnlineCk,        \* ONLINE_CHECKPOINTS
          RequestCk,       \* mai_request, before mai_import
          MaxConcurrent,   \* MAI_MAX_CONCURRENT_JOBS
          Callers,         \* request threads serving pause, cancel and reorder
          Controls,        \* the user operations a run exercises
          MaxOrder,        \* bound: the largest queue_order handed out
          RetryBound,      \* bound: the largest max_attempts a retry grants
          MaxFaults        \* bound: crashes and storage errors of a behaviour

ControlNames == {"pause", "cancel", "resume", "retry", "segment", "queue",
                 "reorder", "dictation", "shutdown", "fault"}

ASSUME PipelineAssumption ==
    /\ NoJob \notin Jobs
    /\ IsFiniteSet(Jobs)
    /\ Online \subseteq Jobs
    /\ GlobalCk \subseteq Checkpoints
    /\ OnlineCk \subseteq Checkpoints
    /\ NormalizeCk \in GlobalCk
    /\ StructureCk \in GlobalCk
    /\ RequestCk \in OnlineCk
    /\ \E c \in OnlineCk : c > RequestCk
    /\ SegmentCk \in [Segments -> SUBSET Checkpoints]
    /\ MaxConcurrent \in Nat \ {0}
    /\ Controls \subseteq ControlNames
    /\ MaxOrder \in Nat
    /\ RetryBound \in Nat
    /\ MaxFaults \in Nat

VARIABLES
    (* SQLite *)
    status,        \* Job.status, "absent" before the job is created
    ckpt,          \* Job.checkpoints
    order,         \* Job.queue_order
    queuePaused,   \* AppSetting classroom_queue
    (* SafeBoundaryPause and the sets of ClassroomPipeline *)
    requested, blockAll, preempted, deferred, shuttingDown,
    (* the dispatcher task and its wakeup event *)
    dispatcher, wakeup,
    (* executor threads: where they are, their checkpoint, their pending write *)
    pc, cur, pending, after,
    (* SandboxedModelInvoker: the busy event and the retained model session *)
    gpuBusy, gpuSession,
    (* the handler the event loop is in, and the request threads *)
    loop, ctl,
    dictation,     \* the IBus session, as prepare_/finish_dictation see it
    pausedBy,      \* history: who paused the job last
    lost,          \* history: jobs of whose checkpoint a write failed in this process
    faults         \* bound counter

db == <<status, ckpt, order, queuePaused>>
flags == <<requested, blockAll, preempted, deferred>>
tasks == <<dispatcher, wakeup>>
threads == <<pc, cur, pending, after>>
gpu == <<gpuBusy, gpuSession>>
\* What an executor thread never touches.
outside == <<shuttingDown, tasks, loop, ctl, dictation, lost, faults>>
vars == <<db, flags, shuttingDown, tasks, threads, gpu, loop, ctl, dictation,
          pausedBy, lost, faults>>

-----------------------------------------------------------------------------
PCs == {"idle", "init", "claim", "next", "preempt", "commit", "begin", "op",
        "gate", "gpu", "yield", "fail", "failing", "closing", "done"}

\* A checkpoint of this executor is between begin_checkpoint and its end.
Working == {"op", "gate", "gpu", "yield", "fail", "failing"}

JobState == JobStatus \cup {"absent"}

TypeOK ==
    /\ status \in [Jobs -> JobState]
    /\ ckpt \in [Jobs -> [Checkpoints -> CheckpointRow]]
    /\ order \in [Jobs -> 0..MaxOrder]
    /\ queuePaused \in BOOLEAN
    /\ requested \subseteq Jobs
    /\ blockAll \in BOOLEAN
    /\ preempted \subseteq Jobs
    /\ deferred \subseteq Jobs
    /\ shuttingDown \in BOOLEAN
    /\ dispatcher \in {"off", "start", "turn", "wait"}
    /\ wakeup \in BOOLEAN
    /\ pc \in [Jobs -> PCs]
    /\ cur \in [Jobs -> Checkpoints \cup {0}]
    /\ pending \in [Jobs -> JobState]
    /\ after \in [Jobs -> {"next", "begin", "closing"}]
    /\ gpuBusy \in BOOLEAN
    /\ gpuSession \in Jobs \cup {NoJob}
    /\ loop \in [at : {"free", "submit", "pick", "write"},
                 job : Jobs \cup {NoJob}, todo : SUBSET Jobs]
    /\ ctl \in [Callers -> [job : Jobs \cup {NoJob}, write : JobStatus]]
    /\ dictation \in {"off", "arming", "on"}
    /\ pausedBy \in [Jobs -> {"nobody", "user", "ibus"}]
    /\ lost \subseteq Jobs
    /\ faults \in 0..MaxFaults

LoopFree == [at |-> "free", job |-> NoJob, todo |-> {}]
Idle == [job |-> NoJob, write |-> "pending"]
NoRows == [c \in Checkpoints |-> NoCheckpoint]

Init ==
    /\ status = [j \in Jobs |-> "absent"]
    /\ ckpt = [j \in Jobs |-> NoRows]
    /\ order = [j \in Jobs |-> 0]
    /\ queuePaused = FALSE
    /\ requested = {} /\ blockAll = FALSE /\ preempted = {} /\ deferred = {}
    /\ shuttingDown = FALSE
    /\ dispatcher = "off" /\ wakeup = FALSE
    /\ pc = [j \in Jobs |-> "idle"]
    /\ cur = [j \in Jobs |-> 0]
    /\ pending = [j \in Jobs |-> "pending"]
    /\ after = [j \in Jobs |-> "closing"]
    /\ gpuBusy = FALSE /\ gpuSession = NoJob
    /\ loop = LoopFree
    /\ ctl = [k \in Callers |-> Idle]
    /\ dictation = "off"
    /\ pausedBy = [j \in Jobs |-> "nobody"]
    /\ lost = {}
    /\ faults = 0

-----------------------------------------------------------------------------
(* Helpers shared by the handlers.                                          *)

InitialCk(j) == IF j \in Online THEN OnlineCk ELSE GlobalCk

\* initialize: a job that has rows keeps them.
Initialized(j) ==
    IF Existing(ckpt[j]) # {} THEN ckpt[j]
    ELSE CreateCheckpoints(ckpt[j], InitialCk(j))

\* queue.append: the largest order in use, 0 if there is none, plus one.
NextOrder ==
    1 + CHOOSE m \in 0..MaxOrder :
            /\ \A j \in Jobs : order[j] <= m
            /\ m = 0 \/ \E j \in Jobs : order[j] = m

\* schedule: start the dispatcher, or wake the one that is waiting.
Schedule ==
    IF shuttingDown THEN UNCHANGED tasks
    ELSE IF dispatcher = "off"
    THEN dispatcher' = "start" /\ wakeup' = FALSE
    ELSE wakeup' = TRUE /\ UNCHANGED dispatcher

\* The event loop runs one handler at a time, and one dispatcher turn.
LoopIsFree == loop.at = "free" /\ dispatcher # "turn"

\* check_boundary
Boundary(j) ==
    \/ shuttingDown \/ queuePaused \/ blockAll \/ j \in requested
    \/ status[j] \in {"paused", "cancelling", "cancelled"}

Goto(j, label) == pc' = [pc EXCEPT ![j] = label]

\* The session writes s to the job's status when the transaction commits.
CommitLater(j, s, label) ==
    /\ Goto(j, "commit")
    /\ pending' = [pending EXCEPT ![j] = s]
    /\ after' = [after EXCEPT ![j] = label]

-----------------------------------------------------------------------------
(* The dispatcher: execute() of schedule().                                 *)

RunningJobs == {j \in Jobs : pc[j] # "idle"}

Dispatchable == {j \in Jobs \ RunningJobs : status[j] \in {"pending", "cancelling"}}

FirstInQueue == CHOOSE j \in Dispatchable : \A k \in Dispatchable : order[j] <= order[k]

\* Mutant of CanLaunch: an online job is launched beside a local one.
CanLaunchOnlineBesideLocal ==
    /\ ~shuttingDown /\ ~queuePaused /\ ~blockAll
    /\ Cardinality(RunningJobs) < MaxConcurrent
    /\ Dispatchable # {}
    /\ RunningJobs = {} \/ FirstInQueue \in Online

CanLaunch ==
    /\ ~shuttingDown /\ ~queuePaused /\ ~blockAll
    /\ Cardinality(RunningJobs) < MaxConcurrent
    /\ RunningJobs \subseteq Online
    /\ Dispatchable # {}
    /\ RunningJobs = {} \/ FirstInQueue \in Online

\* Mutant of DispatcherTurn: the end of a task does not end the wait.
DispatcherTurnOnWakeup ==
    /\ loop.at = "free"
    /\ \/ dispatcher = "start"
       \/ dispatcher = "wait" /\ wakeup
    /\ dispatcher' = "turn" /\ wakeup' = FALSE
    /\ pc' = [j \in Jobs |-> IF pc[j] = "done" THEN "idle" ELSE pc[j]]
    /\ UNCHANGED <<db, flags, shuttingDown, cur, pending, after, gpu, loop, ctl,
                   dictation, pausedBy, lost, faults>>

\* A turn starts: forget the wakeup and reap the tasks that have ended.
DispatcherTurn ==
    /\ loop.at = "free"
    /\ \/ dispatcher = "start"
       \/ dispatcher = "wait" /\ (wakeup \/ \E j \in Jobs : pc[j] = "done")
    /\ dispatcher' = "turn" /\ wakeup' = FALSE
    /\ pc' = [j \in Jobs |-> IF pc[j] = "done" THEN "idle" ELSE pc[j]]
    /\ UNCHANGED <<db, flags, shuttingDown, cur, pending, after, gpu, loop, ctl,
                   dictation, pausedBy, lost, faults>>

Launch(j) ==
    /\ dispatcher = "turn" /\ CanLaunch /\ j = FirstInQueue
    /\ Goto(j, "init")
    /\ UNCHANGED <<db, flags, shuttingDown, tasks, cur, pending, after, gpu, loop,
                   ctl, dictation, pausedBy, lost, faults>>

\* Nothing to launch: wait for a task or a wakeup, or end with the last task.
DispatcherSettles ==
    /\ dispatcher = "turn" /\ ~CanLaunch
    /\ dispatcher' = IF RunningJobs = {} THEN "off" ELSE "wait"
    /\ UNCHANGED <<db, flags, shuttingDown, wakeup, threads, gpu, loop, ctl,
                   dictation, pausedBy, lost, faults>>

-----------------------------------------------------------------------------
(* The executor thread of job j: execute_job, run_until_blocked, run_next.  *)

InitializeJob(j) ==
    /\ pc[j] = "init"
    /\ ckpt' = [ckpt EXCEPT ![j] = Initialized(j)]
    /\ Goto(j, "claim")
    /\ UNCHANGED <<status, order, queuePaused, flags, cur, pending, after, gpu,
                   pausedBy, outside>>

Claim(j) ==
    /\ pc[j] = "claim"
    /\ IF status[j] = "pending"
       THEN CommitLater(j, "running", "next")
       ELSE Goto(j, "next") /\ UNCHANGED <<pending, after>>
    /\ UNCHANGED <<db, flags, cur, gpu, pausedBy, outside>>

\* run_next on a job that has ended, or is to be cancelled.
NextEnded(j) ==
    /\ pc[j] = "next" /\ status[j] \in TerminalStatus \cup {"failed", "cancelling"}
    /\ IF status[j] = "cancelling"
       THEN CommitLater(j, "cancelled", "closing")
       ELSE Goto(j, "closing") /\ UNCHANGED <<pending, after>>
    /\ UNCHANGED <<db, flags, cur, gpu, pausedBy, outside>>

Live(j) == pc[j] = "next" /\ status[j] \in {"pending", "running", "paused"}

\* Mutant of NextYields: the job stays "running".
NextYieldsRunning(j) ==
    /\ Live(j) /\ (shuttingDown \/ queuePaused)
    /\ Goto(j, "closing")
    /\ UNCHANGED <<db, flags, cur, pending, after, gpu, pausedBy, outside>>

\* A paused queue or a shutdown gives the job back to the queue.
NextYields(j) ==
    /\ Live(j) /\ (shuttingDown \/ queuePaused)
    /\ IF status[j] = "running"
       THEN CommitLater(j, "pending", "closing")
       ELSE Goto(j, "closing") /\ UNCHANGED <<pending, after>>
    /\ UNCHANGED <<db, flags, cur, gpu, pausedBy, outside>>

\* Dictation wants the GPU: consume the request, then pause or defer the job.
NextPreempted(j) ==
    /\ Live(j) /\ ~shuttingDown /\ ~queuePaused
    /\ blockAll \/ j \in requested
    /\ requested' = requested \ {j}
    /\ Goto(j, IF status[j] = "running" THEN "preempt" ELSE "closing")
    /\ deferred' = IF status[j] = "pending" THEN deferred \cup {j} ELSE deferred
    /\ UNCHANGED <<db, blockAll, preempted, cur, pending, after, gpu, pausedBy, outside>>

Preempt(j) ==
    /\ pc[j] = "preempt"
    /\ preempted' = preempted \cup {j}
    /\ CommitLater(j, "paused", "closing")
    /\ UNCHANGED <<db, requested, blockAll, deferred, cur, gpu, pausedBy, outside>>

\* The next checkpoint, or none.  A job without one is left "running".
NextCheckpoint(j) ==
    /\ Live(j) /\ ~shuttingDown /\ ~queuePaused /\ ~blockAll /\ j \notin requested
    /\ LET rest == Incomplete(ckpt[j])
           label == IF status[j] = "paused" \/ rest = {} THEN "closing" ELSE "begin"
       IN /\ cur' = IF label = "begin"
                    THEN [cur EXCEPT ![j] = FirstIncomplete(ckpt[j])] ELSE cur
          /\ IF status[j] = "pending"
             THEN CommitLater(j, "running", label)
             ELSE Goto(j, label) /\ UNCHANGED <<pending, after>>
    /\ UNCHANGED <<db, flags, gpu, pausedBy, outside>>

CommitStatus(j) ==
    /\ pc[j] = "commit"
    /\ status' = [status EXCEPT ![j] = pending[j]]
    /\ Goto(j, after[j])
    /\ pausedBy' = IF pending[j] = "paused" THEN [pausedBy EXCEPT ![j] = "ibus"]
                   ELSE pausedBy
    /\ UNCHANGED <<ckpt, order, queuePaused, flags, cur, pending, after, gpu,
                   outside>>

\* run_external first raises the limit of a MAI request.
Armed(j) ==
    LET row == ckpt[j][cur[j]]
    IN IF j \in Online /\ cur[j] = RequestCk
       THEN [st |-> row.st, n |-> row.n, max |-> row.n + 1] ELSE row

\* begin_checkpoint in its own transaction; a refusal rolls back and ends the run.
Begin(j) ==
    /\ pc[j] = "begin"
    /\ IF CanBegin(status[j], Armed(j))
       THEN /\ ckpt' = [ckpt EXCEPT ![j][cur[j]] = Begun(Armed(j))]
            /\ Goto(j, "op")
       ELSE Goto(j, "closing") /\ UNCHANGED ckpt
    /\ UNCHANGED <<status, order, queuePaused, flags, cur, pending, after, gpu,
                   pausedBy, outside>>

\* The operation asks for the GPU: the lane is taken, then the boundary is
\* checked again before the retained model is touched.
EnterGate(j) ==
    /\ pc[j] = "op" /\ j \notin Online
    /\ Goto(j, "gate")
    /\ gpuBusy' = TRUE
    /\ UNCHANGED <<db, flags, cur, pending, after, gpuSession, pausedBy, outside>>

\* Mutant of PassGate: the boundary is not checked again behind the lock.
PassGateUnchecked(j) ==
    /\ pc[j] = "gate"
    /\ Goto(j, "gpu")
    /\ gpuSession' = j
    /\ UNCHANGED <<db, flags, cur, pending, after, gpuBusy, pausedBy, outside>>

PassGate(j) ==
    /\ pc[j] = "gate" /\ ~Boundary(j)
    /\ Goto(j, "gpu")
    /\ gpuSession' = j
    /\ UNCHANGED <<db, flags, cur, pending, after, gpuBusy, pausedBy, outside>>

\* Mutant of TurnedAway: the busy event is cleared under a retained model.
TurnedAwayClearing(j) ==
    /\ pc[j] = "gate" /\ Boundary(j)
    /\ Goto(j, "yield")
    /\ gpuBusy' = FALSE
    /\ UNCHANGED <<db, flags, cur, pending, after, gpuSession, pausedBy, outside>>

\* A structure or alignment call catches the interruption as a failed call and goes on.
TurnedAway(j) ==
    /\ pc[j] = "gate" /\ Boundary(j)
    /\ \E label \in {"yield", "op"} : Goto(j, label)
    /\ gpuBusy' = (gpuSession # NoJob)
    /\ UNCHANGED <<db, flags, cur, pending, after, gpuSession, pausedBy, outside>>

\* A successful call retains the model for the job, a failed one drops it.
LeaveGpu(j) ==
    /\ pc[j] = "gpu"
    /\ Goto(j, "op")
    /\ UNCHANGED <<db, flags, cur, pending, after, gpu, pausedBy, outside>>

GpuFails(j) ==
    /\ pc[j] = "gpu"
    /\ Goto(j, "fail")
    /\ gpuSession' = NoJob /\ gpuBusy' = FALSE
    /\ UNCHANGED <<db, flags, cur, pending, after, pausedBy, outside>>

\* Only the local stages have boundary checks of their own.
YieldAtBoundary(j) ==
    /\ pc[j] = "op" /\ j \notin Online /\ Boundary(j)
    /\ Goto(j, "yield")
    /\ UNCHANGED <<db, flags, cur, pending, after, gpu, pausedBy, outside>>

GiveBackAttempt(j) ==
    /\ pc[j] = "yield"
    /\ ckpt' = [ckpt EXCEPT ![j][cur[j]] = Interrupted(@)]
    /\ Goto(j, "next")
    /\ UNCHANGED <<status, order, queuePaused, flags, cur, pending, after, gpu,
                   pausedBy, outside>>

OperationFails(j) ==
    /\ pc[j] = "op"
    /\ Goto(j, "fail")
    /\ UNCHANGED <<db, flags, cur, pending, after, gpu, pausedBy, outside>>

\* The failing transaction reads the status here ...
ReadFailure(j) ==
    /\ pc[j] = "fail"
    /\ Goto(j, "failing")
    /\ pending' = [pending EXCEPT ![j] = status[j]]
    /\ UNCHANGED <<db, flags, cur, after, gpu, pausedBy, outside>>

\* ... and writes the rows it computed from it here.
CommitFailure(j) ==
    /\ pc[j] = "failing"
    /\ LET row == ckpt[j][cur[j]]
           new == FailedStatus(pending[j], row)
       IN /\ ckpt' = [ckpt EXCEPT ![j][cur[j]] = FailedRow(pending[j], row)]
          /\ status' = IF new = pending[j] THEN status
                       ELSE [status EXCEPT ![j] = new]
    /\ Goto(j, "closing")
    /\ UNCHANGED <<order, queuePaused, flags, cur, pending, after, gpu, pausedBy,
                   outside>>

\* The rows when the running checkpoint commits as completed; moss_structure
\* creates the rows of the segments found first.
CompletionRows(j, found) ==
    LET rows == CompletedRows(ckpt[j], cur[j])
    IN IF j \in Online \/ cur[j] # StructureCk THEN rows
       ELSE CreateCheckpoints(rows, UNION {SegmentCk[s] : s \in found})

\* Mutant of CompletionStatus: decided before the segment rows exist.
EarlyCompletionStatus(j, found) ==
    CompletedStatus(status[j], CompletedRows(ckpt[j], cur[j]))

CompletionStatus(j, found) == CompletedStatus(status[j], CompletionRows(j, found))

\* Output, completion and new rows commit together; the flush holds the write
\* lock before the job's status is read again.
Complete(j) ==
    /\ pc[j] = "op"
    /\ \E found \in SUBSET Segments :
        LET s == CompletionStatus(j, found)
        IN /\ ckpt' = [ckpt EXCEPT ![j] = CompletionRows(j, found)]
           /\ status' = [status EXCEPT ![j] = s]
           /\ Goto(j, IF s \in TerminalStatus THEN "closing" ELSE "next")
    /\ UNCHANGED <<order, queuePaused, flags, cur, pending, after, gpu, pausedBy,
                   outside>>

\* Mutant of Close: the retained model is not released.
CloseKeepsSession(j) ==
    /\ pc[j] = "closing"
    /\ Goto(j, "done")
    /\ UNCHANGED <<db, flags, cur, pending, after, gpu, pausedBy, outside>>

\* close_job releases the model the job retained; then the task ends.
Close(j) ==
    /\ pc[j] = "closing"
    /\ Goto(j, "done")
    /\ gpuSession' = IF gpuSession = j THEN NoJob ELSE gpuSession
    /\ gpuBusy' = (gpuSession' # NoJob \/ \E k \in Jobs : pc[k] \in {"gate", "gpu"})
    /\ UNCHANGED <<db, flags, cur, pending, after, pausedBy, outside>>

\* A write of run_checkpoint or run_external fails: begin's, the one that gives the
\* attempt back, or the one of the failure.  run_next publishes the error and ends the
\* run; the job and the row stay as they are until the next start of the service.
WriteLost(j) ==
    /\ "fault" \in Controls /\ faults < MaxFaults
    /\ pc[j] \in {"begin", "yield", "fail", "failing"}
    /\ Goto(j, "closing")
    /\ lost' = lost \cup {j}
    /\ faults' = faults + 1
    /\ UNCHANGED <<db, flags, shuttingDown, tasks, cur, pending, after, gpu, loop, ctl,
                   dictation, pausedBy>>

\* Any other storage error of an executor fails the job and pauses the queue, the
\* one of the snapshot behind the last checkpoint too.
ExecutionFails(j) ==
    /\ "fault" \in Controls /\ faults < MaxFaults
    /\ pc[j] \in {"init", "claim", "next", "preempt", "commit", "closing"}
    /\ status' = [status EXCEPT ![j] = "failed"]
    /\ queuePaused' = TRUE
    /\ Goto(j, "done")
    /\ gpuSession' = IF gpuSession = j THEN NoJob ELSE gpuSession
    /\ gpuBusy' = (gpuSession' # NoJob \/ \E k \in Jobs : pc[k] \in {"gate", "gpu"})
    /\ faults' = faults + 1
    /\ UNCHANGED <<ckpt, order, flags, shuttingDown, tasks, cur, pending, after, loop,
                   ctl, dictation, pausedBy, lost>>

ExecutorStep(j) ==
    \/ InitializeJob(j) \/ Claim(j)
    \/ NextEnded(j) \/ NextYields(j) \/ NextPreempted(j) \/ NextCheckpoint(j)
    \/ Preempt(j) \/ CommitStatus(j) \/ Begin(j)
    \/ PassGate(j) \/ TurnedAway(j) \/ LeaveGpu(j) \/ GpuFails(j)
    \/ YieldAtBoundary(j) \/ GiveBackAttempt(j)
    \/ OperationFails(j) \/ ReadFailure(j) \/ CommitFailure(j) \/ Complete(j)
    \/ Close(j)

-----------------------------------------------------------------------------
(* The job controls.  pause and cancel run on request threads, reading the  *)
(* status first and writing it later; the handlers on the event loop use    *)
(* BEGIN IMMEDIATE and schedule the dispatcher before they return.          *)

Pause(k, j) ==
    /\ "pause" \in Controls /\ ctl[k] = Idle
    /\ status[j] \in {"pending", "running"}
    /\ ctl' = [ctl EXCEPT ![k] = [job |-> j, write |-> "paused"]]
    /\ UNCHANGED <<db, flags, shuttingDown, tasks, threads, gpu, loop, dictation,
                   pausedBy, lost, faults>>

Cancel(k, j) ==
    /\ "cancel" \in Controls /\ ctl[k] = Idle
    /\ status[j] \in Cancellable
    /\ ctl' = [ctl EXCEPT ![k] = [job |-> j, write |-> CancelResult(status[j])]]
    /\ UNCHANGED <<db, flags, shuttingDown, tasks, threads, gpu, loop, dictation,
                   pausedBy, lost, faults>>

CommitControl(k) ==
    /\ ctl[k] # Idle
    /\ status' = [status EXCEPT ![ctl[k].job] = ctl[k].write]
    /\ pausedBy' = IF ctl[k].write = "paused"
                   THEN [pausedBy EXCEPT ![ctl[k].job] = "user"] ELSE pausedBy
    /\ ctl' = [ctl EXCEPT ![k] = Idle]
    /\ UNCHANGED <<ckpt, order, queuePaused, flags, shuttingDown, tasks, threads, gpu,
                   loop, dictation, lost, faults>>

\* The pending jobs exchange their positions.
Reorder ==
    LET waiting == {j \in Jobs : status[j] = "pending"}
    IN /\ "reorder" \in Controls
       /\ \E p \in [waiting -> waiting] :
            /\ \A j, k \in waiting : p[j] = p[k] => j = k
            /\ order' = [j \in Jobs |-> IF j \in waiting THEN order[p[j]] ELSE order[j]]
       /\ UNCHANGED <<status, ckpt, queuePaused, flags, shuttingDown, tasks, threads,
                      gpu, loop, ctl, dictation, pausedBy, lost, faults>>

\* create_job commits the row, then initializes and schedules it.
Submit(j) ==
    /\ LoopIsFree /\ status[j] = "absent" /\ NextOrder <= MaxOrder
    /\ status' = [status EXCEPT ![j] = "pending"]
    /\ order' = [order EXCEPT ![j] = NextOrder]
    /\ loop' = [at |-> "submit", job |-> j, todo |-> {}]
    /\ UNCHANGED <<ckpt, queuePaused, flags, shuttingDown, tasks, threads, gpu, ctl,
                   dictation, pausedBy, lost, faults>>

FinishSubmit ==
    /\ loop.at = "submit"
    /\ ckpt' = [ckpt EXCEPT ![loop.job] = Initialized(loop.job)]
    /\ loop' = LoopFree
    /\ Schedule
    /\ UNCHANGED <<status, order, queuePaused, flags, shuttingDown, threads, gpu, ctl,
                   dictation, pausedBy, lost, faults>>

Requeue(j) ==
    /\ NextOrder <= MaxOrder
    /\ status' = [status EXCEPT ![j] = "pending"]
    /\ order' = [order EXCEPT ![j] = NextOrder]
    /\ pausedBy' = [pausedBy EXCEPT ![j] = "nobody"]
    /\ Schedule

Resume(j) ==
    /\ "resume" \in Controls /\ LoopIsFree /\ status[j] = "paused"
    /\ Requeue(j)
    /\ UNCHANGED <<ckpt, queuePaused, flags, shuttingDown, threads, gpu, loop, ctl,
                   dictation, lost, faults>>

\* A pending job is only scheduled; a failed one gets one more attempt.
Retry(j) ==
    /\ "retry" \in Controls /\ LoopIsFree
    /\ \/ /\ status[j] = "pending"
          /\ Schedule
          /\ UNCHANGED <<status, ckpt, order, pausedBy>>
       \/ /\ status[j] = "failed" /\ Incomplete(ckpt[j]) # {}
          /\ ckpt[j][FirstIncomplete(ckpt[j])].n < RetryBound
          /\ ckpt' = [ckpt EXCEPT ![j] = ManualRetry(@)]
          /\ Requeue(j)
    /\ UNCHANGED <<queuePaused, flags, shuttingDown, threads, gpu, loop, ctl,
                   dictation, lost, faults>>

Reset(row) == [st |-> "pending", n |-> 0, max |-> row.max]

\* Mutant of CanRetrySegment: only the job's status is looked at.
CanRetrySegmentOfIdleJob(j, s) ==
    /\ j \notin Online /\ status[j] \notin {"absent", "running", "cancelling"}
    /\ SegmentCk[s] \subseteq Existing(ckpt[j])

\* A job that was paused while it worked still has its running row.
CanRetrySegment(j, s) ==
    /\ j \notin Online /\ status[j] \notin {"absent", "running", "cancelling"}
    /\ \A c \in Checkpoints : ckpt[j][c].st # "running"
    /\ SegmentCk[s] \subseteq Existing(ckpt[j])

\* Every row of the segment starts over, and normalization if its file is gone.
RetrySegment(j, s) ==
    /\ "segment" \in Controls /\ LoopIsFree /\ CanRetrySegment(j, s)
    /\ \E gone \in SUBSET {NormalizeCk} :
         ckpt' = [ckpt EXCEPT ![j] = [c \in Checkpoints |->
             IF c \in SegmentCk[s] \cup gone THEN Reset(@[c]) ELSE @[c]]]
    /\ Requeue(j)
    /\ UNCHANGED <<queuePaused, flags, shuttingDown, threads, gpu, loop, ctl,
                   dictation, lost, faults>>

ControlQueue(paused) ==
    /\ "queue" \in Controls /\ LoopIsFree /\ queuePaused # paused
    /\ queuePaused' = paused
    /\ IF paused THEN UNCHANGED tasks ELSE Schedule
    /\ UNCHANGED <<status, ckpt, order, flags, shuttingDown, threads, gpu, loop, ctl,
                   dictation, pausedBy, lost, faults>>

-----------------------------------------------------------------------------
(* IBus dictation: prepare_dictation and finish_dictation of api/app.py.    *)

\* request_safe_preemption: no dispatch, and every running job is asked to yield.
ArmDictation ==
    /\ "dictation" \in Controls /\ LoopIsFree /\ dictation = "off"
    /\ dictation' = "arming"
    /\ blockAll' = TRUE
    /\ requested' = requested \cup {j \in Jobs : status[j] = "running"}
    /\ UNCHANGED <<db, preempted, deferred, shuttingDown, tasks, threads, gpu, loop, ctl,
                   pausedBy, lost, faults>>

\* The poll of arm_dictation_at_safe_boundary finds the GPU free.
DictationReady ==
    /\ LoopIsFree /\ dictation = "arming" /\ ~gpuBusy
    /\ dictation' = "on"
    /\ UNCHANGED <<db, flags, shuttingDown, tasks, threads, gpu, loop, ctl, pausedBy,
                   lost, faults>>

\* The session ends, expires, or could not be prepared in time: resume_preempted
\* lifts the block and takes the jobs this preemption stopped.
EndDictation ==
    /\ LoopIsFree /\ dictation # "off"
    /\ dictation' = "off"
    /\ blockAll' = FALSE /\ requested' = {} /\ preempted' = {} /\ deferred' = {}
    /\ loop' = [at |-> "pick", job |-> NoJob, todo |-> preempted \cup deferred]
    /\ UNCHANGED <<db, shuttingDown, tasks, threads, gpu, ctl, pausedBy, lost, faults>>

\* One of them is read; only a paused one is written back.
PickPreempted(j) ==
    /\ loop.at = "pick" /\ j \in loop.todo
    /\ IF status[j] = "paused"
       THEN loop' = [at |-> "write", job |-> j, todo |-> loop.todo \ {j}]
       ELSE loop' = [loop EXCEPT !.todo = @ \ {j}]
    /\ IF status[j] = "pending" THEN Schedule ELSE UNCHANGED tasks
    /\ UNCHANGED <<db, flags, shuttingDown, threads, gpu, ctl, dictation, pausedBy,
                   lost, faults>>

ResumePreempted ==
    /\ loop.at = "write"
    /\ status' = [status EXCEPT ![loop.job] = "pending"]
    /\ pausedBy' = [pausedBy EXCEPT ![loop.job] = "nobody"]
    /\ loop' = [loop EXCEPT !.at = "pick", !.job = NoJob]
    /\ Schedule
    /\ UNCHANGED <<ckpt, order, queuePaused, flags, shuttingDown, threads, gpu, ctl,
                   dictation, lost, faults>>

PreemptedResumed ==
    /\ loop.at = "pick" /\ loop.todo = {}
    /\ loop' = LoopFree
    /\ Schedule
    /\ UNCHANGED <<db, flags, shuttingDown, threads, gpu, ctl, dictation, pausedBy,
                   lost, faults>>

-----------------------------------------------------------------------------
(* Shutdown, death and start of the service.                                *)

BeginShutdown ==
    /\ "shutdown" \in Controls /\ LoopIsFree /\ ~shuttingDown
    /\ shuttingDown' = TRUE
    /\ UNCHANGED <<db, flags, tasks, threads, gpu, loop, ctl, dictation, pausedBy,
                   lost, faults>>

\* close() has joined the dispatcher and the lease server has ended dictation.
Drained == shuttingDown /\ dispatcher = "off" /\ dictation = "off" /\ LoopIsFree

\* The process ends and start_recovered_jobs runs in a new one: rows are
\* initialized where a crash prevented it, then recovery_scan repairs the rest.
Restart ==
    /\ \/ Drained /\ UNCHANGED faults
       \/ "fault" \in Controls /\ faults < MaxFaults /\ faults' = faults + 1
    /\ LET rows(j) == IF status[j] = "pending" THEN Initialized(j) ELSE ckpt[j]
       IN /\ ckpt' = [j \in Jobs |-> RecoveredCk(status[j], rows(j))]
          /\ status' = [j \in Jobs |-> RecoveredStatus(status[j], rows(j))]
          /\ dispatcher' = IF \E j \in Jobs : HasRecoveryPlan(status[j], rows(j))
                           THEN "start" ELSE "off"
          /\ lost' = {j \in lost : status[j] = "failed"}
    /\ requested' = {} /\ blockAll' = FALSE /\ preempted' = {} /\ deferred' = {}
    /\ shuttingDown' = FALSE /\ wakeup' = FALSE /\ dictation' = "off"
    /\ pc' = [j \in Jobs |-> "idle"]
    /\ cur' = [j \in Jobs |-> 0]
    /\ pending' = [j \in Jobs |-> "pending"]
    /\ after' = [j \in Jobs |-> "closing"]
    /\ gpuBusy' = FALSE /\ gpuSession' = NoJob
    /\ loop' = LoopFree
    /\ ctl' = [k \in Callers |-> Idle]
    /\ UNCHANGED <<order, queuePaused, pausedBy>>

-----------------------------------------------------------------------------
Next ==
    \/ DispatcherTurn \/ DispatcherSettles \/ \E j \in Jobs : Launch(j)
    \/ \E j \in Jobs : ExecutorStep(j) \/ EnterGate(j) \/ WriteLost(j) \/ ExecutionFails(j)
    \/ \E k \in Callers, j \in Jobs : Pause(k, j) \/ Cancel(k, j)
    \/ \E k \in Callers : CommitControl(k)
    \/ Reorder \/ FinishSubmit
    \/ \E j \in Jobs : Submit(j) \/ Resume(j) \/ Retry(j)
    \/ \E j \in Jobs, s \in Segments : RetrySegment(j, s)
    \/ \E paused \in BOOLEAN : ControlQueue(paused)
    \/ ArmDictation \/ DictationReady \/ EndDictation
    \/ \E j \in Jobs : PickPreempted(j)
    \/ ResumePreempted \/ PreemptedResumed
    \/ BeginShutdown \/ Restart

Spec == Init /\ [][Next]_vars

\* An operation makes finitely many model calls, each of which is bounded.
OperationEnds(j) == Complete(j) \/ OperationFails(j) \/ YieldAtBoundary(j)

\* Threads and callbacks make progress; users, dictation and crashes promise
\* nothing.  The event loop serves its ready callbacks in turn, so that the
\* dispatcher's next turn cannot be overtaken for ever (SF).
Fairness ==
    /\ \A j \in Jobs : WF_vars(ExecutorStep(j)) /\ SF_vars(OperationEnds(j))
    /\ SF_vars(DispatcherTurn)
    /\ WF_vars(DispatcherSettles \/ \E j \in Jobs : Launch(j))
    /\ \A k \in Callers : WF_vars(CommitControl(k))
    /\ WF_vars(FinishSubmit)
    /\ WF_vars(DictationReady)
    /\ WF_vars(ResumePreempted \/ PreemptedResumed \/ \E j \in Jobs : PickPreempted(j))

FairSpec == Spec /\ Fairness

-----------------------------------------------------------------------------
(* Safety.                                                                  *)

\* Local model lifetimes are exclusive: two jobs have an executor at once only
\* if both are online, and never more of them than the pool allows (the launch
\* conditions of execute(), across turns, reaps, cleanup and restarts).
LocalModelsExclusive ==
    /\ \A i, j \in Jobs : i # j /\ {i, j} \subseteq RunningJobs => {i, j} \subseteq Online
    /\ Cardinality(RunningJobs) <= MaxConcurrent

\* A running checkpoint row belongs to the executor that is working on it, and
\* the work of an executor is always recorded as a running row, over every control,
\* crash and storage error.  A row without an executor is left only by a write of
\* run_checkpoint that fails itself (the next start repairs it, unless its job has
\* failed by then), or under a job that was cancelled before a crash.
CheckpointOwnership ==
    \A j \in Jobs :
        /\ pc[j] \in Working => ckpt[j][cur[j]].st = "running"
        /\ \A c \in Checkpoints :
             ckpt[j][c].st = "running" /\ status[j] # "cancelled" /\ j \notin lost
                => pc[j] \in Working /\ cur[j] = c

\* Attempts never exceed the limit, and no row waits to run with all its
\* attempts used up, so the exhaustion branch of begin_checkpoint is dead code.
AttemptsWithinLimit ==
    \A j \in Jobs, c \in Checkpoints :
        /\ ckpt[j][c].n <= ckpt[j][c].max
        /\ ckpt[j][c].st \in {"pending", "retryable"} => ckpt[j][c].n < ckpt[j][c].max

\* While a dictation session owns the GPU no classroom model runs on it or is
\* retained on it, whatever executor was about to enter it when the poll of
\* arm_dictation_at_safe_boundary found it free.
GpuHandedOver ==
    dictation = "on" => gpuSession = NoJob /\ \A j \in Jobs : pc[j] # "gpu"

\* What the poll reads is up to date: whoever is at the GPU or retains a model
\* on it is announced by the busy event, and every session that waits for the
\* GPU or has it keeps new classroom work off it.  With LocalModelsExclusive,
\* the reason why GpuHandedOver holds.
GpuAnnounced ==
    /\ \A j \in Jobs : pc[j] \in {"gate", "gpu"} => gpuBusy /\ j \notin Online
    /\ gpuSession # NoJob => gpuBusy
    /\ dictation # "off" => blockAll

\* A completed job has no work left: the rows of the segments found are created
\* before the structure checkpoint can end the job.
CompletedMeansDone ==
    \A j \in Jobs : status[j] = "completed" => Incomplete(ckpt[j]) = {}

\* A finished checkpoint is run again only because the user asked for its
\* segment, which also puts the job back at the end of the queue.
CompletedWorkKept ==
    [][\A j \in Jobs, c \in Checkpoints :
          ckpt[j][c].st = "completed" /\ ckpt'[j][c].st # "completed"
             => ckpt'[j][c].st = "pending" /\ order'[j] > order[j]]_vars

\* A checkpoint begins only when all those before it are complete (run_next
\* chose it in an earlier transaction; retry_segment is not exercised here).
ChecksInOrder ==
    [][\A j \in Jobs, c \in Checkpoints :
          ckpt[j][c].st # "running" /\ ckpt'[j][c].st = "running"
             => \A d \in Existing(ckpt[j]) : d < c => ckpt[j][d].st = "completed"]_vars

Quiet ==
    /\ LoopIsFree /\ dispatcher = "off" /\ RunningJobs = {}
    /\ \A k \in Callers : ctl[k] = Idle

\* There is nothing the last executor could begin: no row is left, the one it chose has
\* failed or was cancelled, or it found no row when it took the job up, however many a
\* retried segment has put back since.  A job gets there when a pause that was read
\* before its end is written after it, and is resumed.
NothingToBegin(j) ==
    \/ Incomplete(ckpt[j]) = {}
    \/ cur[j] \in Checkpoints /\ ckpt[j][cur[j]].st \in {"failed", "cancelled"}
    \/ pending[j] = "running" /\ after[j] = "closing"

\* When nothing executes and nobody acts, a job that is recorded as running has nothing
\* to begin, or a write of its checkpoint failed: every other way an executor can stop
\* leaves its job where the dispatcher or the user can take it up again.
NoStrandedJob ==
    Quiet => \A j \in Jobs : status[j] = "running" => j \in lost \/ NothingToBegin(j)

-----------------------------------------------------------------------------
(* Liveness, under FairSpec.                                                *)

Undisturbed == ~queuePaused /\ dictation = "off" /\ ~shuttingDown

\* No wakeup of the dispatcher is lost: once the queue is left open, a pending
\* job is taken up, whoever queued it and whatever the dispatcher was doing.
PendingIsServed ==
    <>[]Undisturbed => \A j \in Jobs : status[j] = "pending" ~> status[j] # "pending"

\* Once the queue is left open a submitted job runs to its end, across yields,
\* failed attempts and retries requested while its executor was still closing.
JobsSettle ==
    <>[]Undisturbed =>
        \A j \in Jobs : status[j] = "pending" ~> status[j] \in {"completed", "failed"}

\* Classroom work yields: dictation that keeps waiting is granted the GPU.
GpuYielded == dictation = "arming" ~> dictation # "arming"

-----------------------------------------------------------------------------
(* What the documentation promises and the unserialised handlers break.     *)

\* docs/recovery.md:13: pause, resume, cancel and retry make explicit legal
\* transitions only.  A cancelled or completed job can then only be queued
\* again by the user, which moves it to the end of the queue.
TerminalIsFinal ==
    [][\A j \in Jobs : status[j] \in TerminalStatus /\ status'[j] # status[j]
          => status'[j] = "pending" /\ order'[j] > order[j]]_vars

\* Docstring of resume_preempted: "never jobs the user paused".
UserPauseRespected ==
    [][loop.at = "write" /\ loop'.at = "pick" => pausedBy[loop.job] # "user"]_vars

\* docs/gpu-scheduling.md:8, 14-15: the queue goes on when dictation ends, and
\* the jobs this preemption paused are resumed.
PreemptedNotForgotten ==
    Quiet /\ dictation = "off"
       => \A j \in Jobs : status[j] = "paused" => pausedBy[j] # "ibus"
=============================================================================
