---------------------------- MODULE ModelSessions ----------------------------
(***************************************************************************)
(* The model processes of classroom jobs (models/inference.py): the threads  *)
(* of the jobs hand their calls to one event loop, which keeps the process   *)
(* of a call for the next one of the same job, and which lives as long as a  *)
(* job is open or a call is under way.  Dictation waits until no process is  *)
(* left, and its own workers stop before a classroom model is loaded.  One   *)
(* step is a section under the guard, what a task does between two awaits,   *)
(* or one call of a process.                                                 *)
(***************************************************************************)
EXTENDS Naturals, FiniteSets, Sequences

CONSTANTS Local, Online,   \* jobs that call models one after the other, and jobs that call none
          Models,
          MaxRuns, MaxCalls, MaxDictations, MaxFailures   \* bounds

\* "none" marks that there is no job.
ASSUME JobsAssumption == "none" \notin Local \cup Online

VARIABLES
    thread,     \* of each job: where its executor is
    open,       \* _jobs
    loop,       \* the number of the loop, 0 when there is none
    loops,      \* loops started so far
    task,       \* of each job: the task it waits for
    queue,      \* the tasks that hold (the first) or want the GPU lock
    session, retiring,   \* of the GPU lane
    busy,       \* _gpu_busy
    dictation, block,    \* arm_dictation_at_safe_boundary, SafeBoundaryPause
    resident,   \* the workers of dictation have the GPU
    left        \* what the bounds leave
sessionVars == <<thread, open, loop, loops, task, queue, session, retiring, busy, dictation, block,
                 resident, left>>

Jobs == Local \cup Online
NoSession == [job |-> "none", model |-> "none", live |-> FALSE]
NoTask == [kind |-> "none", at |-> "none", model |-> "none", loop |-> 0]

SessionsInit ==
    /\ thread = [j \in Jobs |-> "off"] /\ open = {} /\ loop = 0 /\ loops = 0
    /\ task = [j \in Jobs |-> NoTask] /\ queue = <<>>
    /\ session = NoSession /\ retiring = NoSession /\ busy = FALSE
    /\ dictation = "off" /\ block = FALSE /\ resident = FALSE
    /\ left = [runs |-> MaxRuns, calls |-> MaxCalls, dictations |-> MaxDictations, failures |-> MaxFailures]

Charge(what) == left[what] > 0 /\ left' = [left EXCEPT ![what] = @ - 1]
dictationVars == <<dictation, block, resident>>
laneVars == <<queue, session, retiring, busy>>

-----------------------------------------------------------------------------
(* The threads of the jobs.                                                 *)

Moves(j, to) == thread' = [thread EXCEPT ![j] = to]

\* open_job; local jobs run one at a time.
OpenJob(j) ==
    /\ thread[j] = "off" /\ Charge("runs")
    /\ j \in Local => \A other \in Local : thread[other] = "off"
    /\ Moves(j, "between") /\ open' = open \cup {j}
    /\ UNCHANGED <<loop, loops, task, laneVars, dictationVars>>

\* run_next: a checkpoint starts unless dictation asks for the GPU.
RunNext(j) ==
    /\ thread[j] = "between" /\ ~block /\ Moves(j, "handler")
    /\ UNCHANGED <<open, loop, loops, task, laneVars, dictationVars, left>>
EndCheckpoint(j) ==
    /\ thread[j] = "handler"
    /\ Moves(j, "between") \/ Moves(j, "released")
    /\ UNCHANGED <<open, loop, loops, task, laneVars, dictationVars, left>>

\* _submit: there is a loop from here on.  Tasks start in the order they came.
Submit(j, kind, model) ==
    LET current == IF loop = 0 THEN loops + 1 ELSE loop IN
    /\ loop' = current /\ loops' = IF loop = 0 THEN loops + 1 ELSE loops
    /\ task' = [task EXCEPT ![j] = [kind |-> kind, at |-> "queued", model |-> model, loop |-> current]]
    /\ queue' = IF kind = "state" THEN queue ELSE Append(queue, j)
    /\ Moves(j, "waiting")

CallModel(j, model) ==
    /\ thread[j] = "handler" /\ j \in Local /\ Charge("calls")
    /\ Submit(j, "call", model)
    /\ UNCHANGED <<open, session, retiring, busy, dictationVars>>
\* release_cpu, at the end of a stage: there is no CPU session, so only the state is read.
ReleaseCpu(j) ==
    /\ thread[j] = "released"
    /\ IF loop = 0 THEN Moves(j, "between") /\ UNCHANGED <<loop, loops, task, queue>>
       ELSE Submit(j, "state", "none")
    /\ UNCHANGED <<open, session, retiring, busy, dictationVars, left>>
\* close_job: the job is forgotten, then its session is given up.
CloseJob(j) ==
    /\ thread[j] = "between" /\ open' = open \ {j}
    /\ Moves(j, IF loop = 0 THEN "off" ELSE "closing")
    /\ UNCHANGED <<loop, loops, task, laneVars, dictationVars, left>>
ReleaseOwned(j) ==
    /\ thread[j] = "closing" /\ Submit(j, "release", "none")
    /\ UNCHANGED <<open, session, retiring, busy, dictationVars, left>>

Inflight == {j \in Jobs : thread[j] = "waiting"}

\* _finished: the last one of all ends the loop.
Idle(after) == open = {} /\ after = {}
Finished(j) ==
    /\ thread[j] = "waiting" /\ task[j].at = "ended"
    /\ loop' = IF Idle(Inflight \ {j}) THEN 0 ELSE loop
    /\ task' = [task EXCEPT ![j] = NoTask]
    /\ Moves(j, CASE task[j].kind = "call" -> "handler" [] task[j].kind = "state" -> "between" [] OTHER -> "off")
    /\ UNCHANGED <<open, loops, laneVars, dictationVars, left>>

-----------------------------------------------------------------------------
(* The tasks on the loop.                                                   *)

Runs(j, kind, at) == task[j].kind = kind /\ task[j].at = at /\ task[j].loop = loop
Owns(j) == queue # <<>> /\ Head(queue) = j
Goes(j, at) == task' = [task EXCEPT ![j].at = at]
threadVars == <<thread, open, loop, loops>>

\* Mutant: a task that holds the lock has no process yet, so it does not count.
InUseUnlocked(lane, retired, locked) == lane # NoSession \/ retired # NoSession

\* _sync_gpu_state.
InUse(lane, retired, locked) == lane # NoSession \/ retired # NoSession \/ locked
Locked == queue # <<>> /\ task[Head(queue)].at \notin {"queued", "ended"}

\* The lock is released; the session that was dropped is gone.
Leaves(j) ==
    /\ Goes(j, "ended") /\ queue' = Tail(queue)
    /\ busy' = InUse(session, NoSession, FALSE)

State(j) ==
    /\ Runs(j, "state", "queued") /\ Goes(j, "ended")
    /\ busy' = InUse(session, retiring, Locked)
    /\ UNCHANGED <<threadVars, queue, session, retiring, dictationVars, left>>

\* The event is set before the boundary is checked again.
TakeLane(j) ==
    /\ Runs(j, "call", "queued") /\ Owns(j)
    /\ Goes(j, "gate") /\ busy' = TRUE
    /\ UNCHANGED <<threadVars, queue, session, retiring, dictationVars, left>>
Gate(j) ==
    /\ Runs(j, "call", "gate")
    /\ IF block THEN Leaves(j) ELSE Goes(j, "chosen") /\ UNCHANGED <<queue, busy>>
    /\ UNCHANGED <<threadVars, session, retiring, dictationVars, left>>

\* The process is used again for the same job, model and audio.
Reusable(j) == session.live /\ session.job = j /\ session.model = task[j].model
Choose(j, same) ==
    /\ Runs(j, "call", "chosen") /\ (same => Reusable(j))
    /\ IF same THEN Goes(j, "calling") /\ UNCHANGED <<session, retiring>>
       ELSE IF session = NoSession THEN Goes(j, "suspending") /\ UNCHANGED <<session, retiring>>
       ELSE Goes(j, "replacing") /\ retiring' = session /\ session' = NoSession
    /\ UNCHANGED <<threadVars, queue, busy, dictationVars, left>>

\* _drop: the process of the session that was taken out ends.
Dropped(j) ==
    /\ task[j].loop = loop /\ task[j].at \in {"replacing", "dropping"}
    /\ retiring' = NoSession /\ UNCHANGED session
    /\ IF task[j].at = "replacing" THEN Goes(j, "suspending") /\ UNCHANGED <<queue, busy>> ELSE Leaves(j)
    /\ UNCHANGED <<threadVars, dictationVars, left>>

\* before_gpu_use: an active dictation refuses, else its workers stop.
Suspend(j) ==
    /\ Runs(j, "call", "suspending")
    /\ IF dictation = "held" THEN Leaves(j) /\ UNCHANGED resident
       ELSE Goes(j, "loading") /\ resident' = FALSE /\ UNCHANGED <<queue, busy>>
    /\ UNCHANGED <<threadVars, session, retiring, dictation, block, left>>

\* A session is there before its process has started.
Load(j) ==
    /\ Runs(j, "call", "loading") /\ Goes(j, "calling")
    /\ session' = [job |-> j, model |-> task[j].model, live |-> TRUE]
    /\ UNCHANGED <<threadVars, queue, retiring, busy, dictationVars, left>>

\* The call succeeds and the job keeps the process, or the process is given up.
Returns(j, ok) ==
    /\ Runs(j, "call", "calling")
    /\ IF ok THEN UNCHANGED left ELSE Charge("failures")
    /\ IF ok /\ j \in open THEN Leaves(j) /\ UNCHANGED <<session, retiring>>
       ELSE /\ Goes(j, "dropping") /\ retiring' = session /\ session' = NoSession
            /\ UNCHANGED <<queue, busy>>
    /\ UNCHANGED <<threadVars, dictationVars>>

Release(j) ==
    /\ Runs(j, "release", "queued") /\ Owns(j)
    /\ IF session # NoSession /\ session.job = j
       THEN /\ Goes(j, "dropping") /\ retiring' = session /\ session' = NoSession
            /\ UNCHANGED <<queue, busy>>
       ELSE Leaves(j) /\ UNCHANGED <<session, retiring>>
    /\ UNCHANGED <<threadVars, dictationVars, left>>

\* A process ends by itself.
Crash ==
    /\ session.live /\ Charge("failures") /\ session' = [session EXCEPT !.live = FALSE]
    /\ UNCHANGED <<threadVars, task, queue, retiring, busy, dictationVars>>

-----------------------------------------------------------------------------
(* Dictation.                                                               *)

jobVars == <<threadVars, task, laneVars>>
Arm ==
    /\ dictation = "off" /\ Charge("dictations") /\ dictation' = "arming" /\ block' = TRUE
    /\ UNCHANGED <<jobVars, resident>>
Ready ==
    /\ dictation = "arming" /\ ~busy /\ dictation' = "held" /\ resident' = TRUE
    /\ UNCHANGED <<jobVars, block, left>>
\* The wait times out, or the dictation ends: the jobs go on, the workers stay a while.
EndDictation ==
    /\ dictation # "off" /\ dictation' = "off" /\ block' = FALSE
    /\ UNCHANGED <<jobVars, resident, left>>
IdleRelease ==
    /\ resident /\ dictation = "off" /\ resident' = FALSE
    /\ UNCHANGED <<jobVars, dictation, block, left>>

-----------------------------------------------------------------------------
TaskStep(j) ==
    \/ State(j) \/ TakeLane(j) \/ Gate(j) \/ Dropped(j) \/ Suspend(j) \/ Load(j) \/ Release(j)
    \/ \E b \in BOOLEAN : Choose(j, b) \/ Returns(j, b)
ThreadStep(j) ==
    \/ RunNext(j) \/ EndCheckpoint(j) \/ ReleaseCpu(j) \/ CloseJob(j) \/ ReleaseOwned(j) \/ Finished(j)
SessionsNext ==
    \/ \E j \in Jobs : TaskStep(j) \/ ThreadStep(j) \/ OpenJob(j) \/ (\E m \in Models : CallModel(j, m))
    \/ Crash \/ Arm \/ Ready \/ EndDictation \/ IdleRelease

SessionsSpec == SessionsInit /\ [][SessionsNext]_sessionVars

\* Calls return and threads run on; a checkpoint ends, and a job that finds dictation
\* asking is closed.
Yields(j) == block /\ (CloseJob(j) \/ EndCheckpoint(j))
Gives(j) == TaskStep(j) \/ ReleaseCpu(j) \/ ReleaseOwned(j) \/ Finished(j) \/ Yields(j)
SessionsFairness == \A j \in Jobs : WF_sessionVars(Gives(j))

-----------------------------------------------------------------------------
\* While a dictation holds the GPU no classroom process is alive, and none is loaded
\* beside its workers, however boundaries, retained models and ends of jobs fall
\* together (inference.py:160-166, 210-216; pipeline.py:790-812).
GpuAlone ==
    /\ dictation = "held" => session = NoSession /\ retiring = NoSession
    /\ session # NoSession \/ retiring # NoSession => busy /\ ~resident

\* A job leaves no process behind, and nobody else uses it.
SessionsEnd ==
    \A j \in Jobs : thread[j] = "off" => session.job # j /\ retiring.job # j /\ task[j] = NoTask

\* The loop does not stop under a task, and does not stay when there is no job.
LoopServes ==
    /\ \A j \in Jobs : task[j] # NoTask => task[j].loop = loop
    /\ (\A j \in Jobs : thread[j] = "off") => loop = 0

\* A classroom process and dictation never have the GPU at once, a job leaves no
\* process behind, and the loop of the calls lives exactly as long as it is needed.
LaneShared == GpuAlone /\ SessionsEnd /\ LoopServes

\* A dictation that waits is not kept waiting by classroom models.
DictationIsServed == dictation = "arming" ~> (dictation # "arming" \/ ~busy)
=============================================================================
