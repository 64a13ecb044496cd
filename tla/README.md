# ClassScribe in TLA+

ClassScribe is a local transcription workbench for classroom recordings and an
IBus input method that dictates through the same GPU. This directory holds
TLA+ models of its concurrent parts and of its pure algorithms, the TLC
configurations that check them, and TLAPS proofs of the main results. Paths
below are relative to `src/`; `pipeline.py`, `service.py` and so on are under
`backend/classscribe/`.

    tlc -config MCPipelineControls.cfg MCClassroomPipeline
    tlapm ClassroomPipelineProofs.tla

## 1. The system

Three kinds of process share one GPU and one SQLite file: the core with its
API, event loop and threads, the dictation daemon, and one process for each
model worker. The browser and the IBus engine are their clients.

| component | state it keeps | operations | hard behaviour |
|---|---|---|---|
| job state machine (`jobs/state_machine.py`) | `jobs.status`, checkpoint rows: status, attempt count, limit | create, begin, complete, fail, retry, pause, resume, cancel, recovery scan | crash between transactions, last attempt, recovery of every pair of job and row status |
| classroom pipeline (`classroom/pipeline.py`, `queue.py`) | dispatcher and its wakeup event, one thread per claimed job, `_requested`, `_block_all`, `_preempted_jobs`, queue order, the broker's replay log | schedule, claim, run_next, boundaries, preempt, resume, shutdown, restart, publish | handlers that read and write in different steps; wakeups; late events of an earlier run |
| classroom stages (`classroom/production.py`) | rows of regions, segments, candidates, decisions, layers | one handler per checkpoint | evidence stored by one handler and read by another after edits, retries, new models |
| job controls (`api/service.py`, `routes.py`) | benchmark tasks | create, pause, resume, cancel, retry, reorder, benchmarks and profiles, events | synchronous routes run in a thread pool, asynchronous ones on the loop |
| GPU handover (`api/app.py`, `models/inference.py`) | busy event, lane lock, loop, retained model session | prepare and finish dictation, calls through the lane | polling against threads that pass a gate; a loop stopped by whoever ends last |
| GPU manager (`scheduler/gpu.py`) | owner, waiters, dictation counter | acquire, release, boundary, begin and end dictation, recovery from a full GPU | priorities, a timeout racing a grant |
| online requests (`classroom/online.py`, `online_attempts.py`, `mai.py`) | attempt rows, request and response files, throttle | prepare, send, save, import, refuse, authorize a retry | a crash at any point of a request that costs money |
| transcript autosave (`frontend/src/transcriptSaves.ts`) | drafts in browser storage, timers, saves in flight | type, save, load latest, rebase, discard, restore | typing during a save, lost answers, reload |
| transcript service (`service.py`, `jobs/audit.py`) | segments with versions, decision events | edit, adopt, undo, redo, split, merge | several windows and the job itself |
| dictation daemon (`ibus/dictationd/.../daemon.py`, `session.py`) | lock, arming task, consumer, queue, candidate timer, lease watchdog; the controller's state | arm, stop, cancel, select, overflow | tasks that cancel one another at any await; some without the lock |
| dictation streaming (`streaming.py`, `runtime.py`) | chunk plan, stream, stable prefix, pending text | feed, cut, replay, confirm, finalize | words heard twice, cut, respelled, without times |
| lease server (`scheduler/ipc.py`) | sessions, deadlines, preparations, pending end | begin, renew, end, expire | expiry during a preparation, failed ends |
| resident workers (`models/resident.py`) | warm processes, manifest, idle timer | prewarm, prepare, suspend, invalidate, release | a thread takes what the loop is loading |
| worker processes (`models/worker_process.py`, `protocol/`, `workers/`) | a process pinned to its environment, tasks of calls, the adapter's lock and stream | start, call, cancel, stop | a native call outlives its cancelled request |
| installation (`models/manager.py`, `environment.py`) | revisions, active pointer, audit file, rows; environment directories | plan, confirm, activate, roll back, delete; publish, repair, clean up | crash between file replacements; two processes |
| batch imports (`frontend/src/batchImports.ts`) | saved list of imports, shared by tabs | upload, clip, submit, retry, stop | lost answers |
| IBus engine, portal (`ibus/engine`, `ibus/hotkey_portal`) | last state seen, preedit, focus | keys, poll, focus, commit | requests given up after 0.35 s and done later |
| processing (`audio`, `structure`, `asr`, `quality`, `consensus`, `punctuation`, `terminology`, `alignment`, `timeline`, `exports`) | none across calls | functions of files and rows | spans, cuts, votes and alignments at their boundaries |

The browser calls the API; the API writes jobs and wakes the dispatcher; the
dispatcher starts an executor thread for a claimed job; the executor runs one
handler per checkpoint, asks the boundary flags before each and inside model
calls, and enters the GPU lane. The daemon asks the lease server for the GPU;
the core then blocks the dispatch, asks running jobs to yield, polls the busy
event and the RUNNING rows, has the resident workers prepared, and answers.
When the last lease ends the core lifts the block and resumes the jobs that
dictation has paused. The IBus engine polls the daemon for text.

What makes each component correct is said by the properties of section 3; the
hazards behind them are in `PROJECT.json`, each at its line.

## 2. The modules

| module | models | state and actions |
|---|---|---|
| `JobStateMachine` | `jobs/state_machine.py` | operators on one job's status and rows, one per operation; no variables |
| `ClassroomPipeline` | `classroom/pipeline.py`, job controls, `prepare_dictation`/`finish_dictation`, the GPU gate | extends `JobStateMachine`; `status`, `ckpt`, `order` are SQLite; `pc`, `cur`, `pending` the executor threads; `ctl` the request threads; `loop` the handler the event loop is in |
| `PaidRequest` | - | abstract: what a user who pays is promised |
| `MaiRequests` | `online.py`, `online_attempts.py`, `retry_job` | one job's thread through a request, its attempts, the response file, the page; implements `PaidRequest` |
| `TranscriptSaves` | `transcriptSaves.ts`, `patch_segment`, `edit_segment` | the draft, one save, one read and one rebase in flight, the stored segment |
| `SegmentHistory` | adopt, undo, redo, split, merge in `service.py`, `audit.py` | rows, decision events, one request of each window between its reads and its commit |
| `JobEvents` | broker of `pipeline.py`, `routes.job_events`, `api.ts`, `JobPage.tsx` | log, activity and owner of a run, the stream, the page's snapshot and refresh |
| `BatchImports` | `batchImports.ts` and its endpoints | the saved list, tabs, requests under way, uploads, clips, jobs |
| `DictationService` | `daemon.py`, `session.py`, the lease as the daemon sees it | `at` says where each task is; `lock` is the queue of the lock; `running` the task that has not been suspended |
| `DictationText` | `streaming.py`, `runtime.py`, `session.py`, the streaming workers | what is said in units, the chunk, the stream, what is pending and committed |
| `IBusEngine` | `controller.py` of the engine, the portal's activations | engines, the focus, the daemon's events, answers that come late |
| `GpuHandover` | - | abstract: the GPU is prepared for the first member and given back after the last |
| `LeaseServer` | `scheduler/ipc.py`, `SchedulerLeaseClient` | sessions, deadlines, preparations, ends that are owed; implements `GpuHandover` |
| `ResidentWorkers` | `models/resident.py` | its tasks, its lock, the processes it tracks, what is stale or invalidated |
| `ModelSessions` | `models/inference.py` | threads of jobs, the loop and its tasks, the retained session, busy |
| `GpuScheduler` | `scheduler/gpu.py` | waiters and owner; attempts of the recovery chain |
| `WorkerCalls` | `protocol/.../adapter.py`, `rpc.py`, nemotron and firered streams | tasks of calls, the adapter's queue, native calls, the stream |
| `WorkerEnvironments` | `models/environment.py`, `worker_process.py` | directories, publishers, exclusive and shared file locks, processes |
| `ModelInstall` | `models/manager.py` | files, pointer and rows that outlive a crash; plans, progress and lock that do not |
| `Profiles` | benchmarks and profiles in `service.py`, `benchmark/`, their use in `production.py` and `resident.py` | runs, profile rows with history, requests, the program's contract and revisions |
| `ClassroomStages` | `classroom/production.py` | what every handler reads and commits, with the glossary, models and user's text around it |
| `Timeline`, `Words` | `timeline/`, words of `quality/text.py` and `consensus/alignment.py` | operators |
| `AudioAnalysis`, `Structure`, `Recognition`, `Consensus`, `FinalText`, `Exports`, `MaiAnswer` | `audio/`; `structure/`; `asr/` and `quality/`; `consensus/`; `terminology/`, `punctuation/`, `alignment/`; `exports/` and `readability.py`; the answer of `mai.py` | operators, named after the functions they stand for |
| `MCClassroomPipeline`, `MCClassroomStages`, `MCStages` | - | instances: segments and models; inputs and reference definitions of the pure stages |
| `MCBrowser`, `MCClassroom`, `MCDictation`, `MCDictationText`, `MCServices` | - | several modules in one run, see section 3 |
| `ClassroomPipelineProofs`, `DeliveryProofs`, `BrowserProofs`, `DictationServiceProofs`, `ServicesProofs`, `JobPartsProofs`, `WorkersProofs`, `ClassroomProofs` | - | the proofs, see section 5 |

### What is one step

*ClassroomPipeline.* SQLAlchemy over sqlite3 reads in autocommit and takes the
write lock at the first UPDATE, which writes changed columns only
(`db/session.py`). So a handler that reads a job's status and writes it without
`BEGIN IMMEDIATE` is two steps: the claim (`Claim`, then the write that
`CommitLater` leaves in `pending`), pause and cancel (`Pause`/`Cancel`, then
`CommitControl`), the writes by which `run_next` goes on, yields, cancels or
pauses (`CommitLater` too), and `resume_preempted` (`PickPreempted`, `ResumePreempted`). A transaction that
locks first, or writes only columns nobody else writes, is one step:
begin, interrupt and completion of a checkpoint. `request_safe_preemption` and
the three reads of `check_boundary` are one step each. Asynchronous routes
(resume, retry, retry segment, submit, queue control) run between two callbacks of
the loop. Review checkpoints are ranks in `SegmentCk`. A restart is the crash of
everything in memory followed by `initialize`, `recover` and
`start_recovered_jobs`.

*MaiRequests.* Every transaction, file replacement and network call is a step,
and the process may die between any two. The job has passed its local
checkpoints. Its cancel is one step, because the races of cancel are those of
`ClassroomPipeline`. The throttle is set only when the diagnostics of a failed
attempt commit, as in the code.

*TranscriptSaves.* Between two awaits the page is one step. A text is a set of
edits, and typing adds one to what the textarea shows; this is enough to tell whether
an edit is lost, stored, or overwritten. A request is sent, handled, read back and
answered in separate steps. One segment and page, with other windows as an environment
that edits the latest version.

*SegmentHistory, Profiles.* A request reads in autocommit, and commits in a later
step: rows compare their version there (`StaleDataError`), profiles do not, and each
writes the columns it changed. A page that is stale is a request that arrives late.
A pass of the job commits in one step.

*JobEvents.* A section under the broker's lock, a transaction, or one message between
stream and page. A status is committed before it is published.

*BatchImports.* A request goes on at the server when its tab stops, is reloaded, or
loses the answer. Which waiting item `drain` takes first is left open.

*DictationService.* A step runs a task from one await to the next. An await
that cannot suspend (a free lock, a VAD that is closed already) is no step: the
task keeps `running`, and no other task comes in between. `LISTENING`
stands for `INTERIM_UPDATE` too; `COMMITTING` and `ERROR` are entered and left
in one step. A cancelled task is moved to the cleanup its except and finally clauses
run.

*DictationText.* A step is one unit of speech, one answer of the worker, one cut or the
end. The models hear exactly what is said; the times they give are those the worker
makes up. `Horizon` is at least `Hard + Overlap`, as with the shipped settings.

*IBusEngine.* A key, an activation, a change of focus, a poll and its answer. A request
may be given up and carried out later, the cancel of `focus_out` among them. The toggle is the one of
begin and release that does something. "finalizing" and the flag `pressed` change
nothing that is shown and are left out; past a bound an action does nothing.

*LeaseServer, ResidentWorkers, ModelSessions, WorkerCalls.* What a task does between
two awaits, or a section under a thread's lock. The order in which waiters get the
lease server's lock is left open. Time is the step `Elapse`: a deadline passes. A call
of the CPU lane has no session. Cancellation of a whole model call is left
out, because its callers use `asyncio.run`. Native libraries end at any time.

*GpuScheduler.* A method runs without an await under its lock, so it is one step; a
task that was granted a lease resumes later.

*WorkerEnvironments.* A version is the digest of the sources. A removal deletes file by
file. Threads of one process and other processes take the same locks.

*ModelInstall.* Each file replacement, commit and check is a step; a crash keeps files,
pointer and rows.

*ClassroomStages.* A handler commits in one transaction with its checkpoint, so it is one
step; the calls of the language stage, which a journal outlives, and the attempts of
the structure stage are steps of their own.

*MCStages.* A state is one input of one stage, before and after the stage has run; the
properties compare the result with a reference definition.

## 3. The runs

Nine runs pass: their properties hold of the instance in the second column. For `RestsEmpty`,
`MicrophoneKept` and `CommandsReturn` the instance is a limit: with the faults or sessions it leaves
out, parts of them fail (see "Known to fail"). A run may hold several modules that share nothing: `part` is chosen in the initial state and says which of them
a behaviour is about, and the other variables stay as they are. A property of such a
run is the conjunction of the named properties of its modules, given here in brackets;
its comment says what they state together.

| run | instance | shows |
|---|---|---|
| `controls` | 1 local job, 3 checkpoints, 1 segment, 2 attempts, 1 failed write or crash at any step; pause, cancel, resume, segment retry, shutdown | `CheckpointOwnership`, `AttemptsWithinLimit`, `CompletedMeansDone`, `CompletedWorkKept`, `NoStrandedJob`, `PendingIsServed` |
| `queue` | 1 local and 1 online job; reorder, queue pause, retry | `LocalModelsExclusive`, `JobsSettle` |
| `dictation` | 1 local and 1 online job, 1 segment; dictation, resume | `GpuHandedOver`, `GpuAnnounced`, `ChecksInOrder`, `GpuYielded` |
| `mai` | 2 inputs, 2 attempts of a checkpoint and 3 after a retry, 2 faults | `SentAsRecorded`, `PaidOnce` (implements `PaidRequest`), `ConfirmedAsSeen`, `JobResolves` |
| `browser` | autosave, history of 2 windows and the job, events of a page | `DraftKept` (`TypedKept`, `SavedIsStored`); `RebasedOverCompared`; `HistoryKept` (`TimelineWhole`, `UndoLeadsBack`, `WordsSurvive`); `EventsFollowed` (`ActivityIsCurrent`, `NothingMissed`, `NothingPassedOver`); `PagesSettle` (`DraftSettles`, `EndIsShown`) |
| `dictation_sessions` | part one: 1 session, 2 connections, any 2 of 7 faults; part two: 2 sessions, 1 connection, 2 faults of the lease, the opening or the end | `SessionsCommit` (both parts), `CommandsReturn` (one), `RestsEmpty` (two: `LeaseReturned`, `StreamClosed`), `MicrophoneKept` (two: `HeardUnderLease`, `ListeningIsHeard`) |
| `dictation_text` | up to 8 units of two characters and silence; 2 engines, 2 sessions, 5 events | `TextKept` (`ChunksTile`, `DecodedWithin`, `PrefixOnce`, `SpokenOnce`), `WrittenToFocus` (`WrittenOnce`, `OnlyFocusShows`, `WrittenToOwner`), `ShownEnds` |
| `stages` | small inputs of every pure stage; two jobs through all handlers; an installation, imports, profiles, worker calls, environments | `HearingSound` (`AudioSound`, `StructureSound`, `RecognitionSound`), `ConsensusSound`, `WritingSound` (`FinalSound`, `ExportsSound`), `EvidenceKept` (`OnePrimary`, `AskedOnce`), `RegistriesSound` (`ActiveIsHealthy`, `OneJobEach`, `DoneIsSubmitted`, `BootstrapReachable`, `NoPhantomRun`), `WorkersSound` (`NativeAlone`, `IdsOwned`, `StreamWhole`, `NothingHalfMade`, `CancelledStaysOut`, `LiveEnvironmentStays`, `PublishedOnce`, `PinsEnd`) |
| `services` | lease server with 2 sessions, resident workers, the lane of 2 local and 1 online job, the GPU manager, its recovery | `HandoverKept` (implements `GpuHandover`), `ServersConsistent` (`SessionsCanExpire`, `CountedOnce`, `EndIsFinal`, `GpuNotIdle`, `DictationAsked`, `InTurn`, `NeverTheSame`), `LaneShared` (`GpuAlone`, `SessionsEnd`, `LoopServes`), `WorkersKept` (`SuspendedIsEmpty`, `ReadyIsLoaded`, `ActiveKeepsWorkers`, `StaleNotTaken`), `ServicesSettle` (`LeaseComesBack`, `LossIsNoticed`, `PreparationEnds`, `SuspensionEnds`, `DictationIsServed`) |

Three runs end in a counterexample to something a docstring or a document says; the
findings in `PROJECT.json` quote it.

| run | what happens |
|---|---|
| `user_pause` | dictation pauses a job, the user resumes it and pauses it again, dictation ends: the job is resumed |
| `saves_others` | an edit of another window between the commit of a save and its read-back is overwritten by the next save, with no conflict |
| `yield_is_no_failure` | a pause or a dictation that is noticed inside a model call is caught as the call's failure, and the fallback of a failed attempt is stored |

### Known to fail

These properties fail too. They are weaker, less likely, or variants of the three
above, and are kept so that a repair can be checked against them. Write a configuration
with the property and what the second column gives, without deadlock checks.

| property | module and instance | what happens |
|---|---|---|
| `TerminalIsFinal` | `MCPipelineUserPause.cfg` with `Controls = {"cancel"}` | a claim writes RUNNING over a cancel that was committed after its read |
| `PreemptedNotForgotten` | the same with `Controls = {"dictation"}` | dictation ends while a thread is about to commit its pause: the job stays paused |
| `OwnKept` | `MCSavesOthersKept.cfg` | a refetch answered late puts the old text under the new version; the next save drops the saved edit |
| `LeaseReturned` | `DictationService`, `FairSpec`, constants of `MCDictation.cfg` with two sessions, `Callers = {1}`, `MaxFaults = 1`, `Faults = {"stream"}` | a new session cancels the cleanup of a failed one; the old lease is renewed for ever |
| `HeardUnderLease`, `LeaseReturned`, `StreamClosed` | `DictationService`, `Spec`, the same with three sessions, `Faults = {"lost"}` | a watchdog or an arming task whose cleanup outlasts its session calls `controller.fail` without comparing the session (`daemon.py:248`, `438`): it fails the second, a third begins, and the second's arming task activates as the third, since `activate` compares only the state (`session.py:99-101`) |
| `ListeningIsHeard` | the same with one session, `Faults = {"overflow"}` | an overflow while the recognizer is busy: its late answer makes the controller listen with no session |
| `StreamClosed` | the same with one session, `Faults = {"final"}` | a failed final decode leaves the stream open, so the next session fails to open |
| `CommandsEnd` | the same with two sessions, `Faults = {"overflow"}` | an overflow whose cleanup outlasts the next arming cancels that session's consumer; a release then waits for the queue with the lock, and Esc waits for the lock |
| `CandidatesResolve` | the same with one session, `MaxFaults = 0` | a selection out of range stops the timer, and the candidates stay |
| `EscCommitsNothing` | the same, and `Callers = {1, 2}` | Esc during the final decode waits for the lock until the text is committed |
| `GpuUnloaded` | `ResidentWorkers`, `ResidentSpec`, `Routes = {"zh", "ja"}`, `DefaultRoute = "zh"`, `MaxRequests = 2`, one cancel, loss and start | a cancel during the unload skips `process.stop()` of a worker that is tracked no more (`resident.py:655-669`), against the docstring at 245 |
| `TailKept` | `MCDictationText`, `WritingSpec`, constants of `MCDictationText.cfg` | an accuracy confirmation without word times becomes one token that starts at the context, and the pending tail before the last chunk is lost, against `test_stage11_dictation.py:209` |
| `AmbiguousUnmarked` | `MCStages`, `Spec` | `str.count` does not see places that overlap, so an anchor that stands twice in the text (`aaaa` in `aaaaa`) gives it a mark (`punctuation.py:89`, against the docstring at 46) |
| `UnitsKept` | `MCStages`, `Spec` | a unit followed by a mark is no token of its own and may be parted from its number (`subtitles.py:68`, `docs/postprocessing-and-exports.md:79`) |
| `ReviewsReenter` | `MCStagesYield.cfg` | the review passes recompute their decisions from today's glossary while the route is frozen (`production.py:741-821`), and raise |
| `OldContractUnused` | `MCClassroom.cfg` | `_eligible_benchmark` of `resident.py:813` does not compare the scoring contract, so dictation keeps a ranking of an older one (`docs/benchmark.md:137`) |
| `PreviousKept` | `MCClassroom.cfg`, as a temporal property | two requests read one profile row; the list the first put in place is in no history (`docs/benchmark.md:99`) |
| `RegistryNamesNoRun` | `MCClassroom.cfg` with `MaxRequests = 9` | requests that overwrite each other leave the registry's list at the end of the history with the run of another list |
| `AllTold` | `MCBrowser.cfg` | after a restart a page keeps a number that the new process has reached: it is not reset, and the events up to it are never sent to it (`routes.py:223`); its snapshots show the status all the same |
| `InvalidatedNotTaken` | `MCServices.cfg`, as a temporal property | a refresh that comes while the files of the warm workers are compared, or while workers load, is not looked at before the dictation is active (`resident.py:294-314`, against the docstring at 155); they are stopped at its end |
| `LeaseReturnable` | `MCServices.cfg` | a wait that times out after its grant and before its task's turn leaves an owner nobody can release (`gpu.py:90-94`); nothing calls `acquire` in production |

### Also seen while modelling

Not stated as properties, or outside the bounds:

- Imports and installation: `.staging` leftovers are never removed; a corrupted single active
  revision can be neither installed again nor deleted; a row may stay HEALTHY after
  a late failure.
- Transcript: an undo whose text equals the present one makes no UPDATE, so no version
  is compared (`service.py:2208-2290`); a split carries no version and compares words
  only, so another window's change of a mark is overwritten; splitting or merging a
  segment with unfinished checkpoints leaves checkpoints whose handlers raise
  (`production.py:2002`), and a split of a completed job adds pending ones; an edit
  during a long handler costs the job an attempt.
- Pipeline: a storage error in a transaction of a checkpoint (begin, give back, failure) is published as a
  failed checkpoint and ends the run; job and row stay as they were, so a job may stay
  RUNNING with nobody at work until the next start (`pipeline.py:535-547`). So does a job whose
  pause was read before its end, written after it and resumed, and one that failed
  while it was paused: it has nothing to begin, also when the retry of a segment
  finds it there. A second storage error, in the handler of `execute_job`, is left out; it
  would end the dispatcher (`pipeline.py:609-617`, `661`).
- Language stage: an answer that is ok but cannot be used is journalled, so every retry of the
  stage reads it again and fails (`production.py:420-431`, `journal.py:58`).
- Structure: removing duplicates compares each segment with the ones kept so far, and a kept one may be replaced
  by its duplicate later. So of three segments that are alike in pairs only, two
  duplicates may stay, or one goes for a segment it is not like, words and all (`stitching.py:466-500`).
- Events: a late `job_paused` can clear
  the activity of the next run; a page that asked for a snapshot before a retry and
  got it after may show "failed" until its next focus.
- Environments: `rmtree` deletes the lock file as well, so a start of a version being
  deleted may pin a directory that goes away (`environment.py:42-66`).
- Dictation: `stable_prefix_seconds` below the hard chunk with its overlap makes `release`
  take a candidate whole although a prefix was committed (`session.py:150`); trailing
  pauses in accuracy mode and evenly spread times at a hard cut repeat or lose words
  (`ShownReplaced`, `LongSpeechKept` in `DictationText`).
- IBus: a session begun by the portal just before the focus moves, or begun across a daemon
  restart, is owned by no engine, and its text is dropped.
- Scheduling: the preemption flag outlives `end_dictation`, so an owner yields once for
  nothing; a lower precision may be a larger one for an int8 model.
- Profiles: the column of the run is written only if it changed, so two requests may
  leave the models of one run under the id of another; readers then use the registry's
  order. The application scores with `real_model_execution` false, so none of its own runs
  is ever eligible.
- Final text: leading spaces longer than half a line make `_wrap_text` return an empty
  line, which `models.py:118` refuses.

### Bounds, and why they suffice

Every bound is a constant of its module. One job is enough for the relation
of rows and executor, since jobs share no rows; two for exclusion and
preemption, where the general case is proved (section 5). Two or three
checkpoints give a first, a structure and a segment checkpoint. `MaxAttempts`
2 makes both a retryable and a final failure; `RetryBound` leaves one manual
retry. `MaxOrder` 3 lets a job be put at the end of the queue twice. One
crash or failed write is enough for a property about one interrupted step; `mai` has two,
so that recovery may fail as well. In `TranscriptSaves` two edits distinguish what
was saved from what was typed since. `SegmentHistory` has two windows with three requests and one
pass: an edit, its undo, and one that comes between. `JobEvents` keeps two
events and numbers to three, so that a page may fall out of the log, and has two runs and
one control, restart, lost connection or return to the window.

In `DictationService` one frame in the queue makes both an empty and a full queue; two
sessions are what a stale task of the first needs to harm the second; with three, a stale
task of the second can act as the third, and then two of its properties fail (section 3).
Where sessions begin only while the lock is free, all hold for three. Part one has one
session because `CommandsEnd` fails for two; part two leaves out the stream, final and
overflow faults because its properties fail with them, and has one connection because
two Escs in the same turns of the loop during a failed arm leave the lease as well.
`DictationText` cuts after 4 units with an overlap of 1, confirms after a pause of 2
and hears 8 units: two hard cuts, or a cut and a pause. `IBusEngine` has two engines, so that the focus can go away
and come back, and one request that is late.

`LeaseServer`: two sessions, one fault, stall and crash. `ResidentWorkers`: two routes, one cancel, loss and start. `ModelSessions`: two local jobs for a change of the retained session, three
runs, two calls, one failure. `GpuScheduler`: dictation, two classroom tasks of one
priority and one of a lower, five acquisitions, one timeout; the attempts are every
combination of two values of each parameter. `Profiles`: two runs, two requests at a
time and four in all, one restart as the same, a newer contract or a newer revision; this makes both an
overwritten update and a rollback of it. `WorkerCalls`: five calls, among
them one that is cancelled, retried and followed. `WorkerEnvironments`: two publishers and a worker,
three directories. `ModelInstall`: two revisions and threads, one failed check
and one crash. `BatchImports`: one item in two tabs with one lost answer and one stop,
because items share nothing but the quota. `ClassroomStages`: three models in one
instance, so that there is a primary, a second opinion and a review, with two edits; two
language windows with two lost answers in the other. The pure stages get all inputs
of a few spans or words (`MCStages`), chosen so that every branch is taken.

`CHECK_DEADLOCK FALSE` is set everywhere: jobs end, users stop typing, the
daemon waits for its user, and the bounds stop the rest.

## 4. Fairness, and why the code justifies it

- `ClassroomPipeline`: executor threads and callbacks make progress (WF). An
  operation makes finitely many model calls with deadlines, so its end is not
  put off for ever by gates it passes again (SF). The loop serves ready callbacks in order, so the
  dispatcher's turn is not overtaken for ever (SF). A request thread commits
  (WF). Nothing is assumed of users, of the end of dictation, or of crashes;
  `PendingIsServed` and `JobsSettle` therefore speak of behaviours that are
  left undisturbed at last.
- `MaiRequests`: WF of the thread's steps, the dispatch among them, since
  connect, read and cancel all have time limits.
- `TranscriptSaves`, `JobEvents`: WF of timers, of handling, and of answers; `api()` gives
  up a read after 30 seconds and a write after 30 minutes; the stream delivers what is in the log. Not
  of user decisions or restarts.
- `DictationService` (part one): SF for each task, because the loop is FIFO, the lock is
  FIFO and every request to core and workers has a deadline. Not of users or
  frames.
- `IBusEngine`: WF of the poll, a 75 ms timer of the engine with the focus.
- `LeaseServer`: WF of `Progress`: some task of the server, due retry or expiry goes
  on. Which one is left open, and nothing is assumed of users. `ResidentWorkers`: WF of `Work`, some
  task of the loop, whose calls have deadlines. `ModelSessions`: WF of `Gives(j)`, the steps of each
  job's thread and tasks that lead to its GPU being free.
- The other modules have safety properties only and no fairness.

## 5. What is proved

No theorem uses fairness. Each holds for every value of the constants that satisfies the
named assumptions of the modules, which TLC evaluates in the runs, and in one case a
hypothesis on `Controls`. Those of the pure stages speak of an operator and hold for all of its inputs.

| module | theorem | states | hypothesis |
|---|---|---|---|
| `ClassroomPipelineProofs` | `TypeCorrect`, `ModelsExclusive` | `TypeOK`, `LocalModelsExclusive` | - |
| | `DictationOwnsTheGpu`, `BusyIsAnnounced` | `GpuHandedOver`, `GpuAnnounced` | - |
| | `RowsAreOwned`, `AttemptsBounded` | `CheckpointOwnership`, `AttemptsWithinLimit` | - |
| | `CompletedIsDone`, `FinishedWorkKept` | `CompletedMeansDone`, `CompletedWorkKept` | - |
| | `BeginsInOrder` | `ChecksInOrder` | no segment retry |
| | `NoneStranded` | `NoStrandedJob` | - |
| `DeliveryProofs` | `RecordedAsSent`, `PaidAsSeen` | `SentAsRecorded`, `ConfirmedAsSeen` | - |
| | `KeepsPromise` | `PaidOnce`: `MaiRequests` implements `PaidRequest` | - |
| | `WrittenToOwners` | `WrittenToFocus` | - |
| | `ChunksFollow` | `ChunksTile`, its part of `TextKept` | - |
| `BrowserProofs` | `NothingTypedIsLost`, `DraftsKeptBesideOthers` | `TypedKept`, `SavedIsStored`; `DraftKept` | - |
| | `ReplacesWhatWasCompared` | `RebasedOverCompared` | - |
| | `EventsAreFollowed` | `EventsFollowed` | - |
| `DictationServiceProofs` | `DaemonTypeCorrect`, `SessionsCommitOnce` | `TypeOK`, `SessionsCommit` | - |
| `ServicesProofs` | `SessionsAccounted` | its part of `ServersConsistent` | - |
| | `KeepsHandover` | `HandoverKept`: `LeaseServer` implements `GpuHandover` | - |
| | `GpuNeverShared` | `LaneShared` | - |
| | `WorkersStay` | `WorkersKept` | - |
| | `LeasesInTurn`, `NoAttemptTwice` | `GpuNotIdle`, `DictationAsked`, `InTurn`; `NeverTheSame` | - |
| | `ServersAgree` | `ServersConsistent` | - |
| `ClassroomProofs` | `EvidenceHolds` | `EvidenceKept` | - |
| | `RegistriesHold` | `RegistriesSound` | - |
| | `WorkersHold` | `WorkersSound` | - |
| `JobPartsProofs` | `WindowsAreTheRecording`, `EverySampleHeard` | what `StructureWindows` and `LidWindows` cover | the guards of the code |
| | `CutsAdvance` | where `NextCut` ends a chunk | a positive minimum |
| | `JoinLosesNothing` | what `Joined` keeps of an overlap | - |
| | `MarksBetweenNeighbours` | where `Punctuated` puts a mark | - |
| | `EveryCharacterTimed` | what `SharedOut` gives each character | `CanShareOut` |

The assumptions of the constants say no more than the code or the modelling gives:
bounds are numbers; the log keeps at least one event (`EventsAssumption`; `pipeline.py`
has 512); there are finitely many sessions, because `len(self._sessions)` counts them
(`LeaseAssumption`); no job is called "none", the mark for no job (`JobsAssumption`); the
default route is a route (`ResidentAssumption`); priorities are numbers, "nobody" and
"lost" are no tasks, and the least window is positive (`ManagerAssumption`). "free" is no thread and "none" no revision
(`InstallAssumption`), "gone" is no tab and "none" no item (`ImportsAssumption`), 0 is no
benchmark (`ProfilesAssumption`), 0 is no slot of a call and "none" no id, and a chunk of speech
is positive (`CallsAssumption`), "nobody" is no publisher and there is room for a directory
(`EnvironmentsAssumption`), the bounds of a job are numbers (`StagesAssumption`), "nobody" is no
engine (`EnginesAssumption`), and the hard limit of a chunk is positive and not below its overlap
(`TextAssumption`; `streaming.py:52` takes 20 to 30 and 1.5 to 2.5 seconds).

The hypothesis of `BeginsInOrder` leaves out the retry of one segment
because that sends an earlier row back to pending while later ones stay
completed; `ChecksInOrder` is checked with the other controls by `dictation`.

*The handover* (`ClassroomPipelineProofs`). `GpuHandedOver` is not inductive: the step that
grants the GPU relies on the busy event (`GpuAnnounced`). Nor is that: the step that
clears the event relies on nobody else being at the gate, which is
`LocalModelsExclusive`, since online jobs never go there. The three with
`TypeOK` are inductive (`HandoverStep`, one step per action). That the launch keeps
exclusion is `LaunchExclusive`; that no other step adds an executor is
`FewerRunning` with a cardinality argument.

*The rows of a job* (`ClassroomPipelineProofs`). A start of the service skips the rows of a
cancelled job, so a row may stay RUNNING without a thread: then nobody may be about to
write that job's status (`RunningRows`, `Left`). A write of a checkpoint that fails leaves one
as well, and the job is `lost` until the next start. It skips failed and completed jobs too:
these have no thread at work (`EndedRests`) and no row left. A thread begins the row it
chose in an earlier transaction (`CheckpointChosen`), and what it has still to write
never ends a job (`PendingWrite`). With `RowWithin` for the attempts these are
inductive. The order of checkpoints adds an invariant.

*Stranded jobs* (`ClassroomPipelineProofs`). Only an executor writes RUNNING, so a job at rest
that is RUNNING was left by its last executor as that one saw it. `RunInv` says for each place of an
executor what it has still to write and what it leaves (`FailsRunning`, `ChosenIsLeft`, `StopsForGood`): a
write that ends the job or gives it back, a row that failed under a pause, or no row. The controls, however they interleave, write
no RUNNING, and a segment is retried only of a job that nobody executes.

*The paid request* (`DeliveryProofs`). The refinement maps `phase` to authorized, sent or
saved according to the latest attempt, the sends and the response file. A step of
`MaiRequests` is a step of `PaidRequest` only in states where, at each place of the thread,
the attempt's status, the sends and the file agree. That is `MInv`: `PTypes`, `Evidence`
(sends and responses belong to attempts), `Places` (what holds at each point of the thread)
and `Recorded` (the fingerprints). `UploadSends`, `ResponseSaves` and
`RetryAuthorizes` are the three steps that show; `OthersStutter` is the rest.

*The text and its window* (`DeliveryProofs`). What makes `WrittenToFocus` true is what an engine
that follows the daemon's events has in common with them (`Follows`, `Heeds`): it has the
focus, it has heard all that is written of this instance of the daemon, and it has kept the focus since
each session it has not heard of was armed. The last needs that nobody else's focus comes
between: the focus leaves only an engine that no request is under way for, and then it
follows nothing (`Quiet`). New events come at the end (`Grown`), so what is heard next was armed
under the focus (`ArmedUnder`, `OwnedIsHeld`). `TextsAre` says what an engine
commits of them: `Ascends` shows by a least counterexample that they can be put in order.
The chunks: the open one is shorter than the limit, and what is kept for the next stream is
the overlap or begins before the chunk (`ChunksInv`).

*The drafts* (`BrowserProofs`). Each place a text passes through keeps it (`DraftIn`,
`PatchIn`), and a version names one text: what was read with a version is the text of the
service or the version is old (`ReadWith`), so that a save over it is refused.

*The events* (`BrowserProofs`). The numbers a page has seen and those on their way to it
are one path, in which one number follows the other or all between them have left the
log (`PathIn`, `Follow`), and the path ends at the cursor of the stream. An event in the
log the page waits for is told, on the wire, behind the cursor, or of the numbers a new
process of the service skipped (`PathKept`, `ToldKept`, `ToldSame`). The activity
shown is of the owner, and the owner is the run under way or nobody (`RunIn`).

*The sessions of dictation* (`DictationServiceProofs`). The tasks that may commit a session
run once each (`Fresh`); the session under way has neither been committed nor ended
(`Committing`); a task in the queue of the lock is at no other place (`InLock`), so that a
cancelled task leaves the queue once.

*The lease server* (`ServicesProofs`). The holder of the lock is the only task that has
asked the core for something, so its place says what the core does (`LockHeld`,
`CoreAsHolder`); a session joins once (`JoinsOnce`). Then every step of the server
is a step of `GpuHandover` or none.

*The lane* (`ServicesProofs`). The busy event covers whoever is past the first step under
the lock, and dictation takes the GPU while it is clear (`LaneIn`). A process belongs to a
job that has not ended its release (`OwnedBy`), and whoever is past the queue is its head and
belongs to the loop there is (`TaskIn`).

*The resident workers* (`ServicesProofs`). `WorkersKept` speaks of flags; what makes it true is
who can hold the lock. A worker is half stopped or loading only in the hands of the
holder (`LockIn`), and while a dictation is active the holder is its end or its hot
switch (`ActiveIn`), which `OnlyTheSwitch` uses for the action property. A classroom thread is
let at the GPU outside a dictation, and until it leaves none can begin, so no
preparation is there that could load (`ServerIn`, `ClassroomIn`). Files may change at
any step; whoever takes workers has compared their files or loads them, and what changes
behind that comparison is `unseen` until the next preparation compares them.

*The lease manager and the recovery* (`ServicesProofs`). A dispatch gives the lease to the
first of the most urgent that may have it (`Dispatched`); that there is one needs that
priorities and places are numbers (`FirstExists`, `MostUrgent`). `DispatchKeeps` says what a
dispatch leaves, whatever queue it is called with, and each method shows the queue
it calls it with to be one (`QueuedWithout`, `QueuedMore`). An attempt of the recovery chain differs
from each before it in something a step has changed and no later step changes back
(`Differs`, `NextDiffers`).

*The handlers* (`JobPartsProofs`, `ClassroomProofs`). A review finds a primary candidate because
the checkpoints of a segment that are completed come before those that are not
(`Proceeds`), also when the user sends one back, and everything past the consensus has a primary
candidate. A window is asked for of one revision as often as answers were lost, and once more when it has its
answer (`AnswersCount`); a new revision has no answers yet.

*The registries* (`JobPartsProofs`). An installation knows at each of its places what
is on the disk of its revision (`KnowsRevision`), since nobody else is past its lock. What a request
of the browser brings about belongs to the item it was made for, also when nobody
waits for it any more (`Serves`, `RowsInv`), and what a list says is done has its job
(`ListsInv`). The oldest list of a profile is that of the registry (`Grounded`), and so is that of the
row a request has read (`Reads`), because it is what the request writes back.

*The workers* (`WorkersProofs`). Whoever runs a native call is at the head of the queue
(`RunsAtHead`), and only the head starts one; a call that is under way in the stream accounts for the
frames by which what was heard and what was taken differ (`StreamKnown`). A directory is changed by the
publisher that has its exclusive lock (`LockedByPublisher`, `PublisherKnows`), nobody
pins what is locked, and a process has pinned the directory it runs from
(`WorkerKnows`).

*The pure stages* (`JobPartsProofs`). These operators have no recursion; what they
need is arithmetic (`Divides`, `TimesGrows`, `TimesLess`) and that a choice by a measure exists
(`SmallestBy`, `GreatestNumber`). The hypotheses are the `ValueError`s of `segmentation.py:131-138` and `lid.py:56-59`;
for `CutsAdvance` the minimum is positive, which the code does not check and its default of 8 seconds
satisfies. A short last window starts behind the one before because that one is longer
than the overlap; the runs check the same of `Cores`, which folds over the cuts.

*The run as a whole* (`ServicesProofs`, `ClassroomProofs`). `EachForItself`: in `MCServices` every part behaves as
its module specifies, so that its theorems carry over (`ServersAgree`); `StepOfPart`
says the same of `MCClassroom`.

Only model-checked: everything under fairness (liveness and `ENABLED` are out of
the proof system's reach); `HistoryKept`, which folds over decision events of any length, and
`HearingSound`, `ConsensusSound` and `WritingSound` but for the operators above, since what a recursive
definition or a fold computes for every input could not be proved here (induction theorems take operators as
parameters); of `TextKept` all but `ChunksTile`, which compares texts that `SortSeq` and `FoldLeft`
build; `RestsEmpty` and `MicrophoneKept`, which fail in larger instances than that of the run (section 3),
so that no theorem for every value of the constants can state them.

## 6. What is not modelled, and the plan

Left out inside modelled parts:

- `ClassroomPipeline`: deletion of job data, numbers of the progress snapshot,
  `forget`. `MaiRequests`: re-import of a stored response.
- `TranscriptSaves`: a page's undo, the clearing of settings. `SegmentHistory`: speakers, languages, bookmarks.
- `DictationService`: the accuracy hot switch, `configure`, the daemon's `close`, a failing
  `vad.close` or `recognizer.cancel`, and windows of one turn of the loop such as
  `await watchdog` in `_release_lease`. `DictationText`: audio capture, choice of language and routing tables.
- `GpuScheduler`: residency planning, NVML sampling, what a lease says of the resident
  model, sequential candidates. `ResidentWorkers`: calls and statistics of one recognizer.
- `WorkerCalls`: framing, message validation, sandbox. `WorkerEnvironments`: `LiveEnvironmentStays`
  excepts a worker that pinned a directory while a cleanup deleted it (`late`). `ModelInstall`: branches that the lock makes unreachable
  (`manager.py:632-639`); a download succeeds or fails. `BatchImports`: the reconciliation of deleted recordings.
- `Profiles`: metrics, scoring, resampling, languages other than one (rows of different
  languages share nothing). `ClassroomStages`: the values the handlers compute, which are those of the pure stages.
- Pure stages: signal level features, similarity scores, embeddings and proposals of models are
  inputs; rendering of documents is layout.

Not modelled: dictation records and the glossary API (single transactions that nothing
interacts with), security, configuration, diagnostics and command line (validation
and reports without shared state), the model manifest tool, scripts,
packaging and release data (build time and static data), ffmpeg and HTTP (I/O).

Plan for what is left, in order:

1. the parts of `MicrophoneKept` and `RestsEmpty` that hold of every number of sessions, as
   invariants of `DictationService` and then as theorems.
2. the rest of the operators without recursion: the switch points of the languages, the columns' spans.
3. deletion of recordings and jobs against running requests; the accuracy hot switch of the daemon.
4. residency planning as a pure operator.
