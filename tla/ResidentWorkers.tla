-------------------------- MODULE ResidentWorkers --------------------------
(***************************************************************************)
(* The supervisor of the dictation workers (models/resident.py).  Its tasks *)
(* share one lock and are cancelled by one another without it.  A step runs *)
(* a task to its next await.  The lease server calls on_prepare and on_end  *)
(* in the order of GpuHandover; a classroom thread and the environment      *)
(* repair ask for the workers to be stopped.                                *)
(***************************************************************************)
EXTENDS Naturals, FiniteSets

CONSTANTS Routes, DefaultRoute,
          MaxCancels,   \* cancellations of a preparation or an end by the lease server
          MaxLosses,    \* failed loads, dead workers, callers whose 180 seconds are over
          MaxStarts,    \* dictations
          MaxRequests   \* requests of users and installations

ASSUME ResidentAssumption ==
    /\ DefaultRoute \in Routes
    /\ MaxCancels \in Nat /\ MaxLosses \in Nat /\ MaxStarts \in Nat /\ MaxRequests \in Nat

None == "none"
Suspenders == {"suspend", "repair"}
Stoppers == Suspenders \cup {"release"}
Loaders == {"prewarm", "prepare"}
Tasks == {"refresh", "idle", "end", "accuracy"} \cup Stoppers \cup Loaders
Background == {"refresh", "prewarm"}
Workers == {"vad", "asr", "accurate"}

VARIABLES
    at,           \* where each task is: "off", "awaits" the background task, ...
    lock,         \* the task that holds _lock
    tracked,      \* _processes
    popped,       \* the process taken out of _processes and not stopped yet
    orphans,      \* running processes nobody knows of
    dead,         \* tracked processes that have exited
    ready,        \* _current_manifest.ready
    route,        \* _loaded_route
    wanted,       \* the route of the preparation under way
    active, arming, invalidated,
    stale,        \* files changed since the loaded workers were verified
    unseen,       \* they did so behind the check of the last preparation
    lease,        \* what the lease server is at
    classroom,    \* what the executor thread is at
    quota         \* the bounds

residentVars == <<at, lock, tracked, popped, orphans, dead, ready, route, wanted, active,
                  arming, invalidated, stale, unseen, lease, classroom, quota>>
processVars == <<tracked, popped, orphans, dead>>
flagVars == <<active, arming, invalidated, stale, unseen>>
manifestVars == <<ready, route, wanted>>
outerVars == <<lease, classroom>>

ResidentTypeOK ==
    /\ at \in [Tasks -> {"off", "awaits", "sleeping", "locking", "reusing", "unchanged",
                         "stopping", "loading", "unwinding"}]
    /\ lock \in Tasks \cup {None}
    /\ {tracked, orphans, dead} \subseteq SUBSET Workers /\ popped \in Workers \cup {None}
    /\ route \in Routes \cup {None} /\ wanted \in Routes
    /\ {ready, active, arming, invalidated, stale, unseen} \subseteq BOOLEAN
    /\ lease \in {"off", "preparing", "active", "ending"}
    /\ classroom \in {"off", "running", "suspending", "using"}
    /\ quota \in [cancels : 0..MaxCancels, faults : 0..MaxLosses, starts : 0..MaxStarts,
                 requests : 0..MaxRequests]

ResidentInit ==
    /\ at = [t \in Tasks |-> "off"] /\ lock = None
    /\ tracked = {} /\ popped = None /\ orphans = {} /\ dead = {}
    /\ ready = FALSE /\ route = None /\ wanted = DefaultRoute
    /\ active = FALSE /\ arming = FALSE /\ invalidated = FALSE
    /\ stale = FALSE /\ unseen = FALSE
    /\ lease = "off" /\ classroom = "off"
    /\ quota = [cancels |-> MaxCancels, faults |-> MaxLosses, starts |-> MaxStarts,
               requests |-> MaxRequests]

Charged(b) == quota[b] > 0 /\ quota' = [quota EXCEPT ![b] = @ - 1]
To(t, place) == at' = [at EXCEPT ![t] = place]
BackgroundDone == \A t \in Background : at[t] = "off"
CanPrewarm == ~active /\ ~arming /\ classroom = "off"

(***************************************************************************)
(* Cancellation                                                             *)
(***************************************************************************)

\* asyncio cancels a task at its await.  _start_locked stops what it has
\* loaded first; every other place gives up at once, _stop_locked too, which
\* has already taken the process it is stopping out of _processes.
Halfway(t) == at[t] \in {"stopping", "unwinding"}
PlaceAfterCancel(t) == IF at[t] = "loading" THEN "unwinding" ELSE "off"
\* The effect on everything but `at'; ts are tasks of which one holds the lock at most.
CancelEffect(ts) ==
    LET h == {t \in ts : lock = t}
    IN  /\ lock' = IF h # {} /\ at[lock] # "loading" THEN None ELSE lock
        /\ popped' = IF h # {} /\ Halfway(lock) THEN None ELSE popped
        /\ IF h # {} /\ Halfway(lock) /\ popped # None
             THEN orphans' \in {orphans, orphans \cup ({popped} \ dead)} ELSE UNCHANGED orphans
        /\ IF h # {} /\ at[lock] = "loading"
             THEN tracked' \in SUBSET {"vad", "asr"} ELSE UNCHANGED tracked
        /\ UNCHANGED dead
AfterCancel(ts) == [t \in Tasks |-> IF t \in ts THEN PlaceAfterCancel(t) ELSE at[t]]

(***************************************************************************)
(* Stopping and loading with the lock                                       *)
(***************************************************************************)

Pop(t) ==
    /\ lock = t /\ Halfway(t) /\ popped = None
    /\ \E p \in tracked : tracked' = tracked \ {p} /\ popped' = p
    /\ route' = None
    /\ UNCHANGED <<at, lock, orphans, dead, ready, wanted, flagVars, outerVars, quota>>

PoppedStops ==
    /\ popped # None
    /\ popped' = None /\ dead' = dead \ {popped}
    /\ UNCHANGED <<at, lock, tracked, orphans, manifestVars, flagVars, outerVars, quota>>

StoppedAll(t) == lock = t /\ Halfway(t) /\ popped = None /\ tracked = {}

\* _prepare_locked after _stop_locked: an empty manifest, then the load.
LoadStarts(t) ==
    /\ t \in Loaders /\ StoppedAll(t) /\ at[t] = "stopping"
    /\ To(t, "loading")
    /\ ready' = FALSE /\ route' = None
    /\ invalidated' = FALSE /\ stale' = FALSE /\ unseen' = FALSE
    /\ UNCHANGED <<lock, processVars, wanted, active, arming, outerVars, quota>>

\* prewarm schedules the idle release; resume_for_dictation becomes active.
LoaderReturns(t, ok) ==
    /\ at' = IF t = "prewarm" THEN [at EXCEPT ![t] = "off", !["idle"] = "sleeping"]
                              ELSE [at EXCEPT ![t] = "off"]
    /\ lock' = None
    /\ active' = IF t = "prepare" THEN ok ELSE active
    /\ arming' = IF t = "prepare" THEN FALSE ELSE arming
    /\ lease' = IF t # "prepare" THEN lease ELSE IF ok THEN "active" ELSE "ending"

Loaded(t) ==
    /\ t \in Loaders /\ lock = t /\ at[t] = "loading"
    /\ LoaderReturns(t, TRUE)
    /\ tracked' = {"vad", "asr"} /\ ready' = TRUE
    /\ route' = wanted
    /\ UNCHANGED <<popped, orphans, dead, wanted, invalidated, stale, unseen, classroom, quota>>

LoadFails(t) ==
    /\ t \in Loaders /\ lock = t /\ at[t] = "loading"
    /\ Charged("faults")
    /\ tracked' \in SUBSET {"vad", "asr"} /\ To(t, "unwinding")
    /\ UNCHANGED <<lock, popped, orphans, dead, manifestVars, flagVars, outerVars>>

Unwound(t) ==
    /\ t \in Loaders /\ StoppedAll(t) /\ at[t] = "unwinding"
    /\ LoaderReturns(t, FALSE)
    /\ ready' = FALSE /\ route' = None
    /\ UNCHANGED <<processVars, wanted, invalidated, stale, unseen, classroom, quota>>

\* The warm workers are of the same route and alive, and nobody asked for a refresh;
\* a thread then compares their files, behind an await.
Warm(r) == route = r /\ ~invalidated /\ ready /\ dead \cap tracked = {}
PrepareLocked(t, r) ==
    /\ lock' = t /\ wanted' = r /\ unseen' = FALSE
    /\ To(t, IF Warm(r) THEN "reusing" ELSE "stopping")
    /\ route' = IF Warm(r) THEN route ELSE None
    /\ UNCHANGED <<processVars, ready, active, arming, invalidated, stale, outerVars, quota>>

FilesCompared(t) ==
    /\ t \in Loaders /\ lock = t /\ at[t] = "reusing"
    /\ To(t, IF stale THEN "stopping" ELSE "unchanged")
    /\ route' = IF stale THEN None ELSE route
    /\ UNCHANGED <<lock, processVars, ready, wanted, flagVars, outerVars, quota>>
Reused(t) ==
    /\ t \in Loaders /\ lock = t /\ at[t] = "unchanged"
    /\ LoaderReturns(t, TRUE)
    /\ UNCHANGED <<processVars, manifestVars, invalidated, stale, unseen, classroom, quota>>

\* An installation, a deletion or a rollback moves the files of a loaded model, in a
\* thread of the API; a load may have verified them already or not.
FilesChange ==
    /\ Charged("requests")
    /\ \/ route # None /\ stale' = TRUE
       \/ \E t \in Loaders : at[t] = "loading" /\ stale' = TRUE
    /\ unseen' = (unseen \/ \E t \in Loaders : at[t] \in {"unchanged", "loading"})
    /\ UNCHANGED <<at, lock, processVars, manifestVars, active, arming, invalidated, outerVars>>

(***************************************************************************)
(* The tasks                                                                *)
(***************************************************************************)

\* After an installation, and after a change of a profile, which moves no files.
RequestRefresh ==
    /\ Charged("requests")
    /\ invalidated' = TRUE
    /\ IF ~active /\ BackgroundDone THEN To("refresh", "locking") ELSE UNCHANGED at
    /\ UNCHANGED <<lock, processVars, manifestVars, active, arming, stale, unseen, outerVars>>

RefreshLocked ==
    /\ at["refresh"] = "locking" /\ lock = None
    /\ IF active
         THEN To("refresh", "off") /\ invalidated' = TRUE /\ UNCHANGED <<lock, route>>
         ELSE /\ lock' = "refresh" /\ route' = None
              /\ at' = [at EXCEPT !["refresh"] = "stopping", !["idle"] = "off"]
              /\ UNCHANGED invalidated
    /\ UNCHANGED <<processVars, ready, wanted, active, arming, stale, unseen, outerVars, quota>>

\* A live background task is waited for, or cancelled when it is not loading.
RequestPrewarm ==
    /\ Charged("requests") /\ CanPrewarm
    /\ at["prewarm"] = "off"
    /\ at' = [AfterCancel({"refresh"} \ {t \in {"refresh"} : at[t] = "off"})
                EXCEPT !["prewarm"] = "locking"]
    /\ CancelEffect({"refresh"})
    /\ UNCHANGED <<manifestVars, flagVars, outerVars>>

PrewarmLocked ==
    /\ at["prewarm"] = "locking" /\ lock = None
    /\ IF CanPrewarm THEN PrepareLocked("prewarm", DefaultRoute)
       ELSE To("prewarm", "off") /\ UNCHANGED <<lock, processVars, manifestVars, flagVars, outerVars, quota>>

IdleElapses ==
    /\ at["idle"] = "sleeping" /\ To("idle", "locking")
    /\ UNCHANGED <<lock, processVars, manifestVars, flagVars, outerVars, quota>>
IdleLockedAnyway ==
    /\ at["idle"] = "locking" /\ lock = None
    /\ To("idle", "stopping") /\ lock' = "idle" /\ route' = None
    /\ UNCHANGED <<processVars, ready, wanted, flagVars, outerVars, quota>>
IdleLocked ==
    /\ at["idle"] = "locking" /\ lock = None
    /\ IF active THEN To("idle", "off") /\ UNCHANGED <<lock, route>>
       ELSE To("idle", "stopping") /\ lock' = "idle" /\ route' = None
    /\ UNCHANGED <<processVars, ready, wanted, flagVars, outerVars, quota>>

\* suspend_for_classroom and release_idle: cancel the background task, wait
\* for it, cancel the idle release, take the lock.
StopRequested(t) ==
    /\ at[t] = "off"
    /\ at' = [AfterCancel({b \in Background : at[b] # "off"}) EXCEPT ![t] = "awaits"]
    /\ CancelEffect(Background)
SuspendForClassroom ==
    /\ classroom = "running" /\ lease = "off"
    /\ StopRequested("suspend") /\ classroom' = "suspending"
    /\ UNCHANGED <<manifestVars, flagVars, lease, quota>>
Repair ==
    /\ Charged("requests") /\ classroom = "off"
    /\ StopRequested("repair") /\ UNCHANGED <<manifestVars, flagVars, outerVars>>
ReleaseIdle ==
    /\ Charged("requests") /\ ~active /\ ~arming
    /\ StopRequested("release") /\ UNCHANGED <<manifestVars, flagVars, outerVars>>

BackgroundAwaited(t) ==
    /\ t \in Stoppers /\ at[t] = "awaits" /\ BackgroundDone
    /\ at' = [at EXCEPT ![t] = "locking", !["idle"] = "off"]
    /\ CancelEffect({"idle"})
    /\ UNCHANGED <<manifestVars, flagVars, outerVars, quota>>

\* The executor's 180 seconds are over; the coroutine goes on.
CallerTimesOut ==
    /\ classroom = "suspending" /\ at["suspend"] # "off"
    /\ Charged("faults") /\ classroom' = "running"
    /\ UNCHANGED <<at, lock, processVars, manifestVars, flagVars, lease>>

StopperLocked(t) ==
    /\ t \in Stoppers /\ at[t] = "locking" /\ lock = None
    /\ IF active \/ (t = "release" /\ arming)
         THEN /\ To(t, "off") /\ UNCHANGED <<lock, route>>
              /\ classroom' = IF t = "suspend" /\ classroom = "suspending" THEN "running" ELSE classroom
         ELSE To(t, "stopping") /\ lock' = t /\ route' = None /\ UNCHANGED classroom
    /\ UNCHANGED <<processVars, ready, wanted, flagVars, lease, quota>>

\* The last line of refresh, idle release, end, suspension and release.
Emptied(t) ==
    /\ t \in Stoppers \cup {"refresh", "idle", "end"} /\ StoppedAll(t)
    /\ To(t, "off") /\ lock' = None
    /\ ready' = FALSE /\ route' = None
    /\ lease' = IF t = "end" THEN "off" ELSE lease
    /\ classroom' = IF t = "suspend" /\ classroom = "suspending" THEN "using" ELSE classroom
    /\ UNCHANGED <<processVars, wanted, flagVars, quota>>

(***************************************************************************)
(* Dictation, as the lease server drives it                                 *)
(***************************************************************************)

\* resume_for_dictation, once the handover says that no executor is at the GPU.
Prepare(r) ==
    /\ Charged("starts") /\ lease = "off" /\ classroom \notin {"suspending", "using"}
    /\ ~active /\ ~arming
    /\ arming' = TRUE /\ lease' = "preparing" /\ wanted' = r
    /\ at' = [at EXCEPT !["prepare"] = "locking", !["idle"] = "off"]
    /\ CancelEffect({"idle"})
    /\ UNCHANGED <<ready, route, active, invalidated, stale, unseen, classroom>>
ResumeLocked ==
    /\ at["prepare"] = "locking" /\ lock = None
    /\ PrepareLocked("prepare", wanted)

\* The lease server cancels on_prepare, once or again.
CancelPrepare ==
    /\ Charged("cancels") /\ at["prepare"] # "off"
    /\ at' = AfterCancel({"prepare"}) /\ CancelEffect({"prepare"})
    /\ IF at'["prepare"] = "off"
         THEN arming' = FALSE /\ active' = FALSE /\ lease' = "ending"
         ELSE UNCHANGED <<arming, active, lease>>
    /\ UNCHANGED <<manifestVars, invalidated, stale, unseen, classroom>>

Finish ==
    /\ lease \in {"active", "ending"} /\ at["end"] = "off"
    /\ lease' = "ending" /\ To("end", "locking")
    /\ UNCHANGED <<lock, processVars, manifestVars, flagVars, classroom, quota>>
FinishLocked ==
    /\ at["end"] = "locking" /\ lock = None
    /\ active' = FALSE
    /\ IF invalidated \/ route = None
         THEN /\ lock' = "end" /\ To("end", "stopping")
              /\ route' = None /\ UNCHANGED lease
         ELSE /\ at' = [at EXCEPT !["end"] = "off", !["idle"] = "sleeping"]
              /\ lease' = "off" /\ UNCHANGED <<lock, route>>
    /\ UNCHANGED <<processVars, ready, wanted, arming, invalidated, stale, unseen,
                   classroom, quota>>
CancelEnd ==
    /\ Charged("cancels") /\ at["end"] # "off"
    /\ at' = AfterCancel({"end"}) /\ CancelEffect({"end"})
    /\ UNCHANGED <<manifestVars, flagVars, outerVars>>

\* The hot switch to the accurate final decoder, in a handler nobody cancels.
AccuracyLocked ==
    /\ Charged("requests") /\ lock = None /\ active /\ lease = "active" /\ ready
    /\ at["accuracy"] = "off" /\ "accurate" \notin tracked
    /\ lock' = "accuracy" /\ To("accuracy", "loading")
    /\ route' = None /\ tracked' = tracked \ {"asr"} /\ dead' = dead \ {"asr"}
    /\ UNCHANGED <<popped, orphans, ready, wanted, flagVars, outerVars>>
AccuracyLoaded(ok) ==
    /\ at["accuracy"] = "loading"
    /\ IF ok THEN tracked' = tracked \cup {"accurate"} /\ UNCHANGED quota
             ELSE Charged("faults") /\ UNCHANGED tracked
    /\ To("accuracy", "off") /\ lock' = None
    /\ UNCHANGED <<popped, orphans, dead, manifestVars, flagVars, outerVars>>

(***************************************************************************)
(* The classroom                                                            *)
(***************************************************************************)

JobRuns == /\ classroom = "off" /\ Charged("requests") /\ classroom' = "running"
           /\ UNCHANGED <<at, lock, processVars, manifestVars, flagVars, lease>>
JobEnds == /\ classroom \in {"running", "using"} /\ classroom' = "off"
           /\ UNCHANGED <<at, lock, processVars, manifestVars, flagVars, lease, quota>>
WorkerDies ==
    /\ Charged("faults")
    /\ \E p \in tracked : dead' = dead \cup {p}
    /\ UNCHANGED <<at, lock, tracked, popped, orphans, manifestVars, flagVars, outerVars>>

Work ==
    \/ PoppedStops \/ RefreshLocked \/ PrewarmLocked \/ IdleElapses \/ IdleLocked
    \/ ResumeLocked \/ FinishLocked \/ AccuracyLoaded(TRUE)
    \/ (lease = "ending" /\ Finish)
    \/ \E t \in Tasks : Pop(t) \/ LoadStarts(t) \/ Loaded(t) \/ Unwound(t) \/ FilesCompared(t)
                        \/ Reused(t) \/ BackgroundAwaited(t) \/ StopperLocked(t) \/ Emptied(t)
ResidentNext ==
    \/ Work
    \/ RequestRefresh \/ RequestPrewarm \/ SuspendForClassroom \/ Repair \/ ReleaseIdle \/ CallerTimesOut
    \/ CancelPrepare \/ Finish \/ CancelEnd \/ AccuracyLocked \/ AccuracyLoaded(FALSE)
    \/ JobRuns \/ JobEnds \/ WorkerDies \/ FilesChange
    \/ \E r \in Routes : Prepare(r)
    \/ \E t \in Loaders : LoadFails(t)

ResidentSpec == ResidentInit /\ [][ResidentNext]_residentVars
\* A task that can go on, and an end the lease server owes, do.
ResidentFairSpec == ResidentSpec /\ WF_residentVars(Work)

(***************************************************************************)
(* Properties                                                               *)
(***************************************************************************)

\* When suspend_for_classroom_sync returns to the executor, no task of the
\* supervisor has or loads a worker, and none gets one as long as the executor
\* is at the GPU (resident.py:229-257).
SuspendedIsEmpty ==
    classroom = "using" => tracked = {} /\ popped = None

\* The docstring of suspend_for_classroom says more: "Unload resident GPU
\* state before a classroom model is allowed to start" (resident.py:250).
GpuUnloaded == classroom = "using" => orphans = {}

\* While a dictation is active, no idle release, refresh, suspension or
\* release takes its workers away (resident.py:203-257, 385-390).
ActiveKeepsWorkers ==
    [][active /\ at["end"] = "off" => at["accuracy"] # "off" \/ tracked' = tracked
        \/ AccuracyLocked]_residentVars

\* A dictation is given workers whose files changed only where they changed behind the
\* check of its own preparation, the comparison of those that are warm or the
\* verification of those it loads (resident.py:294-314, 492-514): not those of an
\* earlier change, whether its refresh was asked for yet or not.
StaleNotTaken ==
    [][(active' /\ ~active) => (stale => unseen)]_residentVars

\* Known to fail: "Installation changes invalidate warm state" (resident.py:155), yet a
\* refresh that is asked for during the comparison or the load is not looked at again
\* before the dictation is active; its end stops the workers.
InvalidatedNotTaken ==
    [][(active' /\ ~active) => ~invalidated]_residentVars

\* Between tasks, a manifest that says ready names workers that are there
\* (resident.py:294-314, 335-383), unless an end is still owed or a load failed.
ReadyIsLoaded ==
    (ready /\ lock = None /\ route # None) => tracked = {"vad", "asr"}

\* The workers are there for whom the flags say: gone when the classroom is let at the
\* GPU, loaded when the manifest has a route, not taken from an active dictation, and not
\* given to one that comes after a change of their files.
WorkersKept == [](SuspendedIsEmpty /\ ReadyIsLoaded) /\ ActiveKeepsWorkers /\ StaleNotTaken

\* A preparation and a suspension come to an end whoever has the lock.
PreparationEnds == arming ~> ~arming
SuspensionEnds == classroom = "suspending" ~> classroom # "suspending"
=============================================================================
