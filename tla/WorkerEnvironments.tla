------------------------- MODULE WorkerEnvironments -------------------------
(***************************************************************************)
(* The environments of one worker (models/environment.py) and the processes *)
(* started from them (models/worker_process.py).  Publishers, threads of     *)
(* this or another process, take the worker's file lock; a process pins the  *)
(* directory it runs from by a shared lock on a file inside it, which moves   *)
(* and vanishes with the directory.  A version is the digest of the sources.  *)
(* A removal deletes file by file, the lock file among them.                  *)
(***************************************************************************)
EXTENDS Naturals, Sequences, FiniteSets

CONSTANTS Publishers, Workers,
          KeepVersions,   \* complete versions an explicit cleanup keeps
          KeepDamaged,    \* backups every cleanup keeps
          MaxUpdates,     \* updates of the sources
          MaxDirectories, \* created in all
          MaxMishaps      \* damaged environments, failed builds, crashes

ASSUME EnvironmentsAssumption ==
    /\ "nobody" \notin Publishers
    /\ MaxUpdates \in Nat /\ MaxDirectories \in Nat \ {0} /\ MaxMishaps \in Nat

VARIABLES
    source,       \* the version of the worker's sources
    directories,  \* in order of creation: version, place, state
    publishing,   \* who holds the lock file of the worker
    publisher,    \* of each publisher: where it is, its job and directories
    exclusive,    \* directories locked for a change
    shared,       \* <<directory, worker>>: the leases
    worker,       \* of each WorkerProcess: where its start() or stop() is
    alive,        \* the directory its process runs from, or 0
    late,         \* workers that pinned a directory whose lock file was deleted
    mishaps

environmentVars ==
    <<source, directories, publishing, publisher, exclusive, shared, worker, alive, late, mishaps>>

Nobody == "nobody"
NoJob == [at |-> "idle", job |-> "none", dir |-> 0, todo |-> {}]
NotStarted == [at |-> "off", version |-> 0, dir |-> 0, cancelled |-> FALSE]

EnvironmentTypeOK ==
    /\ source \in 1..(MaxUpdates + 1)
    /\ \A d \in DOMAIN directories :
         directories[d] \in [version : 1..(MaxUpdates + 1),
                             place : {"staging", "target", "backup", "gone"},
                             state : {"building", "complete", "damaged", "removing"}]
    /\ publishing \in Publishers \cup {Nobody}
    /\ exclusive \subseteq DOMAIN directories /\ shared \subseteq (DOMAIN directories) \X Workers
    /\ alive \in [Workers -> 0..MaxDirectories] /\ late \subseteq Workers
    /\ mishaps \in 0..MaxMishaps

EnvironmentsInit ==
    /\ source = 1 /\ directories = <<[version |-> 1, place |-> "target", state |-> "complete"]>>
    /\ publishing = Nobody /\ publisher = [p \in Publishers |-> NoJob]
    /\ exclusive = {} /\ shared = {}
    /\ worker = [w \in Workers |-> NotStarted] /\ alive = [w \in Workers |-> 0] /\ late = {}
    /\ mishaps = MaxMishaps

Directories == DOMAIN directories
Mishap == mishaps > 0 /\ mishaps' = mishaps - 1
\* The directory at the path of a version, if any.
TargetOf(version) ==
    {d \in Directories : directories[d].place = "target" /\ directories[d].version = version}
Pinned(d) == \E w \in Workers : <<d, w>> \in shared
processVars == <<shared, worker, alive, late>>

-----------------------------------------------------------------------------
(* ensure() and cleanup().                                                  *)

PublisherAt(p, where) == publisher[p].at = where
PublisherGoes(p, where) == publisher' = [publisher EXCEPT ![p].at = where]
PublisherReturns(p) == publisher' = [publisher EXCEPT ![p] = NoJob] /\ publishing' = Nobody

CallEnsure(p) ==
    /\ publisher[p] = NoJob
    /\ \E job \in {"ensure", "repair", "cleanup"} :
         publisher' = [publisher EXCEPT ![p].at = "waiting", ![p].job = job]
    /\ UNCHANGED <<source, directories, publishing, exclusive, processVars, mishaps>>

Kept(job) ==
    LET targets == {d \in Directories : directories[d].place = "target"}
        complete == {d \in targets : directories[d].state = "complete"}
        damaged == {d \in Directories : directories[d].place = "backup"} \cup (targets \ complete)
        newest(S, n) == {d \in S : Cardinality({e \in S : e > d}) < n}
        current == TargetOf(source)
    IN (IF job = "cleanup" THEN current \cup newest(complete \ current, KeepVersions - 1) ELSE complete)
       \cup newest(damaged, KeepDamaged)

\* Every directory that is not kept: old versions, backups, and what a crash left.
Obsolete(job) == {d \in Directories : directories[d].place # "gone"} \ Kept(job)

Enter(p) ==
    /\ PublisherAt(p, "waiting") /\ publishing = Nobody /\ publishing' = p
    /\ publisher' = [publisher EXCEPT
           ![p].at = IF publisher[p].job = "cleanup" THEN "cleaning"
                     ELSE IF publisher[p].job = "repair" THEN "repairing" ELSE "ensuring",
           ![p].todo = IF publisher[p].job = "cleanup" THEN Obsolete("cleanup") ELSE {}]
    /\ UNCHANGED <<source, directories, exclusive, processVars, mishaps>>

\* A damaged environment is set aside, unless a process runs from it.
Available(d) == ~Pinned(d)
Repair(p) ==
    LET damaged == {d \in TargetOf(source) : directories[d].state # "complete"} IN
    /\ PublisherAt(p, "repairing")
    /\ IF damaged = {} THEN PublisherGoes(p, "ensuring") /\ UNCHANGED <<publishing, exclusive>>
       ELSE \E d \in damaged :
              IF Available(d)
              THEN /\ exclusive' = exclusive \cup {d} /\ UNCHANGED publishing
                   /\ publisher' = [publisher EXCEPT ![p].at = "moving", ![p].dir = d]
              ELSE PublisherReturns(p) /\ UNCHANGED exclusive
    /\ UNCHANGED <<source, directories, processVars, mishaps>>

Move(p) ==
    /\ PublisherAt(p, "moving")
    /\ directories' = [directories EXCEPT ![publisher[p].dir].place = "backup"]
    /\ exclusive' = exclusive \ {publisher[p].dir} /\ PublisherGoes(p, "ensuring")
    /\ UNCHANGED <<source, publishing, processVars, mishaps>>

\* _ensure(): a complete environment is returned; a damaged one is an error.
Cleaning(p) ==
    publisher' = [publisher EXCEPT ![p].at = "cleaning", ![p].todo = Obsolete("ensure")]
Ensure(p) ==
    LET target == TargetOf(source) IN
    /\ PublisherAt(p, "ensuring")
    /\ IF target = {} THEN
            /\ Len(directories) < MaxDirectories
            /\ directories' = Append(directories,
                    [version |-> source, place |-> "staging", state |-> "building"])
            /\ publisher' = [publisher EXCEPT ![p].at = "building", ![p].dir = Len(directories) + 1]
            /\ UNCHANGED publishing
       ELSE /\ IF \E d \in target : directories[d].state = "complete"
               THEN Cleaning(p) /\ UNCHANGED publishing ELSE PublisherReturns(p)
            /\ UNCHANGED directories
    /\ UNCHANGED <<source, exclusive, processVars, mishaps>>

\* The build ends; a failure removes the staging directory.
Build(p) ==
    LET d == publisher[p].dir IN
    /\ PublisherAt(p, "building")
    /\ \/ /\ directories' = [directories EXCEPT ![d].state = "complete"]
          /\ PublisherGoes(p, "publishing") /\ UNCHANGED <<publishing, mishaps>>
       \/ Mishap /\ directories' = [directories EXCEPT ![d].place = "gone"] /\ PublisherReturns(p)
    /\ UNCHANGED <<source, exclusive, processVars>>

\* os.replace: it fails on a directory that is not empty.
PublishDirectory(p) ==
    LET d == publisher[p].dir IN
    /\ PublisherAt(p, "publishing")
    /\ IF TargetOf(directories[d].version) = {}
       THEN /\ directories' = [directories EXCEPT ![d].place = "target"]
            /\ PublisherGoes(p, "published") /\ UNCHANGED publishing
       ELSE directories' = [directories EXCEPT ![d].place = "gone"] /\ PublisherReturns(p)
    /\ UNCHANGED <<source, exclusive, processVars, mishaps>>

Published(p) ==
    /\ PublisherAt(p, "published") /\ Cleaning(p)
    /\ UNCHANGED <<source, directories, publishing, exclusive, processVars, mishaps>>

\* _cleanup_locked(): a directory with a lease is skipped.
Clean(p) ==
    /\ PublisherAt(p, "cleaning")
    /\ IF publisher[p].todo = {} THEN PublisherReturns(p) /\ UNCHANGED <<exclusive, directories>>
       ELSE \E d \in publisher[p].todo :
              IF Available(d)
              THEN /\ exclusive' = exclusive \cup {d} /\ UNCHANGED publishing
                   /\ directories' = [directories EXCEPT ![d].state = "removing"]
                   /\ publisher' = [publisher EXCEPT ![p].at = "removing", ![p].dir = d,
                                                        ![p].todo = @ \ {d}]
              ELSE /\ publisher' = [publisher EXCEPT ![p].todo = @ \ {d}]
                   /\ UNCHANGED <<publishing, exclusive, directories>>
    /\ UNCHANGED <<source, processVars, mishaps>>

Removed(p) ==
    /\ PublisherAt(p, "removing")
    /\ directories' = [directories EXCEPT ![publisher[p].dir].place = "gone"]
    /\ exclusive' = exclusive \ {publisher[p].dir} /\ PublisherGoes(p, "cleaning")
    /\ UNCHANGED <<source, publishing, processVars, mishaps>>

-----------------------------------------------------------------------------
(* WorkerProcess.                                                           *)

Worker(w, where) == worker[w].at = where
Becomes(w, where) == worker' = [worker EXCEPT ![w].at = where]
StartEnds(w) == worker' = [worker EXCEPT ![w] = NotStarted]
others == <<source, directories, publishing, publisher, exclusive, mishaps>>

\* resolve(): the project the process will be started from, maybe much later.
Resolve(w) ==
    /\ worker[w] = NotStarted /\ \E d \in TargetOf(source) : directories[d].state = "complete"
    /\ worker' = [worker EXCEPT ![w].at = "resolved", ![w].version = source]
    /\ UNCHANGED <<shared, alive, late, others>>

\* acquire_environment_lease(): open, lock, compare with what is at the path now.
Lease(w) ==
    /\ Worker(w, "resolved")
    /\ \/ StartEnds(w) /\ UNCHANGED <<shared, late>>
       \/ \E d \in TargetOf(worker[w].version) :
            \/ /\ d \notin exclusive /\ UNCHANGED late
               /\ shared' = shared \cup {<<d, w>>}
               /\ worker' = [worker EXCEPT ![w].at = "leased", ![w].dir = d]
            \/ /\ directories[d].state = "removing" /\ late' = late \cup {w}
               /\ worker' = [worker EXCEPT ![w].at = "leased", ![w].dir = d] /\ UNCHANGED shared
    /\ UNCHANGED <<alive, others>>

Unpinned(w) == {l \in shared : l[2] # w}
Verify(w) ==
    /\ Worker(w, "leased")
    /\ IF worker[w].dir \in TargetOf(worker[w].version)
       THEN Becomes(w, "spawning") /\ UNCHANGED <<shared, late>>
       ELSE StartEnds(w) /\ shared' = Unpinned(w) /\ late' = late \ {w}
    /\ UNCHANGED <<alive, others>>

\* A cancelled start waits for the process it is creating, to stop it.
CancelStart(w) ==
    /\ \/ /\ Worker(w, "spawning") /\ ~worker[w].cancelled
          /\ worker' = [worker EXCEPT ![w].cancelled = TRUE]
       \/ Worker(w, "running") /\ Becomes(w, "stopping")
    /\ UNCHANGED <<shared, alive, late, others>>

Spawn(w) ==
    /\ Worker(w, "spawning")
    /\ \/ \E d \in TargetOf(worker[w].version) :
            /\ alive' = [alive EXCEPT ![w] = d]
            /\ Becomes(w, IF worker[w].cancelled THEN "stopping" ELSE "running")
            /\ UNCHANGED <<shared, late>>
       \/ StartEnds(w) /\ shared' = Unpinned(w) /\ late' = late \ {w} /\ UNCHANGED alive
    /\ UNCHANGED others

Exits(w) ==
    /\ alive[w] # 0 /\ alive' = [alive EXCEPT ![w] = 0]
    /\ UNCHANGED <<shared, worker, late, others>>

\* _stop_impl() goes on when its caller is cancelled: the lease ends with the process.
Stopped(w) ==
    /\ Worker(w, "stopping") /\ alive' = [alive EXCEPT ![w] = 0]
    /\ StartEnds(w) /\ shared' = Unpinned(w) /\ late' = late \ {w}
    /\ UNCHANGED others

-----------------------------------------------------------------------------
(* Updates, damage and crashes.                                             *)

UpdateSources ==
    /\ source <= MaxUpdates /\ source' = source + 1
    /\ UNCHANGED <<directories, publishing, publisher, exclusive, processVars, mishaps>>

Damage(d) ==
    /\ Mishap /\ directories[d].place = "target" /\ directories[d].state = "complete"
    /\ directories' = [directories EXCEPT ![d].state = "damaged"]
    /\ UNCHANGED <<source, publishing, publisher, exclusive, processVars>>

\* The core ends with its processes: the kernel drops every lock.
Crash ==
    /\ Mishap
    /\ directories' = [d \in Directories |-> IF directories[d].state = "removing"
                                             THEN [directories[d] EXCEPT !.state = "damaged"]
                                          ELSE directories[d]]
    /\ publishing' = Nobody /\ publisher' = [p \in Publishers |-> NoJob]
    /\ exclusive' = {} /\ shared' = {} /\ late' = {}
    /\ worker' = [w \in Workers |-> NotStarted] /\ alive' = [w \in Workers |-> 0]
    /\ UNCHANGED source

PublisherStep(p) ==
    \/ CallEnsure(p) \/ Enter(p) \/ Repair(p) \/ Move(p) \/ Ensure(p) \/ Build(p)
    \/ PublishDirectory(p) \/ Published(p) \/ Clean(p) \/ Removed(p)
WorkerStep(w) ==
    \/ Resolve(w) \/ Lease(w) \/ Verify(w) \/ CancelStart(w) \/ Spawn(w) \/ Exits(w) \/ Stopped(w)

EnvironmentsNext ==
    \/ \E p \in Publishers : PublisherStep(p)
    \/ \E w \in Workers : WorkerStep(w)
    \/ UpdateSources \/ Crash \/ \E d \in Directories : Damage(d)

EnvironmentsSpec == EnvironmentsInit /\ [][EnvironmentsNext]_environmentVars

-----------------------------------------------------------------------------
\* A process keeps the environment it runs from: no repair sets it aside and no
\* cleanup removes it, through cancelled starts, updates and other publishers
\* (environment.py:44-66, 124-134; worker_process.py:146-189).  Left out are processes
\* that pinned an old version while a cleanup was deleting it.
LiveEnvironmentStays ==
    \A w \in Workers : alive[w] # 0 /\ w \notin late =>
        directories[alive[w]].place = "target" /\ directories[alive[w]].state # "removing"

\* A version is published once, and by a build that was completed: what a failed build
\* or a crash leaves is never found at the path of a version.
PublishedOnce ==
    \A d, e \in Directories : directories[d].place = "target" =>
        /\ directories[d].state # "building"
        /\ (directories[e].place = "target" /\ directories[e].version = directories[d].version) => d = e

\* A stopped worker pins nothing, so a repair does not wait for it.
PinsEnd == \A w \in Workers : worker[w] = NotStarted => alive[w] = 0 /\ Unpinned(w) = shared
=============================================================================
