---------------------------- MODULE ModelInstall ----------------------------
(***************************************************************************)
(* Installing, deleting and switching the revisions of one model            *)
(* (models/manager.py, called by threads of the API).  Its files outlive a  *)
(* crash: the revision directories with their audit record, the pointer to  *)
(* the active revision and the rows of model_installations.  Tokens,        *)
(* progress and the mutation lock do not.                                   *)
(***************************************************************************)
EXTENDS Naturals, FiniteSets

CONSTANTS Revisions,   \* of the model, over its releases
          Threads,     \* of the API, each in one call
          MaxErrors,   \* failing downloads, health checks, writes and deletions
          MaxReboots

ASSUME InstallAssumption ==
    /\ "free" \notin Threads /\ "none" \notin Revisions
    /\ MaxErrors \in Nat /\ MaxReboots \in Nat

VARIABLES
    disk,       \* what the directory of a revision holds
    pointer,    \* active.json
    rows,       \* revisions with a row in model_installations
    progress,   \* _install_progress
    mutation,   \* .mutation.lock: "free" or the thread that holds it
    op,         \* what each thread does
    plans,      \* _plans: revisions with an unused confirmation
    spare     \* errors and restarts left

installVars == <<disk, pointer, rows, progress, mutation, op, plans, spare>>

\* "verified" and "unhealthy" have an audit record without a good health check;
\* a deletion that stopped halfway leaves files, with the record or without it.
Contents == {"none", "verified", "unhealthy", "healthy", "torn"}
NoRevision == "none"
NoOp == [do |-> "off", rev |-> NoRevision, at |-> "off"]
Places == {"off", "locking", "downloading", "publishing", "checking", "recording",
           "activating", "undoing", "deleting", "removing"}

InstallTypeOK ==
    /\ disk \in [Revisions -> Contents] /\ pointer \in Revisions \cup {NoRevision}
    /\ rows \subseteq Revisions /\ plans \subseteq Revisions
    /\ progress \in [Revisions -> {"none", "downloading", "verifying", "checking", "complete",
                                   "awaiting_health_check", "failed"}]
    /\ mutation \in Threads \cup {"free"}
    /\ op \in [Threads -> [do : {"off", "install", "delete", "rollback"},
                           rev : Revisions \cup {NoRevision}, at : Places]]
    /\ spare \in [errors : 0..MaxErrors, restarts : 0..MaxReboots]

InstallInit ==
    /\ disk = [r \in Revisions |-> "none"] /\ pointer = NoRevision /\ rows = {}
    /\ progress = [r \in Revisions |-> "none"] /\ mutation = "free"
    /\ op = [t \in Threads |-> NoOp] /\ plans = {}
    /\ spare = [errors |-> MaxErrors, restarts |-> MaxReboots]

Doing(t, do, place) == op[t].do = do /\ op[t].at = place
Goes(t, place) == op' = [op EXCEPT ![t].at = place]
Leaves(t) == op' = [op EXCEPT ![t] = NoOp] /\ mutation' = "free"
Stage(r, stage) == progress' = [progress EXCEPT ![r] = stage]
Holds(r, content) == disk' = [disk EXCEPT ![r] = content]
Errs(e) == spare[e] > 0 /\ spare' = [spare EXCEPT ![e] = @ - 1]

\* request_user_install: a token for one confirmation.
RequestInstall(r) ==
    /\ r \notin plans /\ plans' = plans \cup {r}
    /\ UNCHANGED <<disk, pointer, rows, progress, mutation, op, spare>>

Enters(t, do, r) ==
    op[t] = NoOp /\ op' = [op EXCEPT ![t] = [do |-> do, rev |-> r, at |-> "locking"]]

\* install_confirmed takes the token, good or not, before the lock.
Confirm(t, r) ==
    /\ r \in plans /\ plans' = plans \ {r}
    /\ (Enters(t, "install", r) \/ UNCHANGED op)
    /\ UNCHANGED <<disk, pointer, rows, progress, mutation, spare>>
Ask(t, do, r) ==
    /\ do \in {"delete", "rollback"} /\ Enters(t, do, r)
    /\ UNCHANGED <<disk, pointer, rows, progress, mutation, plans, spare>>

\* _reusable_download: the files of an attempt that only lacks a health check.
Reusable(r) == disk[r] \in {"verified", "unhealthy"}

\* Any other directory of the revision is refused; a torn one may still have such
\* a record, and then fails the verification instead.
Refused(t, r) ==
    /\ op' = [op EXCEPT ![t] = NoOp] /\ UNCHANGED mutation
    /\ UNCHANGED progress \/ (disk[r] = "torn" /\ Stage(r, "failed"))

InstallLocked(t) ==
    LET r == op[t].rev IN
    /\ Doing(t, "install", "locking") /\ mutation = "free"
    /\ IF disk[r] # "none" /\ ~Reusable(r)
         THEN Refused(t, r)
         ELSE /\ mutation' = t
              /\ Goes(t, IF Reusable(r) THEN "checking" ELSE "downloading")
              /\ Stage(r, IF Reusable(r) THEN "checking" ELSE "downloading")
    /\ UNCHANGED <<disk, pointer, rows, plans, spare>>

\* The download and its verification in the staging directory.
Downloaded(t) ==
    /\ Doing(t, "install", "downloading") /\ Goes(t, "publishing") /\ Stage(op[t].rev, "verifying")
    /\ UNCHANGED <<disk, pointer, rows, mutation, plans, spare>>
DownloadFails(t) ==
    /\ Doing(t, "install", "downloading") /\ Errs("errors")
    /\ Leaves(t) /\ Stage(op[t].rev, "failed")
    /\ UNCHANGED <<disk, pointer, rows, plans>>

\* os.replace of the payload with its record.
PublishFiles(t) ==
    /\ Doing(t, "install", "publishing")
    /\ Holds(op[t].rev, "verified") /\ Goes(t, "checking") /\ Stage(op[t].rev, "checking")
    /\ UNCHANGED <<pointer, rows, mutation, plans, spare>>

Checked(t) ==
    /\ Doing(t, "install", "checking")
    /\ Holds(op[t].rev, "healthy") /\ Goes(t, "recording")
    /\ UNCHANGED <<pointer, rows, progress, mutation, plans, spare>>
Record(t) ==
    /\ Doing(t, "install", "recording")
    /\ rows' = rows \cup {op[t].rev} /\ Goes(t, "activating")
    /\ UNCHANGED <<disk, pointer, progress, mutation, plans, spare>>
Activate(t) ==
    /\ Doing(t, "install", "activating")
    /\ pointer' = op[t].rev /\ Leaves(t) /\ Stage(op[t].rev, "complete")
    /\ UNCHANGED <<disk, rows, plans, spare>>

\* What fails after the verification keeps the files, to be checked again.
InstallFails(t) ==
    /\ op[t].do = "install" /\ op[t].at \in {"checking", "recording", "activating"}
    /\ Errs("errors") /\ Goes(t, "undoing") /\ Stage(op[t].rev, "awaiting_health_check")
    /\ UNCHANGED <<disk, pointer, rows, mutation, plans>>
Undo(t) ==
    /\ Doing(t, "install", "undoing") /\ Leaves(t)
    /\ \/ Holds(op[t].rev, "unhealthy") /\ UNCHANGED spare
       \/ Errs("errors") /\ UNCHANGED disk
    /\ UNCHANGED <<pointer, rows, progress, plans>>

\* delete_revision: never the active one; the row goes after the files.
DeleteLocked(t) ==
    /\ Doing(t, "delete", "locking") /\ mutation = "free"
    /\ IF pointer = op[t].rev THEN op' = [op EXCEPT ![t] = NoOp] /\ UNCHANGED mutation
                              ELSE mutation' = t /\ Goes(t, "deleting")
    /\ UNCHANGED <<disk, pointer, rows, progress, plans, spare>>
DeleteFiles(t) ==
    /\ Doing(t, "delete", "deleting")
    /\ \/ disk[op[t].rev] \notin {"none", "torn"} /\ Holds(op[t].rev, "torn")
          /\ UNCHANGED <<op, mutation, spare>>
       \/ disk[op[t].rev] \in {"none", "torn"} /\ Holds(op[t].rev, "none") /\ Goes(t, "removing")
          /\ UNCHANGED <<mutation, spare>>
       \/ Errs("errors") /\ Leaves(t) /\ UNCHANGED disk
    /\ UNCHANGED <<pointer, rows, progress, plans>>
DeleteRow(t) ==
    /\ Doing(t, "delete", "removing")
    /\ rows' = rows \ {op[t].rev} /\ Stage(op[t].rev, "none") /\ Leaves(t)
    /\ UNCHANGED <<disk, pointer, plans, spare>>

\* rollback: the revision is validated, then the pointer is switched.
ValidatedEarly(t) ==
    /\ Doing(t, "rollback", "locking")
    /\ IF disk[op[t].rev] = "healthy" THEN Goes(t, "activating") ELSE op' = [op EXCEPT ![t] = NoOp]
    /\ UNCHANGED <<disk, pointer, rows, progress, mutation, plans, spare>>
RollbackLocked(t) ==
    /\ Doing(t, "rollback", "locking") /\ mutation = "free"
    /\ IF disk[op[t].rev] = "healthy" THEN mutation' = t /\ Goes(t, "activating")
                                      ELSE op' = [op EXCEPT ![t] = NoOp] /\ UNCHANGED mutation
    /\ UNCHANGED <<disk, pointer, rows, progress, plans, spare>>
SwitchBack(t) ==
    /\ Doing(t, "rollback", "activating")
    /\ pointer' = op[t].rev /\ Leaves(t)
    /\ UNCHANGED <<disk, rows, progress, plans, spare>>

RestartCore ==
    /\ Errs("restarts")
    /\ op' = [t \in Threads |-> NoOp] /\ mutation' = "free"
    /\ progress' = [r \in Revisions |-> "none"] /\ plans' = {}
    /\ UNCHANGED <<disk, pointer, rows>>

InstallNext ==
    \/ RestartCore
    \/ \E r \in Revisions : RequestInstall(r)
    \/ \E t \in Threads, r \in Revisions :
         Confirm(t, r) \/ \E do \in {"delete", "rollback"} : Ask(t, do, r)
    \/ \E t \in Threads :
         \/ InstallLocked(t) \/ Downloaded(t) \/ DownloadFails(t) \/ PublishFiles(t) \/ Checked(t)
         \/ Record(t) \/ Activate(t) \/ InstallFails(t) \/ Undo(t)
         \/ DeleteLocked(t) \/ DeleteFiles(t) \/ DeleteRow(t) \/ RollbackLocked(t) \/ SwitchBack(t)

InstallSpec == InstallInit /\ [][InstallNext]_installVars

-----------------------------------------------------------------------------
\* Whatever failed or was cut off, and in whatever order the calls came, the
\* revision the runtime resolves is there, whole and healthy: a call that deletes
\* it, or fails after having found it, cannot be overtaken by one that activates
\* it (manager.py:591-661).
ActiveIsHealthy == pointer # NoRevision => disk[pointer] = "healthy"
=============================================================================
