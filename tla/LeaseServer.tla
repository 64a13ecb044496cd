---------------------------- MODULE LeaseServer ----------------------------
(***************************************************************************)
(* The GPU lease server of the core (scheduler/ipc.py) and the daemon's     *)
(* client (SchedulerLeaseClient).  One step runs a task of either event     *)
(* loop between two awaits.  The order of the lock's queue is left open.    *)
(* Time is the step Elapse: a lease that is not renewed is past its         *)
(* deadline at some point; the bound MaxStalls limits how often that        *)
(* happens to a client that does renew.                                     *)
(***************************************************************************)
EXTENDS Naturals, FiniteSets

CONSTANTS Sessions,      \* session ids, each of one arm() of one daemon
          MaxFaults,     \* failing on_prepare and on_end calls
          MaxStalls,     \* renewals that come later than 45 seconds
          MaxCrashes     \* of the core

ASSUME LeaseAssumption ==
    IsFiniteSet(Sessions) /\ MaxFaults \in Nat /\ MaxStalls \in Nat /\ MaxCrashes \in Nat

VARIABLES
    deadline,   \* _deadlines: "none", "live" or "past"
    prep,       \* the task in _preparations; "ended" is its on_end after a failure
    cancelled,  \* preparations with a cancellation delivered at their next await
    sessions,   \* _sessions
    count,      \* GPULeaseManager._dictation_sessions
    pending,    \* _cleanup_pending
    holder,       \* _lock: free, or the task that holds it
    ends,       \* _end_session calls: <<caller, session>> -> where
    core,       \* what on_prepare and on_end last did to the core
    client,     \* the daemon's side of each session
    renewing,   \* sessions with a _renew task
    lost,       \* sessions whose _lost event is set
    budget      \* faults, stalls and crashes left

serverVars == <<deadline, prep, cancelled, sessions, count, pending, holder, ends, core>>
clientVars == <<client, renewing, lost>>
leaseVars == <<serverVars, clientVars, budget>>

Callers == {"client", "expiry"}
Calls == Callers \X Sessions
Free == <<"free", "free">>
Cleanup == <<"cleanup", "cleanup">>

TypeOK ==
    /\ deadline \in [Sessions -> {"none", "live", "past"}]
    /\ prep \in [Sessions -> {"none", "waiting", "preparing", "ending", "done", "failed"}]
    /\ cancelled \subseteq Sessions /\ sessions \subseteq Sessions
    /\ count \in 0..Cardinality(Sessions) /\ pending \in BOOLEAN
    /\ holder \in {Free, Cleanup} \cup Calls \cup ({"begin"} \X Sessions)
    /\ ends \in [Calls -> {"none", "awaits", "waiting", "ending"}]
    /\ core \in {"classroom", "preparing", "dictation", "ending", "owed"}
    /\ client \in [Sessions -> {"new", "beginning", "held", "ending", "ended", "gone"}]
    /\ renewing \subseteq Sessions /\ lost \subseteq Sessions
    /\ budget \in [faults : 0..MaxFaults, stalls : 0..MaxStalls, crashes : 0..MaxCrashes]

Every(v) == [s \in Sessions |-> v]
NoEnds == [c \in Calls |-> "none"]

Init ==
    /\ deadline = Every("none") /\ prep = Every("none") /\ cancelled = {}
    /\ sessions = {} /\ count = 0 /\ pending = FALSE
    /\ holder = Free /\ ends = NoEnds /\ core = "classroom"
    /\ client = Every("new") /\ renewing = {} /\ lost = {}
    /\ budget = [faults |-> MaxFaults, stalls |-> MaxStalls, crashes |-> MaxCrashes]

Spend(b) == budget[b] > 0 /\ budget' = [budget EXCEPT ![b] = @ - 1]

(***************************************************************************)
(* The server's tasks                                                       *)
(***************************************************************************)

BeginUnlocked(s) ==
    /\ prep[s] = "waiting" /\ sessions' = sessions \cup {s} /\ count' = count + 1
    /\ IF sessions = {}
         THEN /\ prep' = [prep EXCEPT ![s] = "preparing"]
              /\ core' = "preparing" /\ holder' = <<"begin", s>>
         ELSE prep' = [prep EXCEPT ![s] = "done"] /\ UNCHANGED <<core, holder>>
    /\ UNCHANGED <<deadline, cancelled, pending, ends, clientVars, budget>>

\* A preparation gets the lock.  Only the first session has the GPU prepared.
BeginLocked(s) ==
    /\ prep[s] = "waiting" /\ holder = Free
    /\ sessions' = sessions \cup {s}
    /\ count' = count + 1
    /\ IF sessions = {}
         THEN /\ prep' = [prep EXCEPT ![s] = "preparing"]
              /\ core' = "preparing" /\ holder' = <<"begin", s>>
         ELSE prep' = [prep EXCEPT ![s] = "done"] /\ UNCHANGED <<core, holder>>
    /\ UNCHANGED <<deadline, cancelled, pending, ends, clientVars, budget>>

Prepared(s) ==
    /\ prep[s] = "preparing" /\ s \notin cancelled
    /\ prep' = [prep EXCEPT ![s] = "done"]
    /\ core' = "dictation" /\ holder' = Free
    /\ UNCHANGED <<deadline, cancelled, sessions, count, pending, ends, clientVars, budget>>

PrepareFailsOnce(s) ==
    /\ prep[s] = "preparing"
    /\ IF s \in cancelled THEN UNCHANGED budget ELSE Spend("faults")
    /\ cancelled' = cancelled \ {s}
    /\ deadline' = [deadline EXCEPT ![s] = "none"]
    /\ sessions' = sessions \ {s} /\ count' = count - 1
    /\ core' = "ending" /\ prep' = [prep EXCEPT ![s] = "ending"]
    /\ UNCHANGED <<pending, holder, ends, clientVars>>

\* on_prepare raises or is cancelled: _remove_locked in the same task, whose
\* on_end then runs with the lock.
PrepareFails(s) ==
    /\ prep[s] = "preparing"
    /\ IF s \in cancelled THEN UNCHANGED budget ELSE Spend("faults")
    /\ cancelled' = cancelled \ {s}
    /\ deadline' = [deadline EXCEPT ![s] = "none"]
    /\ sessions' = sessions \ {s} /\ count' = count - 1
    /\ pending' = TRUE /\ core' = "ending"
    /\ prep' = [prep EXCEPT ![s] = "ending"]
    /\ UNCHANGED <<holder, ends, clientVars>>

\* on_end returns, raises, or is interrupted by another cancellation.
CoreEnds(interrupted) ==
    /\ \/ core' = "classroom" /\ pending' = FALSE /\ ~interrupted /\ UNCHANGED budget
       \/ core' = "owed" /\ UNCHANGED pending
          /\ IF interrupted THEN UNCHANGED budget ELSE Spend("faults")
    /\ holder' = Free

FailureEnds(s) ==
    /\ prep[s] = "ending"
    /\ CoreEnds(s \in cancelled)
    /\ cancelled' = cancelled \ {s}
    /\ prep' = [prep EXCEPT ![s] = "failed"]
    /\ UNCHANGED <<deadline, sessions, count, ends, clientVars>>

\* _end_session: an unfinished preparation is cancelled and awaited first.
Cancelled(s) == [prep EXCEPT ![s] = IF @ = "waiting" THEN "failed" ELSE @]
EndSessionAlone(c, s) ==
    ends[<<c, s>>] = "none" /\ ends' = [ends EXCEPT ![<<c, s>>] = "waiting"]
    /\ UNCHANGED <<prep, cancelled>>
EndSession(c, s) ==
    /\ ends[<<c, s>>] = "none"
    /\ IF prep[s] \in {"waiting", "preparing", "ending"}
         THEN /\ ends' = [ends EXCEPT ![<<c, s>>] = "awaits"]
              /\ prep' = Cancelled(s)
              /\ cancelled' = IF prep[s] = "waiting" THEN cancelled ELSE cancelled \cup {s}
         ELSE ends' = [ends EXCEPT ![<<c, s>>] = "waiting"] /\ UNCHANGED <<prep, cancelled>>

PreparationAwaited(c, s) ==
    /\ ends[<<c, s>>] = "awaits" /\ prep[s] \in {"none", "done", "failed"}
    /\ ends' = [ends EXCEPT ![<<c, s>>] = "waiting"]
    /\ UNCHANGED <<deadline, prep, cancelled, sessions, count, pending, holder, core, clientVars, budget>>

\* _remove_locked and _finish_locked up to the call of on_end.
EndLocked(c, s) ==
    LET left == sessions \ {s}
        owed == pending \/ (s \in sessions /\ left = {})
    IN  /\ ends[<<c, s>>] = "waiting" /\ holder = Free
        /\ deadline' = [deadline EXCEPT ![s] = "none"]
        /\ sessions' = left
        /\ count' = IF s \in sessions THEN count - 1 ELSE count
        /\ pending' = owed
        /\ IF owed /\ left = {}
             THEN /\ core' = "ending" /\ holder' = <<c, s>>
                  /\ ends' = [ends EXCEPT ![<<c, s>>] = "ending"]
             ELSE ends' = [ends EXCEPT ![<<c, s>>] = "none"] /\ UNCHANGED <<core, holder>>
        /\ IF c = "client" /\ ends'[<<c, s>>] = "none" /\ client[s] = "ending"
             THEN client' = [client EXCEPT ![s] = "ended"] ELSE UNCHANGED client
        /\ UNCHANGED <<prep, cancelled, renewing, lost, budget>>

\* The end is acknowledged only when on_end has succeeded.
EndReturns(c, s) ==
    /\ ends[<<c, s>>] = "ending"
    /\ CoreEnds(FALSE)
    /\ ends' = [ends EXCEPT ![<<c, s>>] = "none"]
    /\ client' = IF c = "client" /\ client[s] = "ending" /\ core' = "classroom"
                   THEN [client EXCEPT ![s] = "ended"] ELSE client
    /\ UNCHANGED <<deadline, prep, cancelled, sessions, count, renewing, lost>>

\* _expire_sessions: one session at a time, then the end that is still owed.
ExpiryIdle == holder # Cleanup /\ \A s \in Sessions : ends[<<"expiry", s>>] = "none"
Expire(s) ==
    /\ ExpiryIdle /\ deadline[s] = "past"
    /\ EndSession("expiry", s)
    /\ UNCHANGED <<deadline, sessions, count, pending, holder, core, clientVars, budget>>
RetryEnd ==
    /\ ExpiryIdle /\ holder = Free /\ pending /\ sessions = {}
    /\ holder' = Cleanup /\ core' = "ending"
    /\ UNCHANGED <<deadline, prep, cancelled, sessions, count, pending, ends, clientVars, budget>>
RetryReturns ==
    /\ holder = Cleanup
    /\ CoreEnds(FALSE)
    /\ UNCHANGED <<deadline, prep, cancelled, sessions, count, ends, clientVars>>

Elapse(s) ==
    /\ deadline[s] = "live"
    /\ IF s \in renewing THEN Spend("stalls") ELSE UNCHANGED budget
    /\ deadline' = [deadline EXCEPT ![s] = "past"]
    /\ UNCHANGED <<prep, cancelled, sessions, count, pending, holder, ends, core, clientVars>>

(***************************************************************************)
(* The daemon's client                                                      *)
(***************************************************************************)

\* begin(): one session of a daemon at a time; a killed daemon's sessions are
\* "gone".  The handler sets the deadline before the preparation has the lock.
Begin(s) ==
    /\ client[s] = "new" /\ \A t \in Sessions : client[t] \in {"new", "ended", "gone"}
    /\ client' = [client EXCEPT ![s] = "beginning"]
    /\ renewing' = renewing \cup {s}
    /\ deadline' = [deadline EXCEPT ![s] = "live"]
    /\ prep' = [prep EXCEPT ![s] = "waiting"]
    /\ UNCHANGED <<cancelled, sessions, count, pending, holder, ends, core, lost, budget>>

\* The handler of begin wakes up, forgets the task, and answers.
Answer(s) ==
    /\ prep[s] \in {"done", "failed"}
    /\ client' = IF client[s] # "beginning" THEN client
                 ELSE [client EXCEPT ![s] = IF prep[s] = "done" THEN "held" ELSE "ending"]
    /\ renewing' = IF client'[s] = "ending" THEN renewing \ {s} ELSE renewing
    /\ prep' = [prep EXCEPT ![s] = "none"]
    /\ UNCHANGED <<deadline, cancelled, sessions, count, pending, holder, ends, core, lost, budget>>

\* The user releases, Esc, a lost lease, the 600 seconds of begin: end().
GiveUp(s) ==
    /\ client[s] \in {"beginning", "held"}
    /\ client' = [client EXCEPT ![s] = "ending"]
    /\ renewing' = renewing \ {s} /\ lost' = lost \ {s}
    /\ UNCHANGED <<serverVars, budget>>

\* The request of end(); after 2 seconds without an answer the daemon repeats it.
End(s) ==
    /\ client[s] = "ending"
    /\ EndSession("client", s)
    /\ UNCHANGED <<deadline, sessions, count, pending, holder, core, clientVars, budget>>

Renew(s) ==
    /\ s \in renewing /\ s \notin lost
    /\ IF deadline[s] = "none"
         THEN lost' = lost \cup {s} /\ renewing' = renewing \ {s} /\ UNCHANGED deadline
         ELSE deadline' = [deadline EXCEPT ![s] = "live"] /\ UNCHANGED <<lost, renewing>>
    /\ UNCHANGED <<prep, cancelled, sessions, count, pending, holder, ends, core, client, budget>>

LossNoticed(s) == s \in lost /\ client[s] = "held" /\ GiveUp(s)

\* The daemon is killed: its requests stay with the server, nobody renews.
Killed(s) ==
    /\ client[s] \in {"beginning", "held", "ending"}
    /\ client' = [client EXCEPT ![s] = "gone"]
    /\ renewing' = renewing \ {s} /\ lost' = lost \ {s}
    /\ UNCHANGED <<serverVars, budget>>

\* The core is restarted: a begin in flight fails, a renewal finds no session.
Restart ==
    /\ Spend("crashes")
    /\ deadline' = Every("none") /\ prep' = Every("none") /\ cancelled' = {}
    /\ sessions' = {} /\ count' = 0 /\ pending' = FALSE
    /\ holder' = Free /\ ends' = NoEnds /\ core' = "classroom"
    /\ client' = [s \in Sessions |-> IF client[s] = "beginning" THEN "ending" ELSE client[s]]
    /\ renewing' = {s \in renewing : client[s] # "beginning"}
    /\ UNCHANGED lost

ServerStep(s) ==
    \/ BeginLocked(s) \/ Prepared(s) \/ PrepareFails(s) \/ FailureEnds(s) \/ Answer(s) \/ Expire(s)
    \/ \E c \in Callers : PreparationAwaited(c, s) \/ EndLocked(c, s) \/ EndReturns(c, s)
ClientStep(s) == Begin(s) \/ GiveUp(s) \/ End(s) \/ Renew(s) \/ Killed(s)

Next ==
    \/ RetryEnd \/ RetryReturns \/ Restart
    \/ \E s \in Sessions : ServerStep(s) \/ ClientStep(s) \/ LossNoticed(s) \/ Elapse(s)

\* As long as a task of the server, an end to be sent, a renewal that finds no
\* lease or the deadline of a session nobody renews is left, one of them goes
\* on.  Nothing is assumed of users, or of which one it is.
Progress ==
    \/ RetryEnd \/ RetryReturns
    \/ \E s \in Sessions :
         ServerStep(s) \/ End(s) \/ Renew(s) \/ LossNoticed(s) \/ (s \notin renewing /\ Elapse(s))

Spec == Init /\ [][Next]_leaseVars
FairSpec == Spec /\ WF_leaseVars(Progress)

(***************************************************************************)
(* Properties                                                               *)
(***************************************************************************)

\* The server implements the handover the rest of the core relies on: the GPU
\* is prepared for the first session only, never while an end of it runs, and
\* given back when the last session has left (ipc.py:155-202).
Handover == INSTANCE GpuHandover WITH members <- sessions
HandoverKept == Handover!Spec

\* Every session the server counts can expire, or an end of it is under way:
\* otherwise the classroom would stay blocked for ever (ipc.py:105, 188, 204).
SessionsCanExpire ==
    \A s \in sessions : deadline[s] # "none"

\* The lease manager blocks the classroom as long as a session is left
\* (gpu.py:109-123 counts what ipc.py:160 and 190 tell it).
CountedOnce == count = Cardinality(sessions)

\* An end that was acknowledged is final: no preparation that was under way
\* brings the session back (ipc.py:177-185).
EndIsFinal == \A s \in Sessions : client[s] = "ended" => s \notin sessions

\* A daemon that is gone, or a session that is over, gives the GPU back
\* (ipc.py:204-215), whatever failed on the way.
Unused == \A s \in Sessions : client[s] \in {"new", "ended", "gone"}
LeaseComesBack == Unused ~> (core = "classroom" \/ ~Unused)

\* A daemon whose lease has expired stops listening (daemon.py:90-100): the
\* renewal fails and the watchdog ends the session.
LossIsNoticed == \A s \in Sessions : (client[s] = "held" /\ s \notin sessions) ~> client[s] # "held"
=============================================================================
