-------------------------- MODULE DictationService --------------------------
(***************************************************************************)
(* The dictation daemon: the tasks of DictationService on its event loop    *)
(* (ibus/dictationd, daemon.py), the session state of DictationController   *)
(* (session.py), the lease client, and what it leaves at the core service.  *)
(*                                                                          *)
(* A step runs one task from one await to the next; an await that cannot    *)
(* suspend is no step.  The lock is a FIFO queue whose head holds it.       *)
(***************************************************************************)
EXTENDS Naturals, Sequences, SequencesExt

CONSTANTS MaxSessions,  \* bound: sessions of a behaviour
          Callers,      \* control connections: release, cancel, select_candidate
          MaxQueue,     \* frames the audio queue holds
          Faults,       \* the faults a run exercises
          MaxFaults     \* bound: faults of a behaviour

FaultNames == {"lease", "open", "stream", "overflow", "final", "lost", "end"}

ASSUME DictationAssumption ==
    MaxSessions \in Nat /\ MaxQueue \in Nat \ {0} /\ Faults \subseteq FaultNames /\ MaxFaults \in Nat

VARIABLES
    (* DictationController *)
    state, session,
    (* DictationService *)
    sid,        \* _session_id
    arming,     \* the session of the task _arming refers to
    audio,      \* the session whose generation the source feeds
    queue,      \* frames in the audio queue
    at,         \* where each task is
    lock,       \* the holder of the lock and those who wait for it
    running,    \* the task that has not been suspended yet, if any
    timer,      \* the session of the task _candidate_timer refers to
    target,     \* the arming task a canceller waits for
    watchdog,   \* the session _lease_watchdog watches
    pending,    \* _pending_lease_ends
    cleanup,    \* the task _lease_cleanup is alive
    (* the workers, the lease client, and the core *)
    stream, vad,      \* the sessions they are open for
    renewing, lost,   \* the leases renewed, and those known to be lost
    held,             \* the sessions the core holds the GPU for
    (* history and bound *)
    latest,     \* sessions armed so far
    commits,    \* commits published for each session
    over,       \* sessions ended by a cancel or a fault
    escaped,    \* sessions whose user has pressed Esc
    faults

controller == <<state, session>>
workers == <<stream, vad>>
client == <<renewing, lost>>
history == <<latest, commits, over, escaped>>
vars == <<controller, sid, arming, audio, queue, at, lock, running, timer, target, watchdog,
          pending, cleanup, workers, client, held, history, faults>>

-----------------------------------------------------------------------------
Sessions == 1..MaxSessions
Arm(s) == <<"arm", s>>
Consumer(s) == <<"consumer", s>>
Watch(s) == <<"watch", s>>
Command(k) == <<"command", k>>
Timer(s) == <<"timer", s>>
Overflow == <<"overflow", 0>>
NoTask == <<"none", 0>>

Tasks == {Arm(s) : s \in Sessions} \cup {Consumer(s) : s \in Sessions}
         \cup {Watch(s) : s \in Sessions} \cup {Timer(s) : s \in Sessions}
         \cup {Command(k) : k \in Callers} \cup {Overflow}

Watches == {Watch(s) : s \in Sessions}

\* Who cancels an arming: a connection, or the watchdog of a lost lease.
Cancellers == Watches \cup {Command(k) : k \in Callers}

Places == {"off", "lock", "lease", "vad", "open", "get", "voice", "feed", "wait", "sleep",
           "await", "cancel", "close", "quiet", "stop", "drain", "shut", "final", "select",
           "abort", "abortFail", "ending", "endingFail", "finally", "halted"}

\* LISTENING is INTERIM_UPDATE too; COMMITTING and ERROR last for no step.
States == {"IDLE", "ARMING", "LISTENING", "FINALIZING", "CANDIDATE_SELECT"}

TypeOK ==
    /\ state \in States /\ session \in 0..MaxSessions
    /\ sid \in 0..MaxSessions /\ arming \in 0..MaxSessions /\ audio \in 0..MaxSessions
    /\ queue \in 0..MaxQueue
    /\ at \in [Tasks -> Places]
    /\ lock \in Seq(Tasks) /\ IsInjective(lock)
    /\ running \in Tasks \cup {NoTask}
    /\ timer \in 0..MaxSessions
    /\ target \in [Tasks -> 0..MaxSessions]
    /\ watchdog \in 0..MaxSessions
    /\ pending \subseteq Sessions /\ cleanup \in BOOLEAN
    /\ stream \in 0..MaxSessions /\ vad \in 0..MaxSessions
    /\ renewing \subseteq Sessions /\ lost \subseteq Sessions /\ held \subseteq Sessions
    /\ latest \in 0..MaxSessions
    /\ commits \in [Sessions -> Nat]
    /\ over \subseteq Sessions /\ escaped \subseteq Sessions
    /\ faults \in 0..MaxFaults

Init ==
    /\ state = "IDLE" /\ session = 0 /\ sid = 0 /\ arming = 0 /\ audio = 0 /\ queue = 0
    /\ at = [t \in Tasks |-> "off"] /\ lock = <<>> /\ running = NoTask 
    /\ timer = 0 /\ target = [t \in Tasks |-> 0]
    /\ watchdog = 0 /\ pending = {} /\ cleanup = FALSE
    /\ stream = 0 /\ vad = 0 /\ renewing = {} /\ lost = {} /\ held = {}
    /\ latest = 0 /\ commits = [s \in Sessions |-> 0] /\ over = {} /\ escaped = {} /\ faults = 0

-----------------------------------------------------------------------------
(* Building blocks of the steps.                                            *)

Fault(kind) == kind \in Faults /\ faults < MaxFaults /\ faults' = faults + 1

Known(s) == {s} \ {0}

Holds(t) == lock # <<>> /\ Head(lock) = t

\* controller.fail, and the end of controller.cancel.
GoIdle == state' = "IDLE" /\ session' = 0 /\ over' = over \cup Known(session)

\* _cancel_consumer, on the tasks as they are in now.
NoConsumer(now) == [t \in Tasks |-> IF t \in {Consumer(s) : s \in Sessions} THEN "off" ELSE now[t]]

\* What cancelling the watchdog does to it, wherever it is.
Stopped(place) == CASE place \in {"wait", "cancel"} -> "off"
                    [] place = "close" -> "finally"
                    [] place = "quiet" -> "halted"
                    [] OTHER -> place

\* The bug of a commit that leaves the candidates to be selected.
PublishStill(how) ==
    IF how = "fail" THEN GoIdle ELSE UNCHANGED <<controller, over>>

\* What the controller publishes when a task is done with the session.
Publish(how) ==
    CASE how = "fail" -> GoIdle
      [] how = "commit" -> state' = "IDLE" /\ session' = 0 /\ UNCHANGED over
      [] how = "keep" -> UNCHANGED <<controller, over>>

\* _release_lease up to its await, in a step of t that leaves the tasks as in
\* now and publishes how; later is what t publishes when it is back.
ReleaseLease(t, now, waits, how, later) ==
    LET watch == Watch(watchdog)
        other == watchdog # 0 /\ watch # t
        then == IF other THEN [now EXCEPT ![watch] = Stopped(@)] ELSE now
        queued == IF other /\ then[watch] = "off" THEN RemoveFirst(waits, watch) ELSE waits
        ends == pending \cup Known(sid)
    IN  /\ watchdog' = 0
        /\ sid' = 0 /\ pending' = ends
        /\ renewing' = renewing \ ends /\ lost' = lost \ ends
        /\ IF ends = {}
           THEN /\ at' = [then EXCEPT ![t] = "off"] /\ lock' = RemoveFirst(queued, t)
                /\ Publish(IF later = "fail" THEN later ELSE how)
           ELSE /\ at' = [then EXCEPT ![t] = IF later = "fail" THEN "endingFail" ELSE "ending"]
                /\ lock' = queued
                /\ Publish(how)

\* The core has answered the requests to end leases, or some of them failed.
LeaseEnds(t) ==
    /\ at[t] \in {"ending", "endingFail"}
    /\ at' = [at EXCEPT ![t] = "off"] /\ lock' = RemoveFirst(lock, t)
    /\ IF at[t] = "endingFail" THEN GoIdle ELSE UNCHANGED <<controller, over>>
    /\ \/ pending' = {} /\ held' = held \ pending /\ UNCHANGED <<cleanup, faults>>
       \/ Fault("end") /\ cleanup' = TRUE /\ UNCHANGED pending /\ held' \in {held, held \ pending}
    /\ UNCHANGED <<sid, arming, audio, queue, target, watchdog, workers, client, latest, commits,
                   escaped, timer>>

\* _cleanup_leases
CleanupLeases ==
    /\ cleanup
    /\ held' = held \ pending /\ pending' = {} /\ cleanup' = FALSE
    /\ renewing' = renewing \ pending /\ lost' = lost \ pending
    /\ UNCHANGED <<controller, sid, arming, audio, queue, at, lock, target, watchdog, workers,
                   history, faults, timer>>

Enqueue(t, place) == at' = [at EXCEPT ![t] = place] /\ lock' = Append(lock, t)

\* The state alone is published.
Enter(to) == state' = to /\ UNCHANGED <<session, over>>

-----------------------------------------------------------------------------
(* arm and _start_prepared.                                                 *)

\* The bug of an arm that does not look at the state.
BeginAnyway ==
    /\ latest < MaxSessions
    /\ latest' = latest + 1
    /\ state' = "ARMING" /\ session' = latest' /\ arming' = latest'
    /\ Enqueue(Arm(latest'), "lock")
    /\ UNCHANGED <<sid, audio, queue, target, watchdog, pending, cleanup, workers, client, held,
                   commits, over, escaped, faults, timer>>

Begin ==
    /\ state = "IDLE" /\ latest < MaxSessions
    /\ latest' = latest + 1
    /\ state' = "ARMING" /\ session' = latest' /\ arming' = latest'
    /\ Enqueue(Arm(latest'), "lock")
    /\ UNCHANGED <<sid, audio, queue, target, watchdog, pending, cleanup, workers, client, held,
                   commits, over, escaped, faults, timer>>

\* The lease is asked for; the core counts the session from here on.
ArmLocked(s) ==
    /\ at[Arm(s)] = "lock" /\ Holds(Arm(s))
    /\ at' = [NoConsumer(at) EXCEPT ![Arm(s)] = "lease"] /\ queue' = 0
    /\ sid' = s
    /\ renewing' = renewing \cup {s} /\ held' = held \cup {s}
    /\ UNCHANGED <<controller, arming, audio, lock, target, watchdog, pending, cleanup, workers,
                   lost, history, faults, timer>>

LeaseGranted(s) ==
    /\ at[Arm(s)] = "lease"
    /\ at' = [at EXCEPT ![Arm(s)] = "vad"]
    /\ UNCHANGED <<controller, sid, arming, audio, queue, lock, target, watchdog, pending, cleanup,
                   workers, client, held, history, faults, timer>>

\* The core refuses, cannot prepare or is not there.
LeaseRefused(s) ==
    /\ at[Arm(s)] = "lease" /\ Fault("lease")
    /\ at' = [at EXCEPT ![Arm(s)] = "abortFail"] /\ audio' = 0 /\ stream' = 0
    /\ renewing' = renewing \ {s} /\ lost' = lost \ {s} /\ held' \in {held, held \ {s}}
    /\ UNCHANGED <<controller, sid, arming, queue, lock, target, watchdog, pending, cleanup,
                   vad, history, timer>>

\* The VAD is open; activate, up to the recognizer's open.
VadOpened(s) ==
    /\ at[Arm(s)] = "vad" /\ vad' = s
    /\ IF state # "ARMING"
       THEN /\ at' = [at EXCEPT ![Arm(s)] = "abortFail"] /\ audio' = 0 /\ stream' = 0
            /\ UNCHANGED <<controller, over>>
       ELSE IF stream # 0
       THEN at' = [at EXCEPT ![Arm(s)] = "abort"] /\ GoIdle /\ stream' = 0 /\ UNCHANGED audio
       ELSE /\ at' = [at EXCEPT ![Arm(s)] = "open"] /\ stream' = session
            /\ UNCHANGED <<controller, audio, over>>
    /\ UNCHANGED <<sid, arming, queue, lock, target, watchdog, pending, cleanup, client, held,
                   latest, commits, escaped, faults, timer>>

\* The session listens: a consumer, a source and a watchdog start.
Activated(s) ==
    /\ at[Arm(s)] = "open"
    /\ Enter("LISTENING")
    /\ at' = [at EXCEPT ![Arm(s)] = "off", ![Consumer(s)] = "get", ![Watch(s)] = "wait"]
    /\ lock' = RemoveFirst(lock, Arm(s))
    /\ audio' = s /\ watchdog' = s
    /\ UNCHANGED <<sid, arming, queue, target, pending, cleanup, workers, client, held,
                   latest, commits, escaped, faults, timer>>

\* The VAD or the recognizer cannot be opened.
OpenFails(s) ==
    /\ at[Arm(s)] \in {"vad", "open"} /\ Fault("open") /\ stream' = 0
    /\ IF at[Arm(s)] = "open"
       THEN at' = [at EXCEPT ![Arm(s)] = "abort"] /\ GoIdle /\ UNCHANGED audio
       ELSE at' = [at EXCEPT ![Arm(s)] = "abortFail"] /\ audio' = 0 /\ UNCHANGED <<controller, over>>
    /\ UNCHANGED <<sid, arming, queue, lock, target, watchdog, pending, cleanup, vad, client, held,
                   latest, commits, escaped, timer>>

\* A task that gives up has dropped the stream when it began to; it closes
\* the VAD too, and ends the lease.
Aborted(t) ==
    /\ t # Overflow /\ at[t] \in {"abort", "abortFail"}
    /\ vad' = 0
    /\ queue' = IF t \in {Consumer(s) : s \in Sessions} THEN 0 ELSE queue
    /\ ReleaseLease(t, at, lock, "keep", IF at[t] = "abort" THEN "keep" ELSE "fail")
    /\ UNCHANGED <<arming, audio, target, cleanup, stream, held, latest, commits, escaped, faults,
                   timer>>

-----------------------------------------------------------------------------
(* cancel, by a caller or by the watchdog of a lost lease.                  *)

\* Where the handler of _start_prepared catches a cancellation.
Handled == {"lease", "vad", "open", "abort", "ending"}

\* What task.cancel() does to an arming task.
CancelArming(s) ==
    LET t == Arm(s) IN
    /\ IF at[t] \in Handled THEN audio' = 0 /\ stream' = 0 /\ UNCHANGED lock
       ELSE lock' = RemoveFirst(lock, t) /\ UNCHANGED <<audio, stream>>
    /\ IF at[t] = "lease"
       THEN renewing' = renewing \ {s} /\ lost' = lost \ {s} /\ held' \in {held, held \ {s}}
       ELSE UNCHANGED <<client, held>>

AfterCancel(place) == IF place \in Handled THEN "abortFail" ELSE "off"

CancelBegins(t) ==
    /\ IF arming # 0 /\ at[Arm(arming)] # "off"
       THEN /\ CancelArming(arming)
            /\ at' = [at EXCEPT ![Arm(arming)] = AfterCancel(@), ![t] = "await"]
            /\ target' = [target EXCEPT ![t] = arming]
            /\ UNCHANGED arming
       ELSE /\ arming' = 0
            /\ Enqueue(t, "cancel")
            /\ UNCHANGED <<audio, stream, target, client, held>>
    /\ UNCHANGED <<controller, sid, queue, watchdog, pending, cleanup, vad, latest, commits, over,
                   timer>>

Cancel(k) ==
    /\ at[Command(k)] = "off"
    /\ CancelBegins(Command(k))
    /\ escaped' = escaped \cup Known(session)
    /\ UNCHANGED faults

LeaseLost(s) ==
    /\ at[Watch(s)] = "wait" /\ s \in lost
    /\ CancelBegins(Watch(s))
    /\ UNCHANGED <<escaped, faults>>

\* The arming task is gone.
ArmingGone(t) ==
    /\ at[t] = "await" /\ at[Arm(target[t])] = "off"
    /\ arming' = 0 /\ target' = [target EXCEPT ![t] = 0]
    /\ Enqueue(t, "cancel")
    /\ UNCHANGED <<controller, sid, audio, queue, watchdog, pending, cleanup, workers, client, held,
                   history, faults, timer>>

\* _candidate_timer.cancel(), on the tasks as they are in now.
NoTimer(now) == IF timer = 0 THEN now ELSE [now EXCEPT ![Timer(timer)] = "off"]

\* The bug of a cancel that does not stop the source.
CancelLockedHeard(t) ==
    /\ at[t] = "cancel" /\ Holds(t)
    /\ queue' = 0
    /\ at' = [NoConsumer(NoTimer(at)) EXCEPT ![t] = "close"]
    /\ lock' = RemoveFirst(lock, Timer(timer)) /\ timer' = 0
    /\ UNCHANGED <<controller, sid, arming, audio, target, watchdog, pending, cleanup, workers, client,
                   held, history, faults>>

CancelLocked(t) ==
    /\ at[t] = "cancel" /\ Holds(t)
    /\ audio' = 0 /\ queue' = 0
    /\ at' = [NoConsumer(NoTimer(at)) EXCEPT ![t] = "close"]
    /\ lock' = RemoveFirst(lock, Timer(timer)) /\ timer' = 0
    /\ UNCHANGED <<controller, sid, arming, target, watchdog, pending, cleanup, workers, client, held,
                   history, faults>>

Later(t) == IF t \in Watches THEN "fail" ELSE "keep"

\* The VAD is closed; an idle controller has nothing to cancel.
CancelClosed(t) ==
    /\ at[t] = "close" /\ vad' = 0
    /\ IF stream = 0 \/ state = "IDLE"
       THEN ReleaseLease(t, at, lock, IF state = "IDLE" THEN "keep" ELSE "fail", Later(t))
            /\ UNCHANGED stream
       ELSE /\ at' = [at EXCEPT ![t] = "quiet"] /\ stream' = 0
            /\ UNCHANGED <<controller, over, sid, lock, watchdog, pending, client>>
    /\ UNCHANGED <<arming, audio, queue, target, cleanup, held, latest, commits, escaped, faults,
                   timer>>

CancelEnds(t) ==
    /\ \/ at[t] = "quiet" /\ ReleaseLease(t, at, lock, "fail", Later(t))
       \/ at[t] = "halted" /\ ReleaseLease(t, at, lock, "fail", "keep")
       \/ at[t] = "finally" /\ ReleaseLease(t, at, lock, "keep", "keep")
    /\ UNCHANGED <<arming, audio, queue, target, cleanup, workers, held, latest, commits, escaped,
                   faults, timer>>

-----------------------------------------------------------------------------
(* stop, select_candidate and the candidate timer.                          *)

Stop(k) ==
    /\ at[Command(k)] = "off" /\ state # "ARMING"
    /\ Enqueue(Command(k), "stop")
    /\ UNCHANGED <<controller, sid, arming, audio, queue, target, watchdog, pending, cleanup, workers,
                   client, held, history, faults, timer>>

StopLocked(k) ==
    /\ at[Command(k)] = "stop" /\ Holds(Command(k))
    /\ IF state = "IDLE"
       THEN at' = [at EXCEPT ![Command(k)] = "off"] /\ lock' = Tail(lock) /\ UNCHANGED audio
       ELSE at' = [at EXCEPT ![Command(k)] = "drain"] /\ audio' = 0 /\ UNCHANGED lock
    /\ UNCHANGED <<controller, sid, arming, queue, target, watchdog, pending, cleanup, workers, client,
                   held, history, faults, timer>>

\* Every frame is processed, and the consumer ends.
StopDrained(k) ==
    /\ at[Command(k)] = "drain" /\ queue = 0
    /\ \A s \in Sessions : at[Consumer(s)] \in {"off", "get"}
    /\ at' = [NoConsumer(at) EXCEPT ![Command(k)] = "shut"]
    /\ UNCHANGED <<controller, sid, arming, audio, queue, lock, target, watchdog, pending, cleanup,
                   workers, client, held, history, faults, timer>>

\* The VAD is closed; controller.release, up to the final decode.
StopClosed(k) ==
    /\ at[Command(k)] = "shut" /\ vad' = 0
    /\ IF state = "LISTENING"
       THEN Enter("FINALIZING") /\ at' = [at EXCEPT ![Command(k)] = "final"] /\ UNCHANGED stream
       ELSE at' = [at EXCEPT ![Command(k)] = "abortFail"] /\ stream' = 0 /\ UNCHANGED <<controller,
                                                                                        over>>
    /\ UNCHANGED <<sid, arming, audio, queue, lock, target, watchdog, pending, cleanup, client,
                   held, latest, commits, escaped, faults, timer>>

\* A commit is published for the session.
Commit ==
    /\ commits' = [s \in Sessions |-> commits[s] + (IF s = session THEN 1 ELSE 0)]
    /\ UNCHANGED <<latest, escaped>>

\* The text is decoded and the stream is closed: it is committed, or the
\* candidates are shown until one is selected.
Finalized(k) ==
    /\ at[Command(k)] = "final" /\ stream' = 0
    /\ \/ Commit /\ ReleaseLease(Command(k), at, lock, "commit", "keep") /\ UNCHANGED timer
       \/ /\ stream # 0 /\ Enter("CANDIDATE_SELECT")
          /\ at' = [at EXCEPT ![Command(k)] = "off", ![Timer(latest)] = "sleep"]
          /\ lock' = RemoveFirst(lock, Command(k)) /\ timer' = latest
          /\ UNCHANGED <<sid, watchdog, pending, client, latest, commits, escaped>>
    /\ UNCHANGED <<arming, audio, queue, target, cleanup, vad, held, faults>>

\* controller.release fails the session: the decode fails, or what is left of
\* the session has no stream to decode.
FinalizeFails(k) ==
    /\ at[Command(k)] = "final"
    /\ \/ Fault("final")
       \/ stream = 0 /\ UNCHANGED faults
    /\ ReleaseLease(Command(k), at, lock, "fail", "keep")
    /\ UNCHANGED <<arming, audio, queue, target, cleanup, workers, held, latest, commits, escaped,
                   timer>>

Select(k) ==
    /\ at[Command(k)] = "off" /\ state = "CANDIDATE_SELECT"
    /\ Enqueue(Command(k), "select")
    /\ UNCHANGED <<controller, sid, arming, audio, queue, target, watchdog, pending, cleanup, workers,
                   client, held, history, faults, timer>>

\* The wait for a selection is over.
TimerFires(s) ==
    /\ at[Timer(s)] = "sleep"
    /\ Enqueue(Timer(s), "select")
    /\ UNCHANGED <<controller, sid, arming, audio, queue, target, watchdog, pending, cleanup, workers,
                   client, held, history, faults, timer>>

\* A caller's selection stops the timer first, also when there is nothing to
\* select or the index is out of range; the end of any timer clears the
\* reference to the one there is.
Selected(t) ==
    LET byTimer == t \in {Timer(s) : s \in Sessions}
        now == IF byTimer THEN at ELSE NoTimer(at)
        waits == IF byTimer THEN lock ELSE RemoveFirst(lock, Timer(timer))
    IN  /\ at[t] = "select" /\ Holds(t) /\ timer' = 0
        /\ \/ state = "CANDIDATE_SELECT" /\ Commit /\ ReleaseLease(t, now, waits, "commit", "keep")
           \/ /\ state # "CANDIDATE_SELECT" \/ ~byTimer
              /\ at' = [now EXCEPT ![t] = "off"] /\ lock' = RemoveFirst(waits, t)
              /\ UNCHANGED <<controller, sid, watchdog, pending, client, history>>
        /\ UNCHANGED <<arming, audio, queue, target, cleanup, workers, held, faults>>

-----------------------------------------------------------------------------
(* The audio: _enqueue, _consume and _overflow.                             *)

Frame ==
    /\ audio # 0
    /\ IF queue < MaxQueue
       THEN queue' = queue + 1 /\ UNCHANGED <<controller, over, audio, at, stream, faults>>
       ELSE /\ at[Overflow] = "off" /\ Fault("overflow")
            /\ audio' = 0 /\ GoIdle /\ stream' = 0
            /\ at' = [at EXCEPT ![Overflow] = "abort"]
            /\ UNCHANGED queue
    /\ UNCHANGED <<sid, arming, lock, target, watchdog, pending, cleanup, vad, client, held,
                   latest, commits, escaped, timer>>

\* The bug of an overflow that leaves the frames in the queue.
OverflowAbortedUndrained ==
    /\ at[Overflow] = "abort"
    /\ at' = [NoConsumer(at) EXCEPT ![Overflow] = "close"]
    /\ UNCHANGED <<controller, sid, arming, audio, queue, lock, target, watchdog, pending, cleanup,
                   workers,
                   client, held, history, faults, timer>>

\* The stream is closed; the consumer is stopped whatever it does.
OverflowAborted ==
    /\ at[Overflow] = "abort"
    /\ at' = [NoConsumer(at) EXCEPT ![Overflow] = "close"] /\ queue' = 0
    /\ UNCHANGED <<controller, sid, arming, audio, lock, target, watchdog, pending, cleanup, workers,
                   client, held, history, faults, timer>>

OverflowClosed ==
    /\ at[Overflow] = "close" /\ vad' = 0
    /\ ReleaseLease(Overflow, at, lock, "keep", "keep")
    /\ UNCHANGED <<arming, audio, queue, target, cleanup, stream, held, latest, commits, escaped,
                   faults, timer>>

\* A frame fails the session: the microphone, the VAD or the recognizer.
FrameFails(s) ==
    /\ GoIdle /\ audio' = 0 /\ stream' = 0
    /\ at' = [at EXCEPT ![Consumer(s)] = "abort"]

TakeFrame(s) ==
    /\ at[Consumer(s)] = "get" /\ queue > 0
    /\ queue' = queue - 1
    /\ IF vad # 0
       THEN at' = [at EXCEPT ![Consumer(s)] = "voice"] /\ UNCHANGED <<controller, over, audio, stream>>
       ELSE FrameFails(s)
    /\ UNCHANGED <<sid, arming, lock, target, watchdog, pending, cleanup, vad, client, held,
                   latest, commits, escaped, faults, timer>>

\* The VAD has answered; feed, up to the recognizer's push.
Voiced(s) ==
    /\ at[Consumer(s)] = "voice"
    /\ IF state = "LISTENING" /\ stream # 0
       THEN at' = [at EXCEPT ![Consumer(s)] = "feed"] /\ UNCHANGED <<controller, over, audio, stream>>
       ELSE FrameFails(s)
    /\ UNCHANGED <<sid, arming, queue, lock, target, watchdog, pending, cleanup, vad, client, held,
                   latest, commits, escaped, faults, timer>>

\* The recognizer has answered, and the interim text is published.
Fed(s) ==
    /\ at[Consumer(s)] = "feed"
    /\ Enter("LISTENING")
    /\ at' = [at EXCEPT ![Consumer(s)] = "get"]
    /\ UNCHANGED <<sid, arming, audio, queue, lock, target, watchdog, pending, cleanup, workers, client,
                   held, latest, commits, escaped, faults, timer>>

StreamFails(s) ==
    /\ at[Consumer(s)] \in {"voice", "feed"} /\ Fault("stream")
    /\ FrameFails(s)
    /\ UNCHANGED <<sid, arming, queue, lock, target, watchdog, pending, cleanup, vad, client, held,
                   latest, commits, escaped, timer>>

-----------------------------------------------------------------------------
(* The lease at the core: lost renewals, and expiry.                        *)

RenewalFails(s) ==
    /\ s \in renewing /\ Fault("lost")
    /\ renewing' = renewing \ {s} /\ lost' = lost \cup {s}
    /\ held' \in {held, held \ {s}}
    /\ UNCHANGED <<controller, sid, arming, audio, queue, at, lock, target, watchdog, pending, cleanup,
                   workers, history, timer>>

\* _expire_sessions of the core: nobody renews the lease.
Expire(s) ==
    /\ s \in held \ renewing
    /\ held' = held \ {s}
    /\ UNCHANGED <<controller, sid, arming, audio, queue, at, lock, target, watchdog, pending, cleanup,
                   workers, client, history, faults, timer>>

-----------------------------------------------------------------------------
TaskStep(t) ==
    \/ Aborted(t) \/ LeaseEnds(t) \/ (t \in Cancellers /\ ArmingGone(t))
    \/ CancelLocked(t) \/ CancelEnds(t) \/ Selected(t)
    \/ t # Overflow /\ CancelClosed(t)
    \/ t = Overflow /\ (OverflowAborted \/ OverflowClosed)
    \/ \E k \in Callers : t = Command(k)
          /\ (StopLocked(k) \/ StopDrained(k) \/ StopClosed(k) \/ Finalized(k) \/ FinalizeFails(k))
    \/ \E s \in Sessions :
          \/ t = Arm(s) /\ (ArmLocked(s) \/ LeaseGranted(s) \/ LeaseRefused(s) \/ VadOpened(s)
                            \/ Activated(s) \/ OpenFails(s))
          \/ t = Watch(s) /\ LeaseLost(s)
          \/ t = Timer(s) /\ TimerFires(s)
          \/ t = Consumer(s) /\ (TakeFrame(s) \/ Voiced(s) \/ Fed(s) \/ StreamFails(s))

\* The next await of t does not suspend it: the lock is free, or the VAD is
\* closed already.
GoesOn(t) ==
    \/ lock = <<>> /\ lock' = <<t>>
    \/ at'[t] \in {"close", "shut"} /\ vad' = 0

Run(t) ==
    /\ running \in {NoTask, t}
    /\ TaskStep(t) \/ \E k \in Callers : t = Command(k) /\ (Cancel(k) \/ Stop(k) \/ Select(k))
    /\ running' = IF GoesOn(t) THEN t ELSE NoTask

Elsewhere ==
    /\ running = NoTask /\ UNCHANGED running
    /\ \/ Begin
       \/ Frame
       \/ CleanupLeases
       \/ \E s \in Sessions : RenewalFails(s) \/ Expire(s)

Next == Elsewhere \/ \E t \in Tasks : Run(t)

Spec == Init /\ [][Next]_vars

\* Every request is answered or times out, so tasks make progress.
FairSpec ==
    /\ Spec
    /\ \A t \in Tasks : SF_vars(TaskStep(t) /\ Run(t))
    /\ SF_vars(CleanupLeases /\ Elsewhere)
    /\ \A s \in Sessions : SF_vars(Expire(s) /\ Elsewhere)

-----------------------------------------------------------------------------
(* Properties.                                                              *)

\* A session is committed at most once, by its release, the selection of a candidate
\* and the timer together, and never after a cancel or a fault has ended it; its timer
\* and candidates commit nothing in the session after it.
SessionsCommit ==
    /\ [](\A s \in DOMAIN commits : commits[s] <= 1)
    /\ [][\A s \in DOMAIN commits : commits'[s] > commits[s] => s \notin over]_vars

\* Every release, cancel and selection of one session ends, whatever else goes
\* on.  (With a second session the cleanup of an overflow can break it.)
CommandsEnd == \A k \in Callers : at[Command(k)] # "off" ~> at[Command(k)] = "off"

\* No task has anything left to do.
Resting == queue = 0 /\ \A t \in Tasks : at[t] \in {"off", "wait", "get"}

\* Candidates are committed, by a selection or by the timer, or given up.
CandidatesResolve == state = "CANDIDATE_SELECT" ~> state # "CANDIDATE_SELECT"

\* When the daemon rests and has no session, it renews no lease: the GPU goes
\* back to the classroom.
LeaseReturned == Resting /\ state = "IDLE" => renewing = {}

\* When the daemon rests and has no session, the stream and the VAD are closed.
StreamClosed == Resting /\ state = "IDLE" => stream = 0 /\ vad = 0

\* The microphone is heard only under the lease of its own session, as far as
\* the daemon can know.
HeardUnderLease == audio # 0 => sid = audio /\ audio \in renewing \cup lost

\* Who listens is heard: there is a consumer and a session.
ListeningIsHeard ==
    Resting /\ state = "LISTENING" => session # 0 /\ audio = session

\* Esc commits nothing.
EscCommitsNothing ==
    [][\A s \in Sessions : commits'[s] > commits[s] => s \notin escaped]_vars
=============================================================================
