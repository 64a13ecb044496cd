----------------------------- MODULE IBusEngine -----------------------------
(***************************************************************************)
(* What the user sees of dictation: the engines of the input method, one for *)
(* each input context and all in one process, the global shortcut, and the   *)
(* events of the daemon that an engine polls for while it has the focus.     *)
(* Sessions are begun, heard and ended by the daemon (DictationService); of   *)
(* that, only what it publishes is here.  An engine waits for the answer of   *)
(* each request; one that takes too long is given up, and done all the same.  *)
(***************************************************************************)
EXTENDS Naturals, Sequences, FiniteSets, SequencesExt, FiniteSetsExt

CONSTANTS Engines,
          MaxSessions, MaxEvents,   \* bounds of the daemon
          MaxMoves,                 \* changes of the focus
          MaxMishaps                \* requests that take too long, and restarts of the daemon

ASSUME EnginesAssumption == "nobody" \notin Engines

VARIABLES
    daemon,     \* its instance, session and events, an event's place being its revision; and how
                \* many events there were before, for the bound
    late,       \* actions that were given up and are done later
    asked,      \* the request under way: by whom, for what
    engine,     \* of each engine: what EngineController keeps, and what it shows
    focus,      \* the engine that has the focus
    held,       \* history: of each session, who has had the focus since it was armed
    written,    \* history: the events committed, <<instance, revision, engine>>
    left
ibusVars == <<daemon, late, asked, engine, focus, held, written, left>>

Nobody == "nobody"
NoSession == 0
Nothing == [by |-> Nobody, at |-> "none", action |-> "none"]
Event(state, session, text) == [state |-> state, session |-> session, text |-> text]
NewEngine == [subscribed |-> FALSE, instance |-> 0, revision |-> 0, session |-> NoSession, state |-> "idle",
              preedit |-> FALSE, lookup |-> FALSE]

IBusInit ==
    /\ daemon = [instance |-> 1, before |-> 0, session |-> NoSession, events |-> <<Event("idle", NoSession, FALSE)>>]
    /\ late = {} /\ asked = Nothing
    /\ engine = [e \in Engines |-> NewEngine] /\ focus = Nobody
    /\ held = <<>> /\ written = <<>>
    /\ left = [moves |-> MaxMoves, mishaps |-> MaxMishaps]

Spend(what) == left[what] > 0 /\ left' = [left EXCEPT ![what] = @ - 1]
Current == Last(daemon.events)
Revision == Len(daemon.events)
Room(n) == daemon.before + Revision + n <= MaxEvents

-----------------------------------------------------------------------------
(* The daemon.  Published holds its events after an action.                 *)

\* The events by which a session goes on by itself.
Listen == \E text \in BOOLEAN :
    /\ Room(1)
    /\ \/ Current.state = "arming" /\ ~text /\ daemon' = [daemon EXCEPT !.events = Append(@, Event("listening", daemon.session, FALSE))]
       \/ Current.state \in {"listening", "interim"} /\
          daemon' = [daemon EXCEPT !.events = Append(@, Event("interim", daemon.session, text))]
SessionFails ==
    /\ Room(2) /\ Current.state # "idle"
    /\ daemon' = [daemon EXCEPT !.session = NoSession,
                     !.events = @ \o <<Event("error", daemon.session, FALSE), Event("idle", NoSession, FALSE)>>]

\* _commit: the text, then the end.
Ended(d) == [d EXCEPT !.session = NoSession,
                !.events = @ \o <<Event("committing", d.session, TRUE), Event("idle", NoSession, FALSE)>>]
Started(d) == [d EXCEPT !.session = Len(held) + 1, !.events = Append(@, Event("arming", Len(held) + 1, FALSE))]
Cancelled(d) == [d EXCEPT !.session = NoSession, !.events = Append(@, Event("idle", NoSession, FALSE))]
Offered(d) == [d EXCEPT !.events = Append(@, Event("candidates", d.session, FALSE))]

\* What an action of _dispatch may leave behind, with the states it is for.
Idle == Current.state = "idle"
Done(action) ==
    CASE action = "begin" -> IF Idle THEN {Started(daemon)} ELSE {daemon}
      [] action = "cancel" -> IF Idle THEN {daemon} ELSE {Cancelled(daemon)}
      [] action = "release" ->
           CASE Idle -> {daemon}
             [] Current.state = "arming" -> {Cancelled(daemon)}
             [] Current.state \in {"listening", "interim"} -> {Ended(daemon), Offered(daemon)}
             [] OTHER -> {daemon}
      [] action = "select" -> IF Current.state = "candidates" THEN {Ended(daemon)} ELSE {daemon}
      [] OTHER -> {daemon}
\* Beyond the bounds an action does nothing.
Bounded(ds) == {d \in ds : d.before + Len(d.events) <= MaxEvents /\ d.session <= MaxSessions}
Perform(action) ==
    \E d \in IF Bounded(Done(action)) = {} THEN {daemon} ELSE Bounded(Done(action)) :
        /\ daemon' = d
        /\ held' = IF d.session > Len(held) THEN Append(held, {focus}) ELSE held

\* The timer of the candidates, the global shortcut, and what was given up.
Elsewhere ==
    /\ \/ \E action \in {"begin", "release"} : Perform(action) /\ UNCHANGED late
       \/ Current.state = "candidates" /\ Perform("select") /\ UNCHANGED late
       \/ \E action \in late : Perform(action) /\ late' = late \ {action}
    /\ UNCHANGED <<asked, engine, focus, written, left>>
Speaks == (Listen \/ SessionFails) /\ UNCHANGED <<late, asked, engine, focus, held, written, left>>
Restart ==
    /\ Spend("mishaps") /\ late' = {}
    /\ daemon' = [instance |-> daemon.instance + 1, session |-> NoSession, before |-> daemon.before + Revision,
                  events |-> <<Event("idle", NoSession, FALSE)>>]
    /\ UNCHANGED <<asked, engine, focus, held, written>>

-----------------------------------------------------------------------------
(* The engine.                                                              *)

\* _synchronize: what is over is not repeated.
Synchronized(c) ==
    [c EXCEPT !.subscribed = TRUE, !.instance = daemon.instance, !.revision = Revision,
              !.state = Current.state, !.session = NoSession, !.preedit = FALSE, !.lookup = FALSE]

\* _apply of the events after the revision of the engine.  The session it owns from an
\* event on: the one that was armed last under its focus, until an end.
New(c, d) == (c.revision + 1)..Len(d.events)
Owned(c, d, i, focused) ==
    LET marks == {k \in New(c, d) : /\ k <= i
                                    /\ d.events[k].state \in {"error", "idle"} \/ (focused /\ d.events[k].state = "arming")}
    IN IF marks = {} THEN c.session
       ELSE IF d.events[Max(marks)].state = "arming" THEN d.events[Max(marks)].session ELSE NoSession
Owns(c, d, i, focused) ==
    focused /\ d.events[i].session # NoSession /\ Owned(c, d, i, focused) = d.events[i].session

\* Mutant: a cancelled session leaves what is shown.
ShownTillCommit(c, d, focused, before, states) ==
    LET shows(i) == d.events[i].state \in states /\ Owns(c, d, i, focused)
        marks == {i \in New(c, d) : shows(i) \/ d.events[i].state \in {"error", "committing"}}
    IN IF marks = {} THEN before ELSE shows(Max(marks))

\* Whether something is shown after the events: what shows it, and what ends it.
Shown(c, d, focused, before, states) ==
    LET shows(i) == d.events[i].state \in states /\ Owns(c, d, i, focused)
        marks == {i \in New(c, d) : shows(i) \/ d.events[i].state \in {"error", "committing", "idle"}}
    IN IF marks = {} THEN before ELSE shows(Max(marks))

Heard(c, d, focused) ==
    [c EXCEPT !.revision = Len(d.events), !.session = Owned(c, d, Len(d.events), focused),
              !.state = IF New(c, d) = {} THEN @ ELSE Last(d.events).state,
              !.preedit = Shown(c, d, focused, @, {"listening", "interim"}),
              !.lookup = Shown(c, d, focused, @, {"candidates"})]
Ascending(S) == CHOOSE s \in [1..Cardinality(S) -> S] : \A i, j \in DOMAIN s : i < j => s[i] < s[j]
Texts(e, c, d, focused) ==
    LET commits(i) == d.events[i].text /\ Owns(c, d, i, focused)
    IN [n \in 1..Cardinality({i \in New(c, d) : commits(i)}) |->
            <<d.instance, Ascending({i \in New(c, d) : commits(i)})[n], e>>]

Answered == asked' = Nothing
Asks(e, action) ==
    asked' = [by |-> e, action |-> action,
              at |-> IF ~engine[e].subscribed \/ action = "begin" THEN "snapshot" ELSE "action"]

\* The snapshot before a command.
Snapshot ==
    /\ asked.at = "snapshot"
    /\ LET c == engine[asked.by] IN
       engine' = IF ~c.subscribed \/ c.instance # daemon.instance
                 THEN [engine EXCEPT ![asked.by] = Synchronized(c)] ELSE engine
    /\ asked' = [asked EXCEPT !.at = "action"]
    /\ UNCHANGED <<daemon, late, focus, held, written, left>>

\* The command itself, with the events it caused and those before it.
Command ==
    /\ asked.at = "action"
    /\ Perform(asked.action)
    /\ LET c == engine[asked.by] focused == focus = asked.by IN
       IF c.instance = daemon.instance
       THEN /\ engine' = [engine EXCEPT ![asked.by] = Heard(c, daemon', focused)]
            /\ written' = written \o Texts(asked.by, c, daemon', focused)
       ELSE /\ engine' = [engine EXCEPT ![asked.by] =
                   [c EXCEPT !.subscribed = TRUE, !.instance = daemon.instance,
                             !.revision = Len(daemon'.events), !.state = Last(daemon'.events).state,
                             !.session = NoSession, !.preedit = FALSE, !.lookup = FALSE]]
            /\ UNCHANGED written
    /\ Answered /\ UNCHANGED <<late, focus, left>>

\* No answer in time: the action is done later, unless it only asked.
GivenUp(c) == [c EXCEPT !.state = "idle", !.preedit = FALSE, !.lookup = FALSE]
TooLate ==
    /\ asked # Nothing /\ Spend("mishaps")
    /\ engine' = [engine EXCEPT ![asked.by] = GivenUp(@)]
    /\ late' = IF asked.at = "action" /\ asked.action # "status" THEN late \cup {asked.action} ELSE late
    /\ Answered /\ UNCHANGED <<daemon, focus, held, written>>

Free == asked = Nothing
Poll(e) ==
    /\ Free /\ focus = e /\ Asks(e, "status")
    /\ UNCHANGED <<daemon, late, engine, focus, held, written, left>>

\* Keys: F9 down and up (as a switch it is the one of the two that does something),
\* Escape, and the number of a candidate.
Key(e) ==
    /\ Free /\ focus = e
    /\ \/ Asks(e, "begin") \/ Asks(e, "release")
       \/ engine[e].state # "idle" /\ Asks(e, "cancel")
       \/ engine[e].state = "candidates" /\ Asks(e, "select")
    /\ UNCHANGED <<daemon, late, engine, focus, held, written, left>>

\* The focus leaves: a session of the engine is cancelled.  What the cancel answers is
\* applied without the focus, and then nothing is shown.
Blurred(c) == [c EXCEPT !.subscribed = FALSE, !.session = NoSession, !.preedit = FALSE,
                        !.lookup = FALSE]
FocusOut(e) ==
    /\ Free /\ focus = e /\ focus' = Nobody
    /\ engine' = [engine EXCEPT ![e] = Blurred(@)]
    /\ late' = IF engine[e].session # NoSession THEN late \cup {"cancel"} ELSE late
    /\ held' = [s \in DOMAIN held |-> held[s] \ {e}]
    /\ UNCHANGED <<daemon, asked, written, left>>

\* Mutant: an engine that has the focus again hears all it missed.
EnteredSubscribed(c) == [c EXCEPT !.subscribed = (@ \/ c.revision > 0)]

Entered(c) == [c EXCEPT !.subscribed = FALSE, !.session = NoSession]
FocusIn(e) ==
    /\ Free /\ focus = Nobody /\ Spend("moves") /\ focus' = e
    /\ engine' = [engine EXCEPT ![e] = Entered(@)]
    /\ asked' = [by |-> e, action |-> "status", at |-> IF engine'[e].subscribed THEN "action" ELSE "snapshot"]
    /\ UNCHANGED <<daemon, late, held, written>>

EngineSteps == Snapshot \/ Command \/ TooLate \/ \E e \in Engines : Poll(e) \/ Key(e) \/ FocusOut(e) \/ FocusIn(e)
IBusNext == Elsewhere \/ Speaks \/ Restart \/ EngineSteps
IBusSpec == IBusInit /\ [][IBusNext]_ibusVars

\* An engine with the focus polls, and its requests are answered.
Polls == Snapshot \/ Command \/ \E e \in Engines : Poll(e)
IBusFairness == WF_ibusVars(Polls)

-----------------------------------------------------------------------------
(* Properties.                                                              *)

EventStates == {"idle", "arming", "listening", "interim", "candidates", "committing", "error"}
EventRow == [state : EventStates, session : Nat, text : BOOLEAN]
EngineRow == [subscribed : BOOLEAN, instance : Nat, revision : Nat, session : Nat, state : EventStates,
              preedit : BOOLEAN, lookup : BOOLEAN]
Owners == Engines \cup {Nobody}
Actions == {"begin", "cancel", "release", "select", "status"}

IBusTypeOK ==
    /\ daemon \in [instance : Nat, before : Nat, session : Nat, events : Seq(EventRow)]
    /\ daemon.events # <<>> /\ daemon.session <= Len(held)
    /\ engine \in [Engines -> EngineRow] /\ focus \in Owners
    /\ asked = Nothing \/ asked \in [by : {focus} \cap Engines, at : {"snapshot", "action"}, action : Actions]
    /\ held \in Seq(SUBSET Owners) /\ written \in Seq(Nat \X Nat \X Engines)

\* Text is committed once, in order, and only to the window that has had the focus
\* since the session was armed, whatever moves, restarts and late answers there are
\* (controller.py:107-124, 163-222).
WrittenOnce == \A i, j \in DOMAIN written : i < j =>
    \/ written[i][1] < written[j][1]
    \/ written[i][1] = written[j][1] /\ written[i][2] < written[j][2]
WrittenToOwner ==
    [][\A i \in (Len(written) + 1)..Len(written') :
        LET w == written'[i] IN w[3] \in held'[daemon'.events[w[2]].session]]_ibusVars

\* A window without the focus shows nothing, and owns no session.
OnlyFocusShows == \A e \in Engines \ {focus} :
    ~engine[e].preedit /\ ~engine[e].lookup /\ engine[e].session = NoSession

\* What is shown of a session disappears with it.
ShownEnds == \A e \in Engines :
    (engine[e].preedit /\ Idle /\ focus = e) ~> (~engine[e].preedit \/ ~Idle \/ focus # e)
=============================================================================
