---------------------------- MODULE MCDictation ----------------------------
(***************************************************************************)
(* Two instances of the daemon in one run: one session with commands from   *)
(* two connections and every fault, and two sessions of one connection with *)
(* the faults of the lease, of the opening of the workers and of the end.   *)
(***************************************************************************)
EXTENDS DictationService

VARIABLE part

Two == INSTANCE DictationService WITH
    MaxSessions <- 2, Callers <- {1}, Faults <- {"lease", "open", "lost", "end"}

DictationInit == \/ part = "one" /\ Init
                 \/ part = "two" /\ Two!Init
One(A) == part = "one" /\ A /\ UNCHANGED part
DictationNext == One(Next) \/ (part = "two" /\ Two!Next /\ UNCHANGED part)

dictationVars == <<part, vars>>

\* The fairness of DictationService for the first instance.
DictationSpec ==
    /\ DictationInit /\ [][DictationNext]_dictationVars
    /\ \A t \in Tasks : SF_dictationVars(One(TaskStep(t) /\ Run(t)))
    /\ SF_dictationVars(One(CleanupLeases /\ Elsewhere))
    /\ \A s \in Sessions : SF_dictationVars(One(Expire(s) /\ Elsewhere))

-----------------------------------------------------------------------------
\* Every release, cancel and selection of one session ends, whatever else goes on.
CommandsReturn ==
    \A k \in Callers :
        (part = "one" /\ at[Command(k)] # "off") ~> (part = "one" => at[Command(k)] = "off")

\* Of two sessions (with a third both properties fail, see the README): when the daemon
\* rests and has no session, the stream and the VAD are closed, and it
\* renews no lease, its own or the last session's: the GPU goes back to the classroom.
RestsEmpty == part = "two" => Two!LeaseReturned /\ Two!StreamClosed

\* Of two sessions: the microphone is heard only under the lease of its own session, and who listens is
\* heard: there is a consumer and a session.
MicrophoneKept == part = "two" => Two!HeardUnderLease /\ Two!ListeningIsHeard
=============================================================================
