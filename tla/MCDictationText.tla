--------------------------- MODULE MCDictationText ---------------------------
(***************************************************************************)
(* One run for what the user gets of a dictation: how what is said becomes   *)
(* text (DictationText), and what the engines of the input method show and   *)
(* write of it (IBusEngine).  `part' says which of them a behavior is about; *)
(* the variables of the other keep their initial values.                     *)
(***************************************************************************)
EXTENDS DictationText, IBusEngine

VARIABLE part
writingVars == <<part, textVars, ibusVars>>

WritingInit ==
    /\ part \in {"text", "engine"} /\ TextInit /\ IBusInit
    /\ part = "engine" => family = "qwen" /\ mode = "fast"
TextStep == part = "text" /\ TextNext /\ UNCHANGED <<part, ibusVars>>
EngineStep(A) == part = "engine" /\ A /\ UNCHANGED <<part, textVars>>
WritingNext == TextStep \/ EngineStep(IBusNext)

\* The fairness of IBusEngine: the engine with the focus polls.
WritingSpec == WritingInit /\ [][WritingNext]_writingVars /\ WF_writingVars(EngineStep(Polls))

-----------------------------------------------------------------------------
\* The chunks tile the session, nothing that was sent is taken back or sent again, and
\* what was said is written once and in order, with the exceptions SpokenOnce names.
TextKept == ChunksTile /\ DecodedWithin /\ PrefixOnce /\ SpokenOnce

\* A text is written once and in order, only to a window that has had the focus since
\* its session was armed, and a window without the focus shows nothing of it.
WrittenToFocus == [](IBusTypeOK /\ WrittenOnce /\ OnlyFocusShows) /\ WrittenToOwner
=============================================================================
