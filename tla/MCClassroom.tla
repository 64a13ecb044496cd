---------------------------- MODULE MCClassroom ----------------------------
(***************************************************************************)
(* One run for what a classroom job is made of: the pure stages of MCStages, *)
(* the handlers that read and commit around them, the workers they call with *)
(* the environments those run from, and the registries they start from,      *)
(* the imports of the browser, the installed models and the profiles.        *)
(* `part' says which of them a behavior is about; the variables of the       *)
(* others keep their initial values.                                         *)
(***************************************************************************)
EXTENDS ClassroomStages, ModelInstall, BatchImports, Profiles, WorkerCalls, WorkerEnvironments

VARIABLES part, stage, input, output, done
Pure == INSTANCE MCStages
pureVars == <<stage, input, output, done>>
registryVars == <<installVars, importVars, profileVars>>
workerVars == <<callVars, environmentVars>>

-----------------------------------------------------------------------------
(* Constants.                                                               *)

\* A job that compares three models over a segment that is retried, and a job that
\* runs one model over a language stage that loses an answer.
TwoJobs ==
    {[ranking |-> <<"m1", "m2", "m3">>, windows |-> {1}, strict |-> FALSE,
      candidates |-> 4, edits |-> 2, losses |-> 0],
     [ranking |-> <<"m1", "m2">>, windows |-> {1, 2}, strict |-> TRUE,
      candidates |-> 2, edits |-> 1, losses |-> 2]}
ModelNames == {"m1", "m2"}
Rankings == {<<"m2">>, <<"m2", "m1">>}
RegistryOrder == <<"m1", "m2">>

-----------------------------------------------------------------------------
ClassroomInit ==
    /\ part \in {"pure", "stages", "install", "imports", "profiles", "calls", "environments"}
    /\ StagesInit /\ InstallInit /\ ImportsInit /\ ProfilesInit /\ CallsInit /\ EnvironmentsInit
    /\ part # "stages" => master = "none" /\ ~Strict
    /\ part # "profiles" => \A r \in Benchmarks : runs[r] = Unused
    /\ part # "calls" => family = "asr"
    /\ IF part = "pure" THEN Pure!Init ELSE stage = "none" /\ input = 0 /\ output = 0 /\ done = FALSE

PureStep == part = "pure" /\ Pure!Next /\ UNCHANGED <<part, stageVars, registryVars, workerVars>>
HandlerStep ==
    part = "stages" /\ StagesNext /\ UNCHANGED <<part, pureVars, registryVars, workerVars>>
InstallStep ==
    /\ part = "install" /\ InstallNext
    /\ UNCHANGED <<part, pureVars, stageVars, importVars, profileVars, workerVars>>
ImportStep ==
    /\ part = "imports" /\ ImportsNext
    /\ UNCHANGED <<part, pureVars, stageVars, installVars, profileVars, workerVars>>
ProfileStep ==
    /\ part = "profiles" /\ ProfilesNext
    /\ UNCHANGED <<part, pureVars, stageVars, installVars, importVars, workerVars>>
CallStep ==
    /\ part = "calls" /\ CallsNext
    /\ UNCHANGED <<part, pureVars, stageVars, registryVars, environmentVars>>
EnvironmentStep ==
    /\ part = "environments" /\ EnvironmentsNext
    /\ UNCHANGED <<part, pureVars, stageVars, registryVars, callVars>>

ClassroomNext ==
    \/ PureStep \/ HandlerStep \/ InstallStep \/ ImportStep \/ ProfileStep
    \/ CallStep \/ EnvironmentStep
classroomVars == <<part, pureVars, stageVars, registryVars, workerVars>>
ClassroomSpec == ClassroomInit /\ [][ClassroomNext]_classroomVars

-----------------------------------------------------------------------------
\* The text the consensus leaves never mixes evidence about two primary candidates,
\* and a language window is asked again only after its answer was lost or of a release.
EvidenceKept == part = "stages" => StagesTypeOK /\ OnePrimary /\ AskedOnce

\* What outlives crashes, stops and lost answers is single and whole: the active
\* revision of a model, the recording and the job of an import, the way back from the
\* profile of a scenario to the list of the registry, the task of a run that is scored.
RegistriesSound ==
    /\ part = "install" => InstallTypeOK /\ ActiveIsHealthy
    /\ part = "imports" => ImportTypeOK /\ OneJobEach /\ DoneIsSubmitted
    /\ part = "profiles" => ProfilesTypeOK /\ BootstrapReachable /\ NoPhantomRun

\* A worker runs one native call at a time and its stream holds what was neither heard
\* nor lost, whatever is cancelled; and its process runs from an environment that no
\* repair or cleanup takes away.
WorkersSound ==
    /\ [](part = "calls" =>
              CallsTypeOK /\ NativeAlone /\ IdsOwned /\ StreamWhole /\ NothingHalfMade)
    /\ [](part = "environments" =>
              EnvironmentTypeOK /\ LiveEnvironmentStays /\ PublishedOnce /\ PinsEnd)
    /\ CancelledStaysOut

\* What is heard and what is made of it: the audio stages with the structure, the
\* recognition, the consensus, and the final text with its exports.
HearingSound == Pure!AudioSound /\ Pure!StructureSound /\ Pure!RecognitionSound
ConsensusSound == Pure!ConsensusSound
WritingSound == Pure!FinalSound /\ Pure!ExportsSound
=============================================================================
