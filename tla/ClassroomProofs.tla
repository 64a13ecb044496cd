-------------------------- MODULE ClassroomProofs --------------------------
(***************************************************************************)
(* What MCClassroom checks of the handlers, the registries and the workers,  *)
(* for every value of the constants.  The invariant is the conjunction of    *)
(* the invariants of JobPartsProofs and WorkersProofs: a step of one part    *)
(* leaves the variables of the others alone, and each part keeps its own     *)
(* invariant.                                                               *)
(***************************************************************************)
EXTENDS MCClassroom, JobPartsProofs, WorkersProofs

RegistriesInv == InstallInv /\ ImportsInv /\ ProfilesInv
WorkersInv == CallsInv /\ EnvironmentsInv

LEMMA InstallStays == InstallInv /\ UNCHANGED installVars => InstallInv'
BY DEF InstallInv, InstallTypeOK, ActiveIsHealthy, KnowsRevision, installVars

LEMMA RegistriesGo == RegistriesInv /\ [ClassroomNext]_classroomVars => RegistriesInv'
<1> SUFFICES ASSUME RegistriesInv, [ClassroomNext]_classroomVars PROVE RegistriesInv'
  OBVIOUS
<1>0. CASE UNCHANGED registryVars
  <2>1. UNCHANGED importVars => [ImportsNext]_importVars
    OBVIOUS
  <2>2. UNCHANGED profileVars => [ProfilesNext]_profileVars
    OBVIOUS
  <2> QED
    BY <1>0, <2>1, <2>2, InstallStays, ImportsGo, ProfilesGo DEF registryVars, RegistriesInv
<1>1. CASE InstallStep
  BY <1>1, InstallGoes, ImportsGo, ProfilesGo DEF InstallStep, RegistriesInv
<1>2. CASE ImportStep
  BY <1>2, InstallStays, ImportsGo, ProfilesGo DEF ImportStep, RegistriesInv
<1>3. CASE ProfileStep
  BY <1>3, InstallStays, ImportsGo, ProfilesGo DEF ProfileStep, RegistriesInv
<1> QED
  BY <1>0, <1>1, <1>2, <1>3
  DEF ClassroomNext, classroomVars, PureStep, HandlerStep, CallStep, EnvironmentStep

\* What a step of the whole is for the handlers and for the workers: one of theirs,
\* or none.
LEMMA StepOfPart ==
    ASSUME [ClassroomNext]_classroomVars
    PROVE  [StagesNext]_stageVars /\ [CallsNext]_callVars /\ [EnvironmentsNext]_environmentVars
BY DEF ClassroomNext, classroomVars, workerVars, PureStep, HandlerStep, InstallStep, ImportStep,
       ProfileStep, CallStep, EnvironmentStep

\* The active revision of a model has files that passed their health check whatever
\* installations, deletions, rollbacks and restarts are interleaved; an item of the
\* browser has one recording and one job whatever answers are lost; a benchmark shown as
\* running is scored, or was one whose failure this process could not store; a profile
\* goes back to the built-in one.
THEOREM RegistriesHold == ClassroomSpec => []RegistriesSound
<1>1. ClassroomInit => RegistriesInv
  BY InstallStarts, ImportsStart, ProfilesStart DEF ClassroomInit, RegistriesInv
<1>2. RegistriesInv => RegistriesSound
  BY ImportsHold, ProfilesHold DEF RegistriesInv, RegistriesSound, InstallInv
<1> QED
  BY <1>1, RegistriesGo, <1>2, PTL DEF ClassroomSpec

\* For every job, and wherever its stages stop and start again: the consensus leaves one
\* primary candidate whose evidence is used, and a language window is asked again of the
\* models that answered it only where that answer was lost before it was kept.
THEOREM EvidenceHolds == ClassroomSpec => []EvidenceKept
<1>1. ClassroomInit => StagesInv
  BY StagesStart DEF ClassroomInit
<1>2. StagesInv /\ [ClassroomNext]_classroomVars => StagesInv'
  BY StepOfPart, StagesGo
<1>3. StagesInv => EvidenceKept
  BY StagesHold DEF EvidenceKept
<1> QED
  BY <1>1, <1>2, <1>3, PTL DEF ClassroomSpec

\* For any number of calls, connections, publishers, processes and directories: one
\* native call at a time, a stream that holds what was neither heard nor lost, a call
\* that was cancelled in time never run, and no environment taken from under a process.
THEOREM WorkersHold == ClassroomSpec => WorkersSound
<1> DEFINE CallsFine == part = "calls" => CallsTypeOK /\ NativeAlone /\ IdsOwned /\ StreamWhole /\ NothingHalfMade
           EnvironmentsFine ==
               part = "environments" => EnvironmentTypeOK /\ LiveEnvironmentStays /\ PublishedOnce /\ PinsEnd
           StaysOutNext == \A s \in Slots : call[s].task = "cancelling" => s \notin Native'
<1>1. ClassroomInit => WorkersInv
  BY CallsStart, EnvironmentsStart DEF ClassroomInit, WorkersInv
<1>2. WorkersInv /\ [ClassroomNext]_classroomVars => WorkersInv'
  BY StepOfPart, CallsGo, EnvironmentsGo DEF WorkersInv
<1>3. WorkersInv => CallsFine /\ EnvironmentsFine
  BY CallsHold, EnvironmentsHold DEF WorkersInv
<1>4. WorkersInv /\ [ClassroomNext]_classroomVars => [StaysOutNext]_callVars
  BY StepOfPart, StaysOut DEF WorkersInv
<1> HIDE DEF CallsFine, EnvironmentsFine, StaysOutNext
<1>5. ClassroomSpec => []CallsFine /\ []EnvironmentsFine /\ [][StaysOutNext]_callVars
  BY <1>1, <1>2, <1>3, <1>4, PTL DEF ClassroomSpec
<1> QED
  BY <1>5, PTL DEF WorkersSound, CancelledStaysOut, CallsFine, EnvironmentsFine, StaysOutNext
=============================================================================
