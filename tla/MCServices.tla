----------------------------- MODULE MCServices -----------------------------
(***************************************************************************)
(* One run for the servers between the classroom and dictation: the lease    *)
(* server with its client, the resident workers, which it calls in the order *)
(* of GpuHandover, the model processes of classroom jobs, which both wait    *)
(* for, and the lease manager with the recovery from a full GPU.  `part'     *)
(* says which of them a behavior is about; the variables of the others keep  *)
(* their initial values.                                                     *)
(***************************************************************************)
EXTENDS LeaseServer, ResidentWorkers, ModelSessions, GpuScheduler

VARIABLE part

schedulerVars == <<managerVars, recoveryVars>>
servicesVars == <<part, leaseVars, residentVars, sessionVars, schedulerVars>>

\* Two classroom tasks of the same priority, one of a lower one, and dictation.
Ranks == [d |-> 0, p |-> 20, q |-> 20, r |-> 30]
SmallerModels == <<"small">>
VerifiedDtypes == <<"bfloat16", "float16">>
VerifiedQuantizations == <<"int8">>

ServicesInit ==
    /\ part \in {"lease", "resident", "lane", "scheduler", "recovery"}
    /\ Init /\ ResidentInit /\ SessionsInit /\ ManagerInit /\ AttemptInit
    /\ part # "recovery" => attempt = CHOOSE a \in Attempts : TRUE
LeaseStep(A) == part = "lease" /\ A /\ UNCHANGED <<part, residentVars, sessionVars, schedulerVars>>
ResidentStep(A) == part = "resident" /\ A /\ UNCHANGED <<part, leaseVars, sessionVars, schedulerVars>>
LaneStep(A) == part = "lane" /\ A /\ UNCHANGED <<part, leaseVars, residentVars, schedulerVars>>
SchedulerStep ==
    /\ \/ part = "scheduler" /\ ManagerNext /\ UNCHANGED recoveryVars
       \/ part = "recovery" /\ AttemptNext /\ UNCHANGED managerVars
    /\ UNCHANGED <<part, leaseVars, residentVars, sessionVars>>
ServicesNext ==
    \/ LeaseStep(Next) \/ ResidentStep(ResidentNext) \/ LaneStep(SessionsNext)
    \/ SchedulerStep

\* The fairness of the modules: a task that can go on does.
ServicesSpec ==
    /\ ServicesInit /\ [][ServicesNext]_servicesVars
    /\ WF_servicesVars(LeaseStep(Progress)) /\ WF_servicesVars(ResidentStep(Work))
    /\ \A j \in Local \cup Online : WF_servicesVars(LaneStep(Gives(j)))

-----------------------------------------------------------------------------
\* Waits that end whatever fails on the way: a lease nobody needs is given back,
\* a daemon notices its lost lease, a preparation and a suspension return, and no
\* classroom model keeps a dictation waiting.
ServicesSettle ==
    /\ LeaseComesBack /\ LossIsNoticed
    /\ PreparationEnds /\ SuspensionEnds
    /\ DictationIsServed

\* The flags of the servers agree with the tasks they speak of: the sessions with their
\* count, deadlines and ends.  The lease manager lets the GPU stand idle only for
\* dictation, which classroom work was asked to make room for, and leases it in turn; a
\* full GPU is not tried with the same parameters.
ServersConsistent ==
    /\ [](/\ TypeOK /\ SessionsCanExpire /\ CountedOnce /\ EndIsFinal /\ ResidentTypeOK
          /\ ManagerTypeOK /\ GpuNotIdle /\ DictationAsked /\ NeverTheSame)
    /\ InTurn
=============================================================================
