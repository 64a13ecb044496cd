---------------------------- MODULE GpuScheduler ----------------------------
(***************************************************************************)
(* The lease manager of one GPU and the recovery from a full one            *)
(* (scheduler/gpu.py).  Every method of the manager runs without an await    *)
(* under its lock, so a method is one step; a task that was granted a lease  *)
(* resumes later.  What a lease says of the resident model is left out.      *)
(***************************************************************************)
EXTENDS Naturals, Sequences, FiniteSets, SequencesExt

CONSTANTS Claimants, Rank,         \* tasks that want the GPU and their Priority
          Smaller, Dtypes,         \* smaller_models and verified_dtypes
          Quantizations, MinWindow,
          MaxBegun, MaxAcquires, MaxMishaps

Nobody == "nobody"
Lost == "lost"    \* owned by a request that is gone

ASSUME ManagerAssumption ==
    /\ Rank \in [Claimants -> Nat] /\ Claimants \cap {Nobody, Lost} = {}
    /\ MinWindow \in Nat \ {0}
    /\ MaxBegun \in Nat /\ MaxAcquires \in Nat /\ MaxMishaps \in Nat

VARIABLES
    owner,       \* _owner
    waiting,     \* _waiters with a pending future, in the order they came
    stage,       \* what each task does
    dictations,  \* _dictation_sessions
    preempt,     \* _preempt_requested
    allowance,   \* acquisitions and mishaps left
    attempt,     \* what run_with_oom_recovery tries
    seen,        \* fingerprints of the attempts before it
    outcome

managerVars == <<owner, waiting, stage, dictations, preempt, allowance>>
recoveryVars == <<attempt, seen, outcome>>

ClassroomPrimary == 20
Classroom(t) == t \in Claimants /\ Rank[t] >= ClassroomPrimary

ManagerTypeOK ==
    /\ owner \in Claimants \cup {Nobody, Lost} /\ waiting \in Seq(Claimants) /\ dictations \in 0..MaxBegun
    /\ stage \in [Claimants -> {"out", "waiting", "granted", "holding"}] /\ preempt \in BOOLEAN
    /\ \A t \in Claimants : (stage[t] = "waiting") = (t \in ToSet(waiting))
    /\ \A t \in Claimants : stage[t] \in {"granted", "holding"} => owner = t

ManagerInit ==
    /\ owner = Nobody /\ waiting = <<>> /\ stage = [t \in Claimants |-> "out"]
    /\ dictations = 0 /\ preempt = FALSE
    /\ allowance = [acquires |-> MaxAcquires, mishaps |-> MaxMishaps]

-----------------------------------------------------------------------------
\* _dispatch_locked: the first of the most urgent waiters, but no classroom work
\* beside dictation.
Eligible(queue, n) == {i \in DOMAIN queue : n = 0 \/ ~Classroom(queue[i])}
Before(queue, i, j) == Rank[queue[i]] < Rank[queue[j]] \/ (Rank[queue[i]] = Rank[queue[j]] /\ i <= j)
Dispatch(queue, places, n) ==
    IF Eligible(queue, n) = {}
    THEN owner' = Nobody /\ waiting' = queue /\ stage' = places
    ELSE LET i == CHOOSE i \in Eligible(queue, n) : \A j \in Eligible(queue, n) : Before(queue, i, j)
         IN  /\ owner' = queue[i] /\ waiting' = RemoveAt(queue, i)
             /\ stage' = [places EXCEPT ![queue[i]] = "granted"]
DispatchIfFree(queue, places, n) ==
    IF owner = Nobody THEN Dispatch(queue, places, n)
    ELSE UNCHANGED owner /\ waiting' = queue /\ stage' = places

Acquire(t) ==
    /\ stage[t] = "out" /\ allowance.acquires > 0
    /\ DispatchIfFree(Append(waiting, t), [stage EXCEPT ![t] = "waiting"], dictations)
    /\ allowance' = [allowance EXCEPT !.acquires = @ - 1]
    /\ UNCHANGED <<dictations, preempt>>
Resume(t) ==
    /\ stage[t] = "granted" /\ stage' = [stage EXCEPT ![t] = "holding"]
    /\ UNCHANGED <<owner, waiting, dictations, preempt, allowance>>

\* A timeout or cancellation of acquire: the waiter goes. A future that has its
\* result cannot be cancelled, and then nobody holds the lease it carries.
Abandon(t) ==
    /\ stage[t] \in {"waiting", "granted"} /\ allowance.mishaps > 0
    /\ allowance' = [allowance EXCEPT !.mishaps = @ - 1]
    /\ IF stage[t] = "waiting"
       THEN \E i \in DOMAIN waiting :
              waiting[i] = t /\ DispatchIfFree(RemoveAt(waiting, i), [stage EXCEPT ![t] = "out"], dictations)
       ELSE owner' = Lost /\ stage' = [stage EXCEPT ![t] = "out"] /\ UNCHANGED waiting
    /\ UNCHANGED <<dictations, preempt>>

Leave(t) == preempt' = FALSE /\ Dispatch(waiting, [stage EXCEPT ![t] = "out"], dictations)
ReleaseLease(t) == stage[t] = "holding" /\ Leave(t) /\ UNCHANGED <<dictations, allowance>>

\* segment_boundary: classroom work makes room for dictation and urgent waiters.
ShouldYield(t) ==
    Classroom(t) /\ (preempt \/ \E i \in DOMAIN waiting : Rank[waiting[i]] < Rank[t])
SegmentBoundary(t) ==
    stage[t] = "holding" /\ ShouldYield(t) /\ Leave(t) /\ UNCHANGED <<dictations, allowance>>

DictationBegins ==
    /\ dictations < MaxBegun /\ dictations' = dictations + 1
    /\ preempt' = (preempt \/ Classroom(owner))
    /\ UNCHANGED <<owner, waiting, stage, allowance>>
DictationEnds ==
    /\ dictations > 0 /\ dictations' = dictations - 1
    /\ IF dictations = 1 THEN DispatchIfFree(waiting, stage, 0) ELSE UNCHANGED <<owner, waiting, stage>>
    /\ UNCHANGED <<preempt, allowance>>

ManagerNext ==
    \/ DictationBegins \/ DictationEnds
    \/ \E t \in Claimants : Acquire(t) \/ Resume(t) \/ Abandon(t) \/ ReleaseLease(t) \/ SegmentBoundary(t)
ManagerSpec == ManagerInit /\ [][ManagerNext]_managerVars

-----------------------------------------------------------------------------
\* The steps of RecoveryStep come in this order; `steps' counts those completed.
Attempts ==
    [model : {"large", "small"}, batch : {1, 8}, window : {MinWindow, 4 * MinWindow},
     attention : {"eager", "sdpa"}, dtype : {"float32", "float16"}, quantization : {"none"},
     cleanups : {0}, steps : {0}]
Fingerprint(a) ==
    <<a.model, a.batch, a.window, a.attention, a.dtype, a.quantization, a.cleanups>>

Other(options, value) == SelectSeq(options, LAMBDA o : o # value)
Shorter(a) == IF a.window \div 2 < MinWindow THEN MinWindow ELSE a.window \div 2

LowerPrecision(a) ==
    IF Other(Dtypes, a.dtype) # <<>> THEN [a EXCEPT !.dtype = Head(Other(Dtypes, a.dtype))]
    ELSE IF Other(Quantizations, a.quantization) # <<>>
         THEN [a EXCEPT !.quantization = Head(Other(Quantizations, a.quantization))] ELSE a
SmallerModel(a) == IF Other(Smaller, a.model) = <<>> THEN a ELSE [a EXCEPT !.model = Head(Other(Smaller, a.model))]
\* _apply: an attempt that differs, or the same one when the step has nothing to change.
Applied(a) ==
    <<[a EXCEPT !.cleanups = @ + 1],
      [a EXCEPT !.batch = 1],
      IF Shorter(a) < a.window THEN [a EXCEPT !.window = Shorter(a)] ELSE a,
      [a EXCEPT !.attention = "sdpa"],
      LowerPrecision(a),
      SmallerModel(a)>>

\* OOMRecoveryChain.next: the first remaining step that changes something.
Helpful(a) == {step \in (a.steps + 1)..6 : Applied(a)[step] # a}
Least(S) == CHOOSE x \in S : \A y \in S : x <= y
NextAttempt(a) == [Applied(a)[Least(Helpful(a))] EXCEPT !.steps = Least(Helpful(a))]

AttemptInit == attempt \in Attempts /\ seen = {} /\ outcome = "trying"
Succeed == outcome = "trying" /\ outcome' \in {"done", "raised"} /\ UNCHANGED <<attempt, seen>>
OutOfMemory ==
    /\ outcome = "trying" /\ seen' = seen \cup {Fingerprint(attempt)}
    /\ IF Helpful(attempt) = {} THEN outcome' = "exhausted" /\ UNCHANGED attempt
       ELSE /\ attempt' = NextAttempt(attempt)
            /\ outcome' = IF Fingerprint(attempt') \in seen' THEN "repeated" ELSE "trying"
AttemptNext == Succeed \/ OutOfMemory
RecoverySpec == AttemptInit /\ [][AttemptNext]_recoveryVars

-----------------------------------------------------------------------------
\* The GPU stands idle only for classroom work that dictation holds back.
GpuNotIdle ==
    owner = Nobody => \A i \in DOMAIN waiting : Classroom(waiting[i]) /\ dictations > 0

\* Classroom work that dictation found on the GPU has been asked to leave it.
DictationAsked == dictations > 0 /\ Classroom(owner) => preempt

\* A lease goes to nobody past a more urgent waiter, or past one that came before
\* with the same priority, and to no classroom work beside dictation.
LeasedInTurn ==
    owner' # owner /\ owner' \in Claimants =>
        /\ dictations' > 0 => ~Classroom(owner')
        /\ \A i \in DOMAIN waiting' :
              \/ dictations' > 0 /\ Classroom(waiting'[i])
              \/ Rank[owner'] < Rank[waiting'[i]]
              \/ /\ Rank[owner'] = Rank[waiting'[i]]
                 /\ \A j, k \in DOMAIN waiting :
                       waiting[j] = owner' /\ waiting[k] = waiting'[i] => j < k
InTurn == [][LeasedInTurn]_managerVars

\* A full GPU is never met with parameters that filled it before (the plan,
\* docs/ClassScribe分阶段开发计划.md:1373), and there is an end to the attempts.
NeverTheSame == outcome # "repeated" /\ Cardinality(seen) <= 7

\* Known to fail: a lease belongs to a task that can release it. One whose wait times
\* out after the lease was granted keeps it for ever (gpu.py:99).
LeaseReturnable == owner # Lost
=============================================================================
