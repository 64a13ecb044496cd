--------------------------- MODULE ServicesProofs ---------------------------
(***************************************************************************)
(* The servers between the classroom and dictation keep their accounts, for *)
(* any routes, sessions, tasks and bounds.                                  *)
(*                                                                          *)
(* The resident workers: only the holder of the lock has a worker half      *)
(* stopped or loading, and nobody but the end of a dictation and its hot    *)
(* switch holds the lock while it is active (ActiveIn).  A classroom thread *)
(* that was let at the GPU got it outside a dictation; until it leaves      *)
(* nobody may begin one, so that no preparation is under way that could     *)
(* load (ServerIn, ClassroomIn).  The loaded route is the first thing taken *)
(* back (RouteIn).                                                          *)
(*                                                                          *)
(* The lease manager: whatever it does with the queue, the lease goes to    *)
(* the first of the most urgent that may have it (DispatchKeeps), and which *)
(* one that is exists because priorities and places are numbers.  The       *)
(* recovery: an attempt differs from each before it in what a step has      *)
(* changed for good (Differs).                                              *)
(*                                                                          *)
(* Together: a step of one part leaves the variables of the others alone.   *)
(***************************************************************************)
EXTENDS MCServices, FiniteSetTheorems, SequenceTheorems, WellFoundedInduction, TLAPS

-----------------------------------------------------------------------------
(***************************************************************************)
(* The lease server keeps the promise of GpuHandover, for any finite set of *)
(* sessions and any number of faults, late renewals and crashes.            *)
(*                                                                          *)
(* A step of GpuHandover names the state of the core, a step of the server  *)
(* only the place of one task.  What joins them is the lock: its holder is  *)
(* the one task that has asked the core for something, so its place says    *)
(* what the core is doing, and while the lock is free the core is as the    *)
(* sessions and the owed end say.                                           *)
(***************************************************************************)

\* TypeOK, with the count left to CountedOnce.
LeaseTasks ==
    /\ deadline \in [Sessions -> {"none", "live", "past"}]
    /\ prep \in [Sessions -> {"none", "waiting", "preparing", "ending", "done", "failed"}]
    /\ sessions \subseteq Sessions /\ pending \in BOOLEAN
    /\ holder \in {Free, Cleanup} \cup Calls \cup ({"begin"} \X Sessions)
    /\ ends \in [Calls -> {"none", "awaits", "waiting", "ending"}]
    /\ core \in {"classroom", "preparing", "dictation", "ending", "owed"}
    /\ client \in [Sessions -> {"new", "beginning", "held", "ending", "ended", "gone"}]
Marks ==
    /\ cancelled \subseteq Sessions /\ renewing \subseteq Sessions /\ lost \subseteq Sessions
    /\ budget \in [faults : 0..MaxFaults, stalls : 0..MaxStalls, crashes : 0..MaxCrashes]

\* The lock is held by the task whose place says so: a preparation, an end, or
\* neither of them when it is free.
LockHeld ==
    /\ \A s \in Sessions : prep[s] \in {"preparing", "ending"} <=> holder = <<"begin", s>>
    /\ \A c \in Calls : ends[c] = "ending" <=> holder = c

\* What the core does is what the holder of the lock has asked it for.
CoreAsHolder ==
    /\ holder = Free =>
         core = IF sessions # {} THEN "dictation" ELSE IF pending THEN "owed" ELSE "classroom"
    /\ \A s \in Sessions : prep[s] = "preparing" => core = "preparing" /\ sessions = {s}
    /\ holder # Free /\ (\A s \in Sessions : prep[s] # "preparing") =>
         core = "ending" /\ sessions = {} /\ pending

\* A session joins once: it has a deadline before it waits for the lock, and no
\* end of it gets past its preparation.
JoinsOnce(s) ==
    /\ client[s] = "new" =>
         /\ prep[s] = "none" /\ deadline[s] = "none" /\ s \notin sessions
         /\ \A c \in Callers : ends[<<c, s>>] = "none"
    /\ prep[s] = "waiting" => deadline[s] # "none" /\ s \notin sessions
    /\ \A c \in Callers : ends[<<c, s>>] \in {"waiting", "ending"} =>
         prep[s] \in {"none", "done", "failed"}
    /\ s \in sessions => deadline[s] # "none"
    /\ client[s] = "ended" => prep[s] # "waiting" /\ s \notin sessions

LInv ==
    LeaseTasks /\ Marks /\ LockHeld /\ CoreAsHolder /\ CountedOnce /\ \A s \in Sessions : JoinsOnce(s)

-----------------------------------------------------------------------------
LEMMA LeaseStarts ==
    ASSUME Init
    PROVE  LInv
<1>1. LeaseTasks
  BY DEF Init, LeaseTasks, Every, NoEnds
<1>5. Marks
  BY LeaseAssumption DEF Init, Marks
<1>2. LockHeld /\ CoreAsHolder
  BY DEF Init, LockHeld, CoreAsHolder, Every, NoEnds, Free, Calls, Callers
<1>3. CountedOnce
  BY FS_EmptySet DEF Init, CountedOnce
<1>4. \A s \in Sessions : JoinsOnce(s)
  BY DEF Init, JoinsOnce, Every, NoEnds, Calls, Callers
<1> QED BY <1>1, <1>2, <1>3, <1>4, <1>5 DEF LInv

\* A member more or less is counted once.
LEMMA Counting ==
    ASSUME sessions \subseteq Sessions, CountedOnce, NEW s \in Sessions
    PROVE  /\ count \in Nat /\ count <= Cardinality(Sessions)
           /\ Cardinality({}) = 0
           /\ s \notin sessions => Cardinality(sessions \cup {s}) = count + 1
           /\ Cardinality(sessions \ {s}) = IF s \in sessions THEN count - 1 ELSE count
<1>1. IsFiniteSet(sessions) /\ Cardinality(sessions) <= Cardinality(Sessions)
  BY FS_Subset, LeaseAssumption
<1>2. count \in Nat
  BY <1>1, FS_CardinalityType DEF CountedOnce
<1>3. /\ s \notin sessions => Cardinality(sessions \cup {s}) = count + 1
      /\ Cardinality(sessions \ {s}) = IF s \in sessions THEN count - 1 ELSE count
  BY <1>1, FS_AddElement, FS_RemoveElement DEF CountedOnce
<1> QED BY <1>1, <1>2, <1>3, FS_EmptySet DEF CountedOnce

\* A fault, a stall or a crash takes one from its bound.
LEMMA Spending ==
    ASSUME Marks
    PROVE  /\ Spend("faults") => budget' \in
                [faults : 0..MaxFaults, stalls : 0..MaxStalls, crashes : 0..MaxCrashes]
           /\ Spend("stalls") => budget' \in
                [faults : 0..MaxFaults, stalls : 0..MaxStalls, crashes : 0..MaxCrashes]
           /\ Spend("crashes") => budget' \in
                [faults : 0..MaxFaults, stalls : 0..MaxStalls, crashes : 0..MaxCrashes]
BY LeaseAssumption DEF Marks, Spend

LEMMA MarksKept ==
    ASSUME LInv, [Next]_leaseVars
    PROVE  Marks'
<1> USE DEF LInv
<1>1. CASE UNCHANGED leaseVars
  BY <1>1 DEF leaseVars, serverVars, clientVars, Marks
<1>2. CASE RetryEnd \/ RetryReturns \/ Restart
  BY <1>2, Spending DEF RetryEnd, RetryReturns, Restart, CoreEnds, clientVars, Marks
<1>3. ASSUME NEW s \in Sessions,
             BeginLocked(s) \/ Prepared(s) \/ PrepareFails(s) \/ FailureEnds(s) \/ Answer(s)
      PROVE  Marks'
  BY <1>3, Spending DEF BeginLocked, Prepared, PrepareFails, FailureEnds, CoreEnds, Answer,
     clientVars, Marks
<1>4. ASSUME NEW s \in Sessions, Expire(s) \/ End(s)
      PROVE  Marks'
  BY <1>4 DEF Expire, End, EndSession, clientVars, Marks
<1>5. ASSUME NEW s \in Sessions, NEW c \in Callers,
             PreparationAwaited(c, s) \/ EndLocked(c, s) \/ EndReturns(c, s)
      PROVE  Marks'
  BY <1>5, Spending DEF PreparationAwaited, EndLocked, EndReturns, CoreEnds, clientVars, Marks
<1>6. ASSUME NEW s \in Sessions,
             Begin(s) \/ GiveUp(s) \/ Renew(s) \/ Killed(s) \/ LossNoticed(s) \/ Elapse(s)
      PROVE  Marks'
  BY <1>6, Spending DEF Begin, GiveUp, Renew, Killed, LossNoticed, Elapse, serverVars,
     clientVars, Marks
<1> QED BY <1>1, <1>2, <1>3, <1>4, <1>5, <1>6 DEF Next, ServerStep, ClientStep

LEMMA LeaseSteps ==
    ASSUME LInv, [Next]_leaseVars
    PROVE  LeaseTasks' /\ LockHeld' /\ CoreAsHolder' /\ CountedOnce' /\ \A r \in Sessions : JoinsOnce(r)'
<1> USE DEF LInv
<1>1. ASSUME NEW s \in Sessions, BeginLocked(s)
      PROVE  LeaseTasks' /\ LockHeld' /\ CoreAsHolder' /\ CountedOnce' /\ \A r \in Sessions : JoinsOnce(r)'
  <2> USE <1>1 DEF clientVars, LeaseTasks, Calls, Callers
  <2>1. LeaseTasks'
    BY DEF BeginLocked
  <2>2. LockHeld'
    BY DEF BeginLocked, LockHeld, Free, Cleanup
  <2>3. CoreAsHolder'
    BY DEF BeginLocked, LockHeld, CoreAsHolder, Free, Cleanup
  <2>4. CountedOnce'
    BY Counting DEF BeginLocked, CountedOnce, CoreAsHolder, JoinsOnce
  <2>5. ASSUME NEW r \in Sessions PROVE JoinsOnce(r)'
    <3>1. JoinsOnce(r)
      OBVIOUS
    <3> QED BY <3>1 DEF BeginLocked, LockHeld, CoreAsHolder, JoinsOnce
  <2> QED BY <2>1, <2>2, <2>3, <2>4, <2>5
<1>2. ASSUME NEW s \in Sessions, Prepared(s)
      PROVE  LeaseTasks' /\ LockHeld' /\ CoreAsHolder' /\ CountedOnce' /\ \A r \in Sessions : JoinsOnce(r)'
  <2> USE <1>2 DEF clientVars, LeaseTasks, Calls, Callers
  <2>1. LeaseTasks'
    BY DEF Prepared
  <2>2. LockHeld'
    BY DEF Prepared, LockHeld, Free, Cleanup
  <2>3. CoreAsHolder'
    BY DEF Prepared, LockHeld, CoreAsHolder, Free, Cleanup
  <2>4. CountedOnce'
    BY DEF Prepared, CountedOnce, CoreAsHolder, JoinsOnce
  <2>5. ASSUME NEW r \in Sessions PROVE JoinsOnce(r)'
    <3>1. JoinsOnce(r)
      OBVIOUS
    <3> QED BY <3>1 DEF Prepared, LockHeld, CoreAsHolder, JoinsOnce
  <2> QED BY <2>1, <2>2, <2>3, <2>4, <2>5
<1>3. ASSUME NEW s \in Sessions, PrepareFails(s)
      PROVE  LeaseTasks' /\ LockHeld' /\ CoreAsHolder' /\ CountedOnce' /\ \A r \in Sessions : JoinsOnce(r)'
  <2> USE <1>3 DEF clientVars, LeaseTasks, Calls, Callers
  <2>1. LeaseTasks'
    BY DEF PrepareFails
  <2>2. LockHeld'
    BY DEF PrepareFails, LockHeld, Free, Cleanup
  <2>3. CoreAsHolder'
    BY DEF PrepareFails, LockHeld, CoreAsHolder, Free, Cleanup
  <2>4. CountedOnce'
    <3>1. s \in sessions /\ count' = count - 1 /\ sessions' = sessions \ {s}
      BY DEF PrepareFails, CoreAsHolder
    <3>2. Cardinality(sessions \ {s}) = IF s \in sessions THEN count - 1 ELSE count
      BY Counting
    <3> QED BY <3>1, <3>2 DEF CountedOnce
  <2>5. ASSUME NEW r \in Sessions PROVE JoinsOnce(r)'
    <3>1. JoinsOnce(r)
      OBVIOUS
    <3> QED BY <3>1 DEF PrepareFails, LockHeld, CoreAsHolder, JoinsOnce
  <2> QED BY <2>1, <2>2, <2>3, <2>4, <2>5
<1>4. ASSUME NEW s \in Sessions, FailureEnds(s)
      PROVE  LeaseTasks' /\ LockHeld' /\ CoreAsHolder' /\ CountedOnce' /\ \A r \in Sessions : JoinsOnce(r)'
  <2> USE <1>4 DEF clientVars, LeaseTasks, Calls, Callers
  <2>1. LeaseTasks'
    BY DEF FailureEnds, CoreEnds
  <2>2. LockHeld'
    BY DEF FailureEnds, CoreEnds, LockHeld, Free, Cleanup
  <2>3. CoreAsHolder'
    BY DEF FailureEnds, CoreEnds, LockHeld, CoreAsHolder, Free, Cleanup
  <2>4. CountedOnce'
    BY DEF FailureEnds, CoreEnds, CountedOnce, CoreAsHolder, JoinsOnce
  <2>5. ASSUME NEW r \in Sessions PROVE JoinsOnce(r)'
    <3>1. JoinsOnce(r)
      OBVIOUS
    <3> QED BY <3>1 DEF FailureEnds, CoreEnds, LockHeld, CoreAsHolder, JoinsOnce
  <2> QED BY <2>1, <2>2, <2>3, <2>4, <2>5
<1>5. ASSUME NEW s \in Sessions, Answer(s)
      PROVE  LeaseTasks' /\ LockHeld' /\ CoreAsHolder' /\ CountedOnce' /\ \A r \in Sessions : JoinsOnce(r)'
  <2> USE <1>5 DEF clientVars, LeaseTasks, Calls, Callers
  <2>1. LeaseTasks'
    BY DEF Answer
  <2>2. LockHeld'
    BY DEF Answer, LockHeld, Free, Cleanup
  <2>3. CoreAsHolder'
    BY DEF Answer, LockHeld, CoreAsHolder, Free, Cleanup
  <2>4. CountedOnce'
    BY DEF Answer, CountedOnce, CoreAsHolder, JoinsOnce
  <2>5. ASSUME NEW r \in Sessions PROVE JoinsOnce(r)'
    <3>1. JoinsOnce(r)
      OBVIOUS
    <3> QED BY <3>1 DEF Answer, LockHeld, CoreAsHolder, JoinsOnce
  <2> QED BY <2>1, <2>2, <2>3, <2>4, <2>5
<1>6. ASSUME NEW s \in Sessions, Expire(s)
      PROVE  LeaseTasks' /\ LockHeld' /\ CoreAsHolder' /\ CountedOnce' /\ \A r \in Sessions : JoinsOnce(r)'
  <2> USE <1>6 DEF clientVars, LeaseTasks, Calls, Callers
  <2>1. LeaseTasks'
    BY DEF Expire, EndSession, Cancelled
  <2>2. LockHeld'
    BY DEF Expire, EndSession, Cancelled, LockHeld, Free, Cleanup
  <2>3. CoreAsHolder'
    BY DEF Expire, EndSession, Cancelled, LockHeld, CoreAsHolder, Free, Cleanup
  <2>4. CountedOnce'
    BY DEF Expire, EndSession, Cancelled, CountedOnce, CoreAsHolder, JoinsOnce
  <2>5. ASSUME NEW r \in Sessions PROVE JoinsOnce(r)'
    <3>1. JoinsOnce(r)
      OBVIOUS
    <3> QED BY <3>1 DEF Expire, EndSession, Cancelled, LockHeld, CoreAsHolder, JoinsOnce
  <2> QED BY <2>1, <2>2, <2>3, <2>4, <2>5
<1>7. ASSUME NEW s \in Sessions, End(s)
      PROVE  LeaseTasks' /\ LockHeld' /\ CoreAsHolder' /\ CountedOnce' /\ \A r \in Sessions : JoinsOnce(r)'
  <2> USE <1>7 DEF clientVars, LeaseTasks, Calls, Callers
  <2>1. LeaseTasks'
    BY DEF End, EndSession, Cancelled
  <2>2. LockHeld'
    BY DEF End, EndSession, Cancelled, LockHeld, Free, Cleanup
  <2>3. CoreAsHolder'
    BY DEF End, EndSession, Cancelled, LockHeld, CoreAsHolder, Free, Cleanup
  <2>4. CountedOnce'
    BY DEF End, EndSession, Cancelled, CountedOnce, CoreAsHolder, JoinsOnce
  <2>5. ASSUME NEW r \in Sessions PROVE JoinsOnce(r)'
    <3>1. JoinsOnce(r)
      OBVIOUS
    <3>2. client[s] = "ending" /\ UNCHANGED <<deadline, sessions, client>>
      BY DEF End
    <3>3. CASE prep[s] \in {"waiting", "preparing", "ending"}
      BY <3>1, <3>2, <3>3 DEF End, EndSession, Cancelled, JoinsOnce
    <3>4. CASE prep[s] \notin {"waiting", "preparing", "ending"}
      <4>1. prep[s] \in {"none", "done", "failed"} /\ UNCHANGED prep
        BY <3>4 DEF End, EndSession
      <4> QED BY <3>1, <3>2, <3>4, <4>1 DEF End, EndSession, JoinsOnce
    <3> QED BY <3>3, <3>4
  <2> QED BY <2>1, <2>2, <2>3, <2>4, <2>5
<1>8. ASSUME NEW s \in Sessions, NEW c \in Callers, PreparationAwaited(c, s)
      PROVE  LeaseTasks' /\ LockHeld' /\ CoreAsHolder' /\ CountedOnce' /\ \A r \in Sessions : JoinsOnce(r)'
  <2> USE <1>8 DEF clientVars, LeaseTasks, Calls, Callers
  <2>1. LeaseTasks'
    BY DEF PreparationAwaited
  <2>2. LockHeld'
    BY DEF PreparationAwaited, LockHeld, Free, Cleanup
  <2>3. CoreAsHolder'
    BY DEF PreparationAwaited, LockHeld, CoreAsHolder, Free, Cleanup
  <2>4. CountedOnce'
    BY DEF PreparationAwaited, CountedOnce, CoreAsHolder, JoinsOnce
  <2>5. ASSUME NEW r \in Sessions PROVE JoinsOnce(r)'
    <3>1. JoinsOnce(r)
      OBVIOUS
    <3> QED BY <3>1 DEF PreparationAwaited, LockHeld, CoreAsHolder, JoinsOnce
  <2> QED BY <2>1, <2>2, <2>3, <2>4, <2>5
<1>9. ASSUME NEW s \in Sessions, NEW c \in Callers, EndLocked(c, s)
      PROVE  LeaseTasks' /\ LockHeld' /\ CoreAsHolder' /\ CountedOnce' /\ \A r \in Sessions : JoinsOnce(r)'
  <2> USE <1>9 DEF clientVars, LeaseTasks, Calls, Callers
  <2>1. LeaseTasks'
    BY DEF EndLocked
  <2>2. LockHeld'
    BY DEF EndLocked, LockHeld, Free, Cleanup
  <2>3. CoreAsHolder'
    <3>1. holder = Free /\ UNCHANGED prep /\ sessions' = sessions \ {s}
      BY DEF EndLocked
    <3>2. \A r \in Sessions : prep[r] # "preparing"
      BY <3>1 DEF LockHeld, Free
    <3>3. core = IF sessions # {} THEN "dictation" ELSE IF pending THEN "owed" ELSE "classroom"
      BY <3>1 DEF CoreAsHolder
    <3>4. CASE sessions' = {} /\ (pending \/ s \in sessions)
      <4>1. core' = "ending" /\ holder' = <<c, s>> /\ pending'
        BY <3>1, <3>4 DEF EndLocked
      <4> QED BY <3>1, <3>2, <3>4, <4>1 DEF CoreAsHolder, Free
    <3>5. CASE ~(sessions' = {} /\ (pending \/ s \in sessions))
      <4>1. UNCHANGED <<core, holder>> /\ pending' = (pending \/ (s \in sessions /\ sessions' = {}))
        BY <3>1, <3>5 DEF EndLocked
      <4> QED BY <3>1, <3>2, <3>3, <3>5, <4>1 DEF CoreAsHolder
    <3> QED BY <3>4, <3>5
  <2>4. CountedOnce'
    BY Counting DEF EndLocked, CountedOnce, CoreAsHolder, JoinsOnce
  <2>5. ASSUME NEW r \in Sessions PROVE JoinsOnce(r)'
    <3>1. JoinsOnce(r)
      OBVIOUS
    <3> QED BY <3>1 DEF EndLocked, LockHeld, CoreAsHolder, JoinsOnce
  <2> QED BY <2>1, <2>2, <2>3, <2>4, <2>5
<1>10. ASSUME NEW s \in Sessions, NEW c \in Callers, EndReturns(c, s)
      PROVE  LeaseTasks' /\ LockHeld' /\ CoreAsHolder' /\ CountedOnce' /\ \A r \in Sessions : JoinsOnce(r)'
  <2> USE <1>10 DEF clientVars, LeaseTasks, Calls, Callers
  <2>1. LeaseTasks'
    BY DEF EndReturns, CoreEnds
  <2>2. LockHeld'
    BY DEF EndReturns, CoreEnds, LockHeld, Free, Cleanup
  <2>3. CoreAsHolder'
    BY DEF EndReturns, CoreEnds, LockHeld, CoreAsHolder, Free, Cleanup
  <2>4. CountedOnce'
    BY DEF EndReturns, CoreEnds, CountedOnce, CoreAsHolder, JoinsOnce
  <2>5. ASSUME NEW r \in Sessions PROVE JoinsOnce(r)'
    <3>1. JoinsOnce(r) /\ JoinsOnce(s)
      OBVIOUS
    <3>2. sessions = {}
      BY DEF EndReturns, LockHeld, CoreAsHolder, Free
    <3> QED BY <3>1, <3>2 DEF EndReturns, JoinsOnce
  <2> QED BY <2>1, <2>2, <2>3, <2>4, <2>5
<1>11. ASSUME RetryEnd
      PROVE  LeaseTasks' /\ LockHeld' /\ CoreAsHolder' /\ CountedOnce' /\ \A r \in Sessions : JoinsOnce(r)'
  <2> USE <1>11 DEF clientVars, LeaseTasks, Calls, Callers
  <2>1. LeaseTasks'
    BY DEF RetryEnd, ExpiryIdle
  <2>2. LockHeld'
    BY DEF RetryEnd, ExpiryIdle, LockHeld, Free, Cleanup
  <2>3. CoreAsHolder'
    BY DEF RetryEnd, ExpiryIdle, LockHeld, CoreAsHolder, Free, Cleanup
  <2>4. CountedOnce'
    BY DEF RetryEnd, ExpiryIdle, CountedOnce, CoreAsHolder, JoinsOnce
  <2>5. ASSUME NEW r \in Sessions PROVE JoinsOnce(r)'
    <3>1. JoinsOnce(r)
      OBVIOUS
    <3> QED BY <3>1 DEF RetryEnd, ExpiryIdle, LockHeld, CoreAsHolder, JoinsOnce
  <2> QED BY <2>1, <2>2, <2>3, <2>4, <2>5
<1>12. ASSUME RetryReturns
      PROVE  LeaseTasks' /\ LockHeld' /\ CoreAsHolder' /\ CountedOnce' /\ \A r \in Sessions : JoinsOnce(r)'
  <2> USE <1>12 DEF clientVars, LeaseTasks, Calls, Callers
  <2>1. LeaseTasks'
    BY DEF RetryReturns, CoreEnds
  <2>2. LockHeld'
    BY DEF RetryReturns, CoreEnds, LockHeld, Free, Cleanup
  <2>3. CoreAsHolder'
    BY DEF RetryReturns, CoreEnds, LockHeld, CoreAsHolder, Free, Cleanup
  <2>4. CountedOnce'
    BY DEF RetryReturns, CoreEnds, CountedOnce, CoreAsHolder, JoinsOnce
  <2>5. ASSUME NEW r \in Sessions PROVE JoinsOnce(r)'
    <3>1. JoinsOnce(r)
      OBVIOUS
    <3> QED BY <3>1 DEF RetryReturns, CoreEnds, LockHeld, CoreAsHolder, JoinsOnce
  <2> QED BY <2>1, <2>2, <2>3, <2>4, <2>5
<1>13. ASSUME Restart
      PROVE  LeaseTasks' /\ LockHeld' /\ CoreAsHolder' /\ CountedOnce' /\ \A r \in Sessions : JoinsOnce(r)'
  <2> USE <1>13 DEF clientVars, LeaseTasks, Calls, Callers
  <2>1. LeaseTasks'
    BY DEF Restart, Every, NoEnds
  <2>2. LockHeld'
    BY DEF Restart, Every, NoEnds, LockHeld, Free, Cleanup
  <2>3. CoreAsHolder'
    BY DEF Restart, Every, NoEnds, LockHeld, CoreAsHolder, Free, Cleanup
  <2>4. CountedOnce'
    BY FS_EmptySet DEF Restart, Every, NoEnds, CountedOnce, CoreAsHolder, JoinsOnce
  <2>5. ASSUME NEW r \in Sessions PROVE JoinsOnce(r)'
    <3>1. JoinsOnce(r)
      OBVIOUS
    <3> QED BY <3>1 DEF Restart, Every, NoEnds, LockHeld, CoreAsHolder, JoinsOnce
  <2> QED BY <2>1, <2>2, <2>3, <2>4, <2>5
<1>14. ASSUME NEW s \in Sessions, Begin(s)
      PROVE  LeaseTasks' /\ LockHeld' /\ CoreAsHolder' /\ CountedOnce' /\ \A r \in Sessions : JoinsOnce(r)'
  <2> USE <1>14 DEF clientVars, LeaseTasks, Calls, Callers
  <2>0. prep[s] = "none"
    <3>1. JoinsOnce(s)
      OBVIOUS
    <3> QED BY <3>1 DEF Begin, JoinsOnce
  <2>1. LeaseTasks'
    BY DEF Begin
  <2>2. LockHeld'
    BY <2>0 DEF Begin, LockHeld, Free, Cleanup
  <2>3. CoreAsHolder'
    BY <2>0 DEF Begin, LockHeld, CoreAsHolder, Free, Cleanup
  <2>4. CountedOnce'
    BY DEF Begin, CountedOnce, CoreAsHolder, JoinsOnce
  <2>5. ASSUME NEW r \in Sessions PROVE JoinsOnce(r)'
    <3>1. JoinsOnce(r)
      OBVIOUS
    <3> QED BY <3>1 DEF Begin, LockHeld, CoreAsHolder, JoinsOnce
  <2> QED BY <2>1, <2>2, <2>3, <2>4, <2>5
<1>15. ASSUME NEW s \in Sessions, (GiveUp(s) \/ Killed(s) \/ LossNoticed(s))
      PROVE  LeaseTasks' /\ LockHeld' /\ CoreAsHolder' /\ CountedOnce' /\ \A r \in Sessions : JoinsOnce(r)'
  <2> USE <1>15 DEF clientVars, LeaseTasks, Calls, Callers
  <2>1. LeaseTasks'
    BY DEF GiveUp, Killed, LossNoticed, serverVars
  <2>2. LockHeld'
    BY DEF GiveUp, Killed, LossNoticed, serverVars, LockHeld, Free, Cleanup
  <2>3. CoreAsHolder'
    BY DEF GiveUp, Killed, LossNoticed, serverVars, LockHeld, CoreAsHolder, Free, Cleanup
  <2>4. CountedOnce'
    BY DEF GiveUp, Killed, LossNoticed, serverVars, CountedOnce, CoreAsHolder, JoinsOnce
  <2>5. ASSUME NEW r \in Sessions PROVE JoinsOnce(r)'
    <3>1. JoinsOnce(r)
      OBVIOUS
    <3> QED BY <3>1 DEF GiveUp, Killed, LossNoticed, serverVars, LockHeld, CoreAsHolder, JoinsOnce
  <2> QED BY <2>1, <2>2, <2>3, <2>4, <2>5
<1>16. ASSUME NEW s \in Sessions, Renew(s)
      PROVE  LeaseTasks' /\ LockHeld' /\ CoreAsHolder' /\ CountedOnce' /\ \A r \in Sessions : JoinsOnce(r)'
  <2> USE <1>16 DEF clientVars, LeaseTasks, Calls, Callers
  <2>1. LeaseTasks'
    BY DEF Renew
  <2>2. LockHeld'
    BY DEF Renew, LockHeld, Free, Cleanup
  <2>3. CoreAsHolder'
    BY DEF Renew, LockHeld, CoreAsHolder, Free, Cleanup
  <2>4. CountedOnce'
    BY DEF Renew, CountedOnce, CoreAsHolder, JoinsOnce
  <2>5. ASSUME NEW r \in Sessions PROVE JoinsOnce(r)'
    <3>1. JoinsOnce(r)
      OBVIOUS
    <3> QED BY <3>1 DEF Renew, LockHeld, CoreAsHolder, JoinsOnce
  <2> QED BY <2>1, <2>2, <2>3, <2>4, <2>5
<1>17. ASSUME NEW s \in Sessions, Elapse(s)
      PROVE  LeaseTasks' /\ LockHeld' /\ CoreAsHolder' /\ CountedOnce' /\ \A r \in Sessions : JoinsOnce(r)'
  <2> USE <1>17 DEF clientVars, LeaseTasks, Calls, Callers
  <2>1. LeaseTasks'
    BY DEF Elapse
  <2>2. LockHeld'
    BY DEF Elapse, LockHeld, Free, Cleanup
  <2>3. CoreAsHolder'
    BY DEF Elapse, LockHeld, CoreAsHolder, Free, Cleanup
  <2>4. CountedOnce'
    BY DEF Elapse, CountedOnce, CoreAsHolder, JoinsOnce
  <2>5. ASSUME NEW r \in Sessions PROVE JoinsOnce(r)'
    <3>1. JoinsOnce(r)
      OBVIOUS
    <3> QED BY <3>1 DEF Elapse, LockHeld, CoreAsHolder, JoinsOnce
  <2> QED BY <2>1, <2>2, <2>3, <2>4, <2>5
<1>18. ASSUME UNCHANGED leaseVars
      PROVE  LeaseTasks' /\ LockHeld' /\ CoreAsHolder' /\ CountedOnce' /\ \A r \in Sessions : JoinsOnce(r)'
  <2> USE <1>18 DEF clientVars, LeaseTasks, Calls, Callers
  <2>1. LeaseTasks'
    BY DEF leaseVars, serverVars
  <2>2. LockHeld'
    BY DEF leaseVars, serverVars, LockHeld, Free, Cleanup
  <2>3. CoreAsHolder'
    BY DEF leaseVars, serverVars, LockHeld, CoreAsHolder, Free, Cleanup
  <2>4. CountedOnce'
    BY DEF leaseVars, serverVars, CountedOnce, CoreAsHolder, JoinsOnce
  <2>5. ASSUME NEW r \in Sessions PROVE JoinsOnce(r)'
    <3>1. JoinsOnce(r)
      OBVIOUS
    <3> QED BY <3>1 DEF leaseVars, serverVars, LockHeld, CoreAsHolder, JoinsOnce
  <2> QED BY <2>1, <2>2, <2>3, <2>4, <2>5
<1> QED BY <1>1, <1>2, <1>3, <1>4, <1>5, <1>6, <1>7, <1>8, <1>9, <1>10, <1>11, <1>12, <1>13, <1>14, <1>15, <1>16, <1>17, <1>18 DEF Next, ServerStep, ClientStep

-----------------------------------------------------------------------------
\* Every task keeps to its places, and the flags of the server agree with its
\* sessions: each one it counts can expire, the lease manager is told of each
\* once, and none comes back after its end was acknowledged (ipc.py:100-215).
THEOREM SessionsAccounted == Spec => [](TypeOK /\ SessionsCanExpire /\ CountedOnce /\ EndIsFinal)
<1>1. Init => LInv
  BY LeaseStarts
<1>2. LInv /\ [Next]_leaseVars => LInv'
  BY LeaseSteps, MarksKept DEF LInv
<1>3. LInv => TypeOK /\ SessionsCanExpire /\ CountedOnce /\ EndIsFinal
  <2> SUFFICES ASSUME LInv PROVE TypeOK /\ SessionsCanExpire /\ CountedOnce /\ EndIsFinal
    OBVIOUS
  <2>1. count \in 0..Cardinality(Sessions)
    <3>1. IsFiniteSet(sessions) /\ Cardinality(sessions) <= Cardinality(Sessions)
      BY FS_Subset, LeaseAssumption DEF LInv, LeaseTasks
    <3> QED BY <3>1, FS_CardinalityType, LeaseAssumption DEF LInv, CountedOnce
  <2>2. TypeOK
    BY <2>1 DEF LInv, LeaseTasks, Marks, TypeOK
  <2>3. SessionsCanExpire /\ EndIsFinal
    BY DEF LInv, LeaseTasks, JoinsOnce, SessionsCanExpire, EndIsFinal
  <2> QED BY <2>2, <2>3 DEF LInv
<1> QED BY <1>1, <1>2, <1>3, PTL DEF Spec

\* Each step of the server is a step of the handover, or none that the core sees.
LEMMA HandoverStep ==
    ASSUME LInv, [Next]_leaseVars
    PROVE  [Handover!Next]_(Handover!handoverVars)
<1> USE DEF LInv, Handover!handoverVars
<1>1. ASSUME NEW s \in Sessions, BeginLocked(s)
      PROVE  [Handover!Next]_(Handover!handoverVars)
  <2>1. JoinsOnce(s)
    OBVIOUS
  <2>2. CASE sessions = {}
    <3>1. Handover!Prepare(s)
      BY <1>1, <2>2 DEF BeginLocked, CoreAsHolder, Handover!Prepare
    <3> QED BY <3>1 DEF Handover!Next
  <2>3. CASE sessions # {}
    <3>1. Handover!Join(s)
      BY <1>1, <2>1, <2>3 DEF BeginLocked, CoreAsHolder, JoinsOnce, Handover!Join
    <3> QED BY <3>1 DEF Handover!Next
  <2> QED BY <2>2, <2>3
<1>2. ASSUME NEW s \in Sessions, Prepared(s)
      PROVE  [Handover!Next]_(Handover!handoverVars)
  BY <1>2 DEF Prepared, CoreAsHolder, Handover!Next, Handover!Prepared
<1>3. ASSUME NEW s \in Sessions, PrepareFails(s)
      PROVE  [Handover!Next]_(Handover!handoverVars)
  <2>1. Handover!LastLeaves(s)
    BY <1>3 DEF PrepareFails, CoreAsHolder, Handover!LastLeaves
  <2> QED BY <2>1 DEF Handover!Next
<1>4. ASSUME NEW s \in Sessions, FailureEnds(s)
      PROVE  [Handover!Next]_(Handover!handoverVars)
  <2>1. core = "ending"
    BY <1>4 DEF FailureEnds, LockHeld, CoreAsHolder, Free, LeaseTasks
  <2> QED BY <1>4, <2>1 DEF FailureEnds, CoreEnds, Handover!Next, Handover!Ended
<1>5. ASSUME NEW s \in Sessions, NEW c \in Callers, EndLocked(c, s)
      PROVE  [Handover!Next]_(Handover!handoverVars)
  <2>1. holder = Free /\ sessions' = sessions \ {s}
    BY <1>5 DEF EndLocked
  <2>2. core = IF sessions # {} THEN "dictation" ELSE IF pending THEN "owed" ELSE "classroom"
    BY <2>1 DEF CoreAsHolder
  <2>3. CASE s \in sessions /\ sessions' = {}
    <3>1. Handover!LastLeaves(s)
      BY <1>5, <2>1, <2>2, <2>3 DEF EndLocked, Handover!LastLeaves
    <3> QED BY <3>1 DEF Handover!Next
  <2>4. CASE s \in sessions /\ sessions' # {}
    <3>1. UNCHANGED core
      BY <1>5, <2>1, <2>4 DEF EndLocked
    <3>2. Handover!Leave(s)
      BY <2>1, <2>2, <2>4, <3>1 DEF Handover!Leave
    <3> QED BY <3>2 DEF Handover!Next
  <2>5. CASE s \notin sessions /\ pending /\ sessions = {}
    <3>1. core' = "ending" /\ UNCHANGED sessions
      BY <1>5, <2>1, <2>5 DEF EndLocked
    <3> QED BY <2>2, <2>5, <3>1 DEF Handover!Next, Handover!Again
  <2>6. CASE s \notin sessions /\ ~(pending /\ sessions = {})
    BY <1>5, <2>1, <2>6 DEF EndLocked
  <2> QED BY <2>3, <2>4, <2>5, <2>6
<1>6. ASSUME NEW s \in Sessions, NEW c \in Callers, EndReturns(c, s)
      PROVE  [Handover!Next]_(Handover!handoverVars)
  <2>1. core = "ending"
    BY <1>6 DEF EndReturns, LockHeld, CoreAsHolder, Free, LeaseTasks, Calls, Callers
  <2> QED BY <1>6, <2>1 DEF EndReturns, CoreEnds, Handover!Next, Handover!Ended
<1>7. CASE RetryEnd
  BY <1>7 DEF RetryEnd, CoreAsHolder, Handover!Next, Handover!Again
<1>8. CASE RetryReturns
  <2>1. core = "ending"
    BY <1>8 DEF RetryReturns, LockHeld, CoreAsHolder, Free, Cleanup, LeaseTasks
  <2> QED BY <1>8, <2>1 DEF RetryReturns, CoreEnds, Handover!Next, Handover!Ended
<1>9. CASE Restart
  BY <1>9 DEF Restart, Handover!Next, Handover!Restart
<1>10. ASSUME NEW s \in Sessions,
              \/ Answer(s) \/ Expire(s) \/ ClientStep(s) \/ LossNoticed(s) \/ Elapse(s)
              \/ \E c \in Callers : PreparationAwaited(c, s)
       PROVE  UNCHANGED <<sessions, core>>
  BY <1>10 DEF Answer, Expire, ClientStep, Begin, GiveUp, End, Renew, Killed, LossNoticed, Elapse,
     PreparationAwaited, serverVars
<1>11. CASE UNCHANGED leaseVars
  BY <1>11 DEF leaseVars, serverVars
<1> QED BY <1>1, <1>2, <1>3, <1>4, <1>5, <1>6, <1>7, <1>8, <1>9, <1>10, <1>11 DEF Next, ServerStep

\* The lease server implements GpuHandover: the GPU is prepared for the first
\* session only, never while an end of it runs, and given back when the last one
\* has left, whatever fails or is cancelled on the way (ipc.py:155-202).
THEOREM KeepsHandover == Spec => HandoverKept
<1>1. Init => Handover!Init
  BY DEF Init, Handover!Init
<1>2. Init => LInv
  BY LeaseStarts
<1>3. LInv /\ [Next]_leaseVars => LInv'
  BY LeaseSteps, MarksKept DEF LInv
<1>4. LInv /\ [Next]_leaseVars => [Handover!Next]_(Handover!handoverVars)
  BY HandoverStep
<1> QED BY <1>1, <1>2, <1>3, <1>4, PTL DEF Spec, HandoverKept, Handover!Spec

-----------------------------------------------------------------------------
(***************************************************************************)
(* A classroom process and dictation never have the GPU at once, a job       *)
(* leaves no process behind, and the loop of the calls lives as long as it   *)
(* is needed: for any jobs and models, and any number of runs, calls,        *)
(* dictations and failures.                                                  *)
(*                                                                           *)
(* The busy event is what the two sides agree by: it covers whatever holds   *)
(* the lock beyond its first step, and dictation takes the GPU while it is   *)
(* clear.  After that no task passes the gate, because the event is set      *)
(* before the gate is read.  A process belongs to a job that has not ended   *)
(* its release; a release ends only as the holder of the lock, and then no   *)
(* process is retiring.                                                      *)
(***************************************************************************)

Threads == {"off", "between", "handler", "released", "waiting", "closing"}
Past == {"gate", "chosen", "replacing", "suspending", "loading", "calling", "dropping"}
Replaced == {"replacing", "suspending", "loading", "dropping"}
Places == Past \cup {"none", "queued", "ended"}
Task == [kind : {"none", "call", "state", "release"}, at : Places, model : Models \cup {"none"}, loop : Nat]
Session == [job : Jobs, model : Models \cup {"none"}, live : BOOLEAN] \cup {NoSession}

Typed ==
    /\ thread \in [Jobs -> Threads] /\ task \in [Jobs -> Task] /\ queue \in Seq(Jobs)
    /\ open \subseteq Jobs /\ loop \in Nat /\ loops \in Nat /\ loop <= loops
    /\ session \in Session /\ retiring \in Session
    /\ busy \in BOOLEAN /\ block \in BOOLEAN /\ resident \in BOOLEAN
    /\ dictation \in {"off", "arming", "held"}

\* A thread that waits has a task of the loop there is, and who is past the queue
\* is at its head; a job is open until it gives up its session.
TaskIn(j) ==
    /\ thread[j] # "waiting" => task[j] = NoTask
    /\ thread[j] = "waiting" =>
         /\ task[j].loop = loop /\ loop # 0
         /\ \/ task[j].kind = "call" /\ task[j].at \in Past \cup {"queued", "ended"}
            \/ task[j].kind = "state" /\ task[j].at \in {"queued", "ended"}
            \/ task[j].kind = "release" /\ task[j].at \in {"queued", "dropping", "ended"}
    /\ task[j].at \in Past => queue # <<>> /\ Head(queue) = j
    /\ j \in open <=> \/ thread[j] \in {"between", "handler", "released"}
                      \/ thread[j] = "waiting" /\ task[j].kind # "release"

\* The job of a process has not released it, and a loop is there while it is open.
MayOwn(j) ==
    /\ thread[j] # "off" /\ (j \in open => loop # 0)
    /\ ~(task[j].kind = "release" /\ task[j].at = "ended")
OwnedBy(process, j) == process.job = j => MayOwn(j)

LaneIn ==
    /\ retiring # NoSession => queue # <<>> /\ task[Head(queue)].at \in {"replacing", "dropping"}
    /\ session # NoSession \/ retiring # NoSession \/ (\E j \in Jobs : task[j].at \in Past) => busy
    /\ session # NoSession \/ retiring # NoSession \/ (\E j \in Jobs : task[j].at = "loading") => ~resident
    /\ (\E j \in Jobs : task[j].at \in Replaced) => session = NoSession
    /\ dictation # "off" => block
    /\ dictation = "held" => /\ session = NoSession /\ retiring = NoSession
                             /\ \A j \in Jobs : task[j].at \notin Past \ {"gate"}

SInv ==
    /\ Typed /\ LaneIn
    /\ \A j \in Jobs : TaskIn(j) /\ OwnedBy(session, j) /\ OwnedBy(retiring, j)
    /\ (\A j \in Jobs : thread[j] = "off") => loop = 0

-----------------------------------------------------------------------------
LEMMA SessionsStart ==
    ASSUME SessionsInit
    PROVE  SInv
<1>1. Typed
  <2>1. queue \in Seq(Jobs)
    BY EmptySeq DEF SessionsInit
  <2>2. NoTask \in Task
    BY DEF Task, Places, NoTask
  <2>3. task \in [Jobs -> Task] /\ thread \in [Jobs -> Threads]
    BY <2>2 DEF SessionsInit, Threads
  <2>4. NoSession \in Session
    BY DEF Session
  <2>5. open \subseteq Jobs /\ loop \in Nat /\ loops \in Nat /\ loop <= loops
    BY DEF SessionsInit
  <2> QED BY <2>1, <2>3, <2>4, <2>5 DEF SessionsInit, Typed
<1>2. LaneIn
  BY DEF SessionsInit, LaneIn, Replaced, NoTask, Past
<1>3. \A j \in Jobs : TaskIn(j) /\ OwnedBy(session, j) /\ OwnedBy(retiring, j)
  <2>1. "none" \notin Jobs
    BY JobsAssumption DEF Jobs
  <2> SUFFICES ASSUME NEW j \in Jobs PROVE TaskIn(j) /\ OwnedBy(session, j) /\ OwnedBy(retiring, j)
    OBVIOUS
  <2>2. thread[j] = "off" /\ task[j] = NoTask /\ open = {}
    BY DEF SessionsInit
  <2>3. OwnedBy(session, j) /\ OwnedBy(retiring, j)
    BY <2>1 DEF SessionsInit, OwnedBy, MayOwn, NoSession
  <2> QED BY <2>2, <2>3 DEF TaskIn, NoTask, Past
<1> QED BY <1>1, <1>2, <1>3 DEF SInv, SessionsInit

\* A process has a job.
LEMMA HasJob ==
    ASSUME NEW process \in Session
    PROVE  process # NoSession => process.job \in Jobs /\ process.job # "none"
BY JobsAssumption DEF Session, Jobs

\* A thread that has a task waits, and one that waits has a task.
LEMMA Waiting ==
    ASSUME SInv, NEW j \in Jobs
    PROVE  /\ task[j].at \in Past \cup {"queued", "ended"} => thread[j] = "waiting"
           /\ task[j].kind # "none" => thread[j] = "waiting"
           /\ thread[j] = "waiting" => task[j].loop = loop /\ loop # 0 /\ task[j].kind # "none"
BY DEF SInv, TaskIn, NoTask, Past

-----------------------------------------------------------------------------
(* The threads of the jobs.                                                 *)

\* A thread moves between places where it has no task, and nothing else changes.
LEMMA MovesKeeps ==
    ASSUME SInv, NEW j \in Jobs, NEW to \in Threads \ {"waiting"}, thread[j] # "waiting", Moves(j, to),
           open' = IF to \in {"between", "handler", "released"} THEN open \cup {j} ELSE open \ {j},
           thread[j] = "off" \/ j \in open,
           thread[j] = "off" \/ to = "off" => session.job # j /\ retiring.job # j,
           to = "off" => loop = 0,
           UNCHANGED <<loop, loops, task, laneVars, dictationVars>>
    PROVE  SInv'
<1>1. Typed'
  BY DEF SInv, Typed, Moves, laneVars, dictationVars
<1>2. LaneIn'
  BY DEF SInv, LaneIn, Replaced, laneVars, dictationVars
<1>3. ASSUME NEW i \in Jobs
      PROVE  (TaskIn(i) /\ OwnedBy(session, i) /\ OwnedBy(retiring, i))'
  <2>1. TaskIn(i) /\ OwnedBy(session, i) /\ OwnedBy(retiring, i)
    BY DEF SInv
  <2>2. thread'[i] = IF i = j THEN to ELSE thread[i]
    BY DEF SInv, Typed, Moves
  <2>3. TaskIn(i)'
    <3>1. CASE i = j
      BY <3>1, <2>1, <2>2 DEF TaskIn, Threads, laneVars, NoTask, Past
    <3>2. CASE i # j
      <4>1. thread'[i] = thread[i] /\ (i \in open' <=> i \in open)
        BY <3>2, <2>2
      <4> QED BY <4>1, <2>1 DEF TaskIn, laneVars
    <3> QED BY <3>1, <3>2
  <2>4. OwnedBy(session, i)' /\ OwnedBy(retiring, i)'
    <3>1. CASE i = j
      BY <3>1, <2>1, <2>2 DEF OwnedBy, MayOwn, laneVars
    <3>2. CASE i # j
      <4>1. thread'[i] = thread[i] /\ (i \in open' <=> i \in open)
        BY <3>2, <2>2
      <4> QED BY <4>1, <2>1 DEF OwnedBy, MayOwn, laneVars
    <3> QED BY <3>1, <3>2
  <2> QED BY <2>3, <2>4
<1>4. thread'[j] = to
  BY DEF SInv, Typed, Moves
<1> QED BY <1>1, <1>2, <1>3, <1>4 DEF SInv

\* A thread starts a task: with the loop there is, or a new one.
LEMMA SubmitKeeps ==
    ASSUME SInv, NEW j \in Jobs, NEW kind \in {"call", "state", "release"},
           NEW model \in Models \cup {"none"}, Submit(j, kind, model), thread[j] # "waiting", thread[j] # "off",
           kind = "release" <=> j \notin open,
           UNCHANGED <<open, session, retiring, busy, dictationVars>>
    PROVE  SInv'
<1> DEFINE new == IF loop = 0 THEN loops + 1 ELSE loop
<1>1. /\ loop' = new /\ loops' \in Nat /\ new \in Nat /\ new # 0 /\ new <= loops'
      /\ task' = [task EXCEPT ![j] = [kind |-> kind, at |-> "queued", model |-> model, loop |-> new]]
      /\ queue' = queue \/ queue' = Append(queue, j)
      /\ thread' = [thread EXCEPT ![j] = "waiting"]
  BY DEF Submit, Moves, SInv, Typed
<1> HIDE DEF new
<1>2. /\ queue' \in Seq(Jobs)
      /\ queue # <<>> => queue' # <<>> /\ Head(queue') = Head(queue)
  <2>1. CASE queue' = queue
    BY <2>1 DEF SInv, Typed
  <2>2. CASE queue' = Append(queue, j)
    BY <2>2, AppendProperties, HeadTailAppend DEF SInv, Typed
  <2> QED BY <1>1, <2>1, <2>2
<1>3. /\ task' \in [Jobs -> Task] /\ thread' \in [Jobs -> Threads]
      /\ task'[j] = [kind |-> kind, at |-> "queued", model |-> model, loop |-> new] /\ thread'[j] = "waiting"
      /\ \A i \in Jobs \ {j} : task'[i] = task[i] /\ thread'[i] = thread[i]
  BY <1>1 DEF SInv, Typed, Task, Places, Threads
<1>4. task[j] = NoTask
  BY DEF SInv, TaskIn
<1>5. Typed'
  BY <1>1, <1>2, <1>3 DEF SInv, Typed, dictationVars
<1>6. LaneIn'
  <2>1. \A i \in Jobs : task'[i].at \in Past => task[i].at \in Past /\ task'[i].at = task[i].at
    BY <1>3 DEF Past
  <2>2. retiring # NoSession => queue # <<>> /\ Head(queue) \in Jobs \ {j}
    BY <1>4 DEF SInv, LaneIn, Replaced, NoTask, Typed
  <2>3. retiring' # NoSession => queue' # <<>> /\ task'[Head(queue')].at \in {"replacing", "dropping"}
    BY <1>2, <1>3, <2>2 DEF SInv, LaneIn, Replaced
  <2> QED BY <2>1, <2>3 DEF SInv, LaneIn, Replaced, dictationVars, Past
<1>7. ASSUME NEW i \in Jobs
      PROVE  (TaskIn(i) /\ OwnedBy(session, i) /\ OwnedBy(retiring, i))'
  <2>1. TaskIn(i) /\ OwnedBy(session, i) /\ OwnedBy(retiring, i) /\ thread[i] \in Threads
    BY DEF SInv, Typed
  <2>2. CASE i = j
    <3>1. TaskIn(i)'
      BY <1>1, <1>3, <2>1, <2>2 DEF TaskIn, Past
    <3>2. OwnedBy(session, i)' /\ OwnedBy(retiring, i)'
      BY <1>1, <1>3, <2>1, <2>2 DEF OwnedBy, MayOwn
    <3> QED BY <3>1, <3>2
  <2>3. CASE i # j
    <3>1. task'[i] = task[i] /\ thread'[i] = thread[i]
      BY <1>3, <2>3
    <3>2. thread[i] = "waiting" => loop' = loop
      BY <1>1, <2>1 DEF TaskIn, new
    <3>3. TaskIn(i)'
      BY <1>2, <2>1, <3>1, <3>2 DEF TaskIn, Past, NoTask
    <3>4. OwnedBy(session, i)' /\ OwnedBy(retiring, i)'
      BY <1>1, <2>1, <3>1 DEF OwnedBy, MayOwn
    <3> QED BY <3>3, <3>4
  <2> QED BY <2>2, <2>3
<1> QED BY <1>3, <1>5, <1>6, <1>7 DEF SInv

LEMMA FinishedKeeps ==
    ASSUME SInv, NEW j \in Jobs, Finished(j)
    PROVE  SInv'
<1> DEFINE to == CASE task[j].kind = "call" -> "handler" [] task[j].kind = "state" -> "between" [] OTHER -> "off"
<1>1. /\ thread[j] = "waiting" /\ task[j].at = "ended"
      /\ thread' = [thread EXCEPT ![j] = to] /\ task' = [task EXCEPT ![j] = NoTask]
      /\ loop' = IF open = {} /\ Inflight \ {j} = {} THEN 0 ELSE loop
      /\ UNCHANGED <<open, loops, queue, session, retiring, busy, dictation, block, resident>>
  BY DEF Finished, Moves, laneVars, dictationVars, Idle
<1>2. TaskIn(j) /\ OwnedBy(session, j) /\ OwnedBy(retiring, j) /\ Typed /\ LaneIn
  BY DEF SInv
<1>3. /\ to = "off" <=> task[j].kind = "release"
      /\ to \in {"handler", "between", "off"}
  BY <1>1, <1>2 DEF TaskIn
<1> HIDE DEF to
<1>4. /\ task' \in [Jobs -> Task] /\ thread' \in [Jobs -> Threads] /\ task'[j] = NoTask /\ thread'[j] = to
      /\ \A i \in Jobs \ {j} : task'[i] = task[i] /\ thread'[i] = thread[i]
  BY <1>1, <1>2, <1>3 DEF Typed, Task, Places, Threads, NoTask
<1>5. Typed'
  BY <1>1, <1>2, <1>4 DEF Typed
<1>6. LaneIn'
  <2>1. \A i \in Jobs : task'[i].at \in Past => task[i].at \in Past /\ task'[i].at = task[i].at
    BY <1>4 DEF Past, NoTask
  <2>2. retiring # NoSession => queue # <<>> /\ Head(queue) \in Jobs \ {j}
    BY <1>1, <1>2 DEF LaneIn, Replaced, Typed
  <2>3. retiring' # NoSession => queue' # <<>> /\ task'[Head(queue')].at \in {"replacing", "dropping"}
    BY <1>1, <1>2, <1>4, <2>2 DEF LaneIn, Replaced
  <2> QED BY <1>1, <1>2, <2>1, <2>3 DEF LaneIn, Replaced, Past
\* The loop ends when no other task and no open job is there.
<1>7. ASSUME NEW i \in Jobs
      PROVE  (TaskIn(i) /\ OwnedBy(session, i) /\ OwnedBy(retiring, i))'
  <2>1. TaskIn(i) /\ OwnedBy(session, i) /\ OwnedBy(retiring, i)
    BY DEF SInv
  <2>2. i \in open => loop' = loop
    BY <1>1
  <2>3. CASE i = j
    <3>1. TaskIn(i)'
      BY <1>1, <1>3, <1>4, <2>1, <2>3 DEF TaskIn, NoTask, Past
    <3>2. OwnedBy(session, i)' /\ OwnedBy(retiring, i)'
      BY <1>1, <1>3, <1>4, <2>1, <2>2, <2>3 DEF OwnedBy, MayOwn, NoTask
    <3> QED BY <3>1, <3>2
  <2>4. CASE i # j
    <3>1. task'[i] = task[i] /\ thread'[i] = thread[i]
      BY <1>4, <2>4
    <3>2. thread[i] = "waiting" => loop' = loop
      BY <1>1, <2>4 DEF Inflight
    <3>3. TaskIn(i)'
      BY <1>1, <2>1, <3>1, <3>2 DEF TaskIn
    <3>4. OwnedBy(session, i)' /\ OwnedBy(retiring, i)'
      BY <1>1, <2>1, <2>2, <3>1 DEF OwnedBy, MayOwn
    <3> QED BY <3>3, <3>4
  <2> QED BY <2>3, <2>4
<1>8. (\A i \in Jobs : thread'[i] = "off") => loop' = 0
  <2> SUFFICES ASSUME \A i \in Jobs : thread'[i] = "off" PROVE loop' = 0
    OBVIOUS
  <2>1. \A i \in Jobs : TaskIn(i)'
    BY <1>7
  <2>2. open = {}
    BY <1>1, <1>2, <2>1 DEF TaskIn, Typed
  <2>3. Inflight \ {j} = {}
    BY <1>4 DEF Inflight
  <2> QED BY <1>1, <2>2, <2>3
<1> QED BY <1>5, <1>6, <1>7, <1>8 DEF SInv

LEMMA ThreadKeeps ==
    ASSUME SInv, NEW j \in Jobs,
           ThreadStep(j) \/ OpenJob(j) \/ \E m \in Models : CallModel(j, m)
    PROVE  SInv'
<1>1. /\ TaskIn(j) /\ OwnedBy(session, j) /\ OwnedBy(retiring, j) /\ open \subseteq Jobs
      /\ (retiring # NoSession => loop # 0)
  <2>1. retiring # NoSession => Head(queue) \in Jobs /\ thread[Head(queue)] = "waiting"
    BY Waiting DEF SInv, LaneIn, Replaced, Typed, Past
  <2> QED BY <2>1, Waiting DEF SInv, Typed
<1>2. CASE OpenJob(j)
  BY <1>1, <1>2, MovesKeeps DEF OpenJob, OwnedBy, MayOwn, Threads
<1>3. CASE RunNext(j)
  <2>1. j \in open /\ open = open \cup {j}
    BY <1>1, <1>3 DEF RunNext, TaskIn
  <2> QED BY <1>3, <2>1, MovesKeeps DEF RunNext, Threads
<1>4. CASE EndCheckpoint(j)
  <2>1. j \in open /\ open = open \cup {j}
    BY <1>1, <1>4 DEF EndCheckpoint, TaskIn
  <2> QED BY <1>4, <2>1, MovesKeeps DEF EndCheckpoint, Threads
<1>5. CASE ReleaseCpu(j)
  <2>1. j \in open /\ open = open \cup {j}
    BY <1>1, <1>5 DEF ReleaseCpu, TaskIn
  <2>2. CASE loop = 0
    BY <1>5, <2>1, <2>2, MovesKeeps DEF ReleaseCpu, Threads, laneVars
  <2>3. CASE loop # 0
    BY <1>5, <2>1, <2>3, SubmitKeeps DEF ReleaseCpu
  <2> QED BY <2>2, <2>3
<1>6. CASE CloseJob(j)
  <2>1. j \in open
    BY <1>1, <1>6 DEF CloseJob, TaskIn
  <2>2. loop = 0 => session.job # j /\ retiring.job # j
    BY <1>1, <2>1 DEF OwnedBy, MayOwn
  <2> QED BY <1>6, <2>1, <2>2, MovesKeeps DEF CloseJob, Threads
<1>7. CASE ReleaseOwned(j)
  <2>1. j \notin open
    BY <1>1, <1>7 DEF ReleaseOwned, TaskIn
  <2> QED BY <1>7, <2>1, SubmitKeeps DEF ReleaseOwned
<1>8. CASE Finished(j)
  BY <1>8, FinishedKeeps
<1>9. ASSUME NEW m \in Models, CallModel(j, m) PROVE SInv'
  <2>1. j \in open
    BY <1>1, <1>9 DEF CallModel, TaskIn
  <2> QED BY <1>9, <2>1, SubmitKeeps DEF CallModel
<1> QED BY <1>2, <1>3, <1>4, <1>5, <1>6, <1>7, <1>8, <1>9 DEF ThreadStep

-----------------------------------------------------------------------------
(* The tasks on the loop.                                                   *)

\* The holder of the lock, or a task that needs none, goes on.
Advances(j, to) ==
    /\ Goes(j, to) /\ UNCHANGED <<threadVars, dictation, block>> /\ thread[j] = "waiting"
    /\ task[j].at # "ended"
    /\ \/ task[j].kind = "call" /\ to \in Past \cup {"ended"}
       \/ task[j].kind = "state" /\ to = "ended"
       \/ task[j].kind = "release" /\ to \in {"dropping", "ended"}
    /\ \/ queue' = queue /\ (to = "ended" \/ Owns(j))
       \/ queue' = Tail(queue) /\ Owns(j) /\ to = "ended"

LEMMA AdvanceKeeps ==
    ASSUME SInv, NEW j \in Jobs, NEW to, Advances(j, to)
    PROVE  /\ \A i \in Jobs : TaskIn(i)'
           /\ \A i \in Jobs : MayOwn(i) /\ (i = j => task[j].kind # "release" \/ to # "ended") => MayOwn(i)'
           /\ task' \in [Jobs -> Task] /\ queue' \in Seq(Jobs) /\ task'[j].at = to
           /\ \A i \in Jobs \ {j} : task'[i] = task[i] /\ (Owns(j) => task[i].at \notin Past)
<1>1. /\ task' = [task EXCEPT ![j].at = to] /\ UNCHANGED <<thread, open, loop, loops>>
      /\ to \in Past \cup {"ended"} /\ thread[j] = "waiting"
  BY DEF Advances, Goes, threadVars, Past
<1>2. task[j] \in Task /\ Typed
  BY DEF SInv, Typed
<1>3. /\ task' \in [Jobs -> Task]
      /\ task'[j].at = to /\ task'[j].kind = task[j].kind /\ task'[j].loop = task[j].loop
      /\ \A i \in Jobs \ {j} : task'[i] = task[i]
  <2> DEFINE new == [task[j] EXCEPT !.at = to]
  <2>1. new \in Task /\ new.at = to /\ new.kind = task[j].kind /\ new.loop = task[j].loop
    BY <1>1, <1>2 DEF Task, Places
  <2>2. task' = [task EXCEPT ![j] = new]
    BY <1>1
  <2> HIDE DEF new
  <2> QED BY <1>2, <2>1, <2>2 DEF Typed
<1>4. queue' \in Seq(Jobs)
  <2>1. CASE queue' = queue
    BY <1>2, <2>1 DEF Typed
  <2>2. CASE queue' = Tail(queue) /\ Owns(j)
    BY <1>2, <2>2, HeadTailProperties DEF Typed, Owns
  <2> QED BY <2>1, <2>2 DEF Advances
<1>5. \A i \in Jobs \ {j} : Owns(j) => task[i].at \notin Past
  BY DEF SInv, TaskIn, Owns
<1>6. ASSUME NEW i \in Jobs PROVE TaskIn(i)'
  <2>1. TaskIn(i)
    BY DEF SInv
  <2>2. CASE i = j
    BY <1>1, <1>3, <2>1, <2>2 DEF TaskIn, Advances, Past, Owns
  <2>3. CASE i # j
    <3>1. task'[i] = task[i]
      BY <1>3, <2>3
    <3>2. task[i].at \in Past => queue' # <<>> /\ Head(queue') = i
      BY <1>5, <2>1, <2>3 DEF TaskIn, Advances
    <3> QED BY <1>1, <2>1, <3>1, <3>2 DEF TaskIn
  <2> QED BY <2>2, <2>3
<1>7. ASSUME NEW i \in Jobs, MayOwn(i), i = j => task[j].kind # "release" \/ to # "ended"
      PROVE  MayOwn(i)'
  BY <1>1, <1>3, <1>7 DEF MayOwn
<1> QED BY <1>3, <1>4, <1>5, <1>6, <1>7

\* What is left to show of a step: the event and the processes.
LEMMA TaskKeeps ==
    ASSUME SInv, NEW j \in Jobs, NEW to, Advances(j, to),
           busy' \in BOOLEAN, resident' \in BOOLEAN, session' \in Session, retiring' \in Session,
           LaneIn', \A i \in Jobs : OwnedBy(session, i)' /\ OwnedBy(retiring, i)'
    PROVE  SInv'
<1>1. /\ \A i \in Jobs : TaskIn(i)'
      /\ task' \in [Jobs -> Task] /\ queue' \in Seq(Jobs)
  BY AdvanceKeeps
<1>2. Typed'
  BY <1>1 DEF Advances, threadVars, SInv, Typed
<1> QED BY <1>1, <1>2 DEF SInv, Advances, threadVars

\* The processes keep their owners.
LEMMA OwnersKept ==
    ASSUME SInv, NEW j \in Jobs, NEW to, Advances(j, to), task[j].kind # "release" \/ to # "ended",
           session' \in {session, NoSession, [job |-> j, model |-> task[j].model, live |-> TRUE]},
           retiring' \in {session, retiring, NoSession}, "none" \notin Jobs
    PROVE  \A i \in Jobs : OwnedBy(session, i)' /\ OwnedBy(retiring, i)'
<1> SUFFICES ASSUME NEW i \in Jobs PROVE OwnedBy(session, i)' /\ OwnedBy(retiring, i)'
  OBVIOUS
<1>1. MayOwn(i) => MayOwn(i)'
  BY AdvanceKeeps
<1>2. OwnedBy(session, i) /\ OwnedBy(retiring, i)
  BY DEF SInv
<1>3. MayOwn(j)
  BY Waiting DEF Advances, MayOwn, SInv, TaskIn
<1> QED BY <1>1, <1>2, <1>3 DEF OwnedBy, NoSession

\* The lock is given up: nothing retires, and the event is as the session says.
LEMMA LeavesKeeps ==
    ASSUME SInv, NEW j \in Jobs, Owns(j), Leaves(j), task[j].kind \in {"call", "release"},
           UNCHANGED <<threadVars, session, dictation, block>>, retiring' = NoSession,
           resident' = resident, task[j].kind = "release" => session.job # j, thread[j] = "waiting",
           task[j].at # "ended"
    PROVE  SInv'
<1>1. Advances(j, "ended")
  BY DEF Leaves, Advances
<1>2. "none" \notin Jobs
  BY JobsAssumption DEF Jobs
<1>3. \A i \in Jobs : task'[i].at \notin Past
  <2>1. /\ task'[j].at = "ended"
        /\ \A i \in Jobs \ {j} : task'[i] = task[i] /\ task[i].at \notin Past
    BY <1>1, AdvanceKeeps
  <2> QED BY <2>1 DEF Past
<1>4. busy' = (session # NoSession) /\ session' \in Session /\ retiring' \in Session
  BY DEF Leaves, InUse, SInv, Typed, Session
<1>5. LaneIn'
  BY <1>3, <1>4 DEF LaneIn, Replaced, SInv, Past
<1>6. ASSUME NEW i \in Jobs PROVE OwnedBy(session, i)' /\ OwnedBy(retiring, i)'
  <2>1. OwnedBy(session, i)
    BY DEF SInv
  <2>2. MayOwn(i) /\ (i = j => task[j].kind # "release") => MayOwn(i)'
    BY <1>1, AdvanceKeeps
  <2> QED BY <1>2, <2>1, <2>2 DEF OwnedBy, NoSession
<1> QED BY <1>1, <1>4, <1>5, <1>6, TaskKeeps DEF SInv, Typed

LEMMA TaskStepKeeps ==
    ASSUME SInv, NEW j \in Jobs, TaskStep(j)
    PROVE  SInv'
<1>0. /\ Typed /\ LaneIn /\ TaskIn(j) /\ OwnedBy(session, j) /\ OwnedBy(retiring, j) /\ "none" \notin Jobs
      /\ NoSession \in Session /\ task[j] \in Task
  BY JobsAssumption DEF SInv, Jobs, Session, Typed
\* The holder of the lock that is past the gate is not beside dictation, and while
\* it does not end a process nothing retires.
<1>1. task[j].at \in Past =>
        /\ thread[j] = "waiting" /\ Owns(j) /\ busy
        /\ task[j].at \notin {"replacing", "dropping"} => retiring = NoSession
        /\ task[j].at # "gate" => dictation # "held"
  BY <1>0, Waiting DEF TaskIn, LaneIn, Replaced, Owns, Past
<1>2. \A to : Advances(j, to) =>
        /\ task'[j].at = to
        /\ \A i \in Jobs \ {j} : task'[i] = task[i] /\ (Owns(j) => task[i].at \notin Past)
  BY AdvanceKeeps
<1>3. CASE State(j)
  <2>1. Advances(j, "ended") /\ UNCHANGED <<session, retiring, resident, dictation, block, queue>>
    BY <1>0, <1>3, Waiting DEF State, Runs, Advances, dictationVars
  <2>2. busy' \in BOOLEAN /\ session' \in Session /\ retiring' \in Session
    BY <1>0, <1>3, <2>1 DEF State, InUse, Locked, Typed
  <2>3. \A i \in Jobs : OwnedBy(session, i)' /\ OwnedBy(retiring, i)'
    BY <1>0, <2>1, <1>3, OwnersKept DEF State, Runs
  <2>4. LaneIn'
    <3>1. \A i \in Jobs : task'[i].at \in Past => task'[i].at = task[i].at
      BY <1>2, <2>1 DEF Past
    <3>2. retiring # NoSession => queue # <<>> /\ Head(queue) # j
      BY <1>0, <1>3 DEF LaneIn, Replaced, State, Runs
    <3>3. retiring' # NoSession => queue' # <<>> /\ task'[Head(queue')].at \in {"replacing", "dropping"}
      <4>1. queue # <<>> => Head(queue) \in Jobs
        BY <1>0 DEF Typed
      <4> QED BY <1>0, <1>2, <2>1, <3>2, <4>1 DEF LaneIn, Replaced
    <3>4. busy' = InUse(session, retiring, Locked)
      BY <1>3 DEF State
    <3>5. \A i \in Jobs : task[i].at \in Past => Locked
      BY DEF SInv, TaskIn, Locked, Past
    <3> QED BY <1>0, <2>1, <3>1, <3>3, <3>4, <3>5 DEF LaneIn, Replaced, InUse, Past
  <2> QED BY <1>0, <2>1, <2>2, <2>3, <2>4, TaskKeeps DEF Typed
<1>4. CASE TakeLane(j)
  <2>1. /\ Advances(j, "gate") /\ UNCHANGED <<queue, session, retiring, resident, dictation, block>> /\ busy'
        /\ task[j].at = "queued" /\ task[j].kind = "call"
    BY <1>0, <1>4, Waiting DEF TakeLane, Runs, Advances, dictationVars, Past
  <2>2. \A i \in Jobs : OwnedBy(session, i)' /\ OwnedBy(retiring, i)'
    BY <1>0, <2>1, OwnersKept
  <2>3. LaneIn'
    <3>1. retiring = NoSession
      BY <1>0, <2>1, <1>4 DEF LaneIn, Replaced, TakeLane, Owns
    <3> QED BY <1>0, <1>2, <2>1, <3>1 DEF LaneIn, Replaced, Past
  <2> QED BY <1>0, <2>1, <2>2, <2>3, TaskKeeps DEF Typed
<1>5. CASE Gate(j)
  <2>1. /\ task[j].at = "gate" /\ task[j].kind = "call" /\ Owns(j) /\ thread[j] = "waiting"
        /\ retiring = NoSession /\ UNCHANGED <<threadVars, session, retiring, dictation, block, resident>>
    BY <1>1, <1>5 DEF Gate, Runs, Past, dictationVars
  <2>2. CASE block
    BY <1>5, <2>1, <2>2, LeavesKeeps DEF Gate
  <2>3. CASE ~block
    <3>1. Advances(j, "chosen") /\ UNCHANGED <<queue, busy>>
      BY <1>5, <2>1, <2>3 DEF Gate, Advances, Past
    <3>2. \A i \in Jobs : OwnedBy(session, i)' /\ OwnedBy(retiring, i)'
      BY <1>0, <2>1, <3>1, OwnersKept
    <3>3. LaneIn'
      BY <1>0, <1>1, <1>2, <2>1, <2>3, <3>1 DEF LaneIn, Replaced, Past
    <3> QED BY <1>0, <2>1, <3>1, <3>2, <3>3, TaskKeeps DEF Typed
  <2> QED BY <2>2, <2>3
<1>6. ASSUME NEW same \in BOOLEAN, Choose(j, same) PROVE SInv'
  <2>1. /\ task[j].at = "chosen" /\ task[j].kind = "call" /\ Owns(j) /\ thread[j] = "waiting" /\ busy
        /\ retiring = NoSession /\ UNCHANGED <<threadVars, queue, busy, dictation, block, resident>>
        /\ dictation # "held"
    BY <1>1, <1>6 DEF Choose, Runs, Past, dictationVars
  <2>2. CASE same \/ session = NoSession
    <3>1. PICK to \in {"calling", "suspending"} :
            Goes(j, to) /\ UNCHANGED <<session, retiring>> /\ (to = "suspending" => session = NoSession)
      BY <1>6, <2>2 DEF Choose
    <3>2. Advances(j, to)
      BY <2>1, <3>1 DEF Advances, Past
    <3>3. \A i \in Jobs : OwnedBy(session, i)' /\ OwnedBy(retiring, i)'
      BY <1>0, <2>1, <3>1, <3>2, OwnersKept
    <3>4. LaneIn'
      <4>1. \A i \in Jobs : task'[i].at \in Past => i = j
        BY <1>2, <2>1, <3>2
      <4>2. task'[j].at = to /\ (to = "suspending" => session = NoSession)
        BY <1>2, <3>1, <3>2
      <4>3. session # NoSession => ~resident
        BY <1>0 DEF LaneIn
      <4> QED BY <2>1, <3>1, <4>1, <4>2, <4>3, <1>0 DEF LaneIn, Replaced, Past
    <3> QED BY <1>0, <2>1, <3>1, <3>2, <3>3, <3>4, TaskKeeps DEF Typed
  <2>3. CASE ~same /\ session # NoSession
    <3>1. Goes(j, "replacing") /\ retiring' = session /\ session' = NoSession
      BY <1>6, <2>3 DEF Choose
    <3>2. Advances(j, "replacing")
      BY <2>1, <3>1 DEF Advances, Past
    <3>3. \A i \in Jobs : OwnedBy(session, i)' /\ OwnedBy(retiring, i)'
      BY <1>0, <2>1, <3>1, <3>2, OwnersKept
    <3>4. LaneIn'
      BY <1>0, <1>2, <2>1, <2>3, <3>1, <3>2 DEF LaneIn, Replaced, Past, Owns
    <3> QED BY <1>0, <2>1, <3>1, <3>2, <3>3, <3>4, TaskKeeps DEF Typed
  <2> QED BY <2>2, <2>3
<1>7. CASE Dropped(j)
  <2>1. /\ task[j].at \in {"replacing", "dropping"} /\ Owns(j) /\ thread[j] = "waiting" /\ busy
        /\ retiring' = NoSession /\ UNCHANGED <<threadVars, session, dictation, block, resident>>
        /\ dictation # "held" /\ task[j].kind \in {"call", "release"}
        /\ (task[j].at = "replacing" => task[j].kind = "call")
    BY <1>0, <1>1, <1>7 DEF Dropped, Past, dictationVars, TaskIn
  <2>2. CASE task[j].at = "replacing"
    <3>1. Goes(j, "suspending") /\ UNCHANGED <<queue, busy>>
      BY <1>7, <2>2 DEF Dropped
    <3>2. Advances(j, "suspending")
      BY <2>1, <2>2, <3>1 DEF Advances, Past
    <3>3. \A i \in Jobs : OwnedBy(session, i)' /\ OwnedBy(retiring, i)'
      BY <1>0, <2>1, <2>2, <3>1, <3>2, OwnersKept
    <3>4. LaneIn'
      BY <1>0, <1>2, <2>1, <3>1, <3>2 DEF LaneIn, Replaced, Past
    <3> QED BY <1>0, <2>1, <3>1, <3>2, <3>3, <3>4, TaskKeeps DEF Typed
  <2>3. CASE task[j].at = "dropping"
    <3>1. Leaves(j)
      BY <1>7, <2>3 DEF Dropped
    <3>2. session.job # j
      BY <1>0, <2>3 DEF LaneIn, Replaced, NoSession
    <3>3. task[j].at # "ended" /\ UNCHANGED <<threadVars, session, dictation, block>> /\ resident' = resident
      BY <2>1, <2>3
    <3> QED BY <2>1, <3>1, <3>2, <3>3, LeavesKeeps
  <2> QED BY <2>1, <2>2, <2>3
<1>8. CASE Suspend(j)
  <2>1. /\ task[j].at = "suspending" /\ task[j].kind = "call" /\ Owns(j) /\ thread[j] = "waiting" /\ busy
        /\ retiring = NoSession /\ dictation # "held"
        /\ session = NoSession /\ UNCHANGED <<threadVars, session, retiring, dictation, block>>
    BY <1>0, <1>1, <1>8 DEF Suspend, Runs, Past, LaneIn, Replaced
  <2>2. Goes(j, "loading") /\ resident' = FALSE /\ UNCHANGED <<queue, busy>>
    BY <1>8, <2>1 DEF Suspend
  <2>3. Advances(j, "loading")
    BY <2>1, <2>2 DEF Advances, Past
  <2>4. \A i \in Jobs : OwnedBy(session, i)' /\ OwnedBy(retiring, i)'
    BY <1>0, <2>1, <2>3, OwnersKept
  <2>5. LaneIn'
    BY <1>0, <1>2, <2>1, <2>2, <2>3 DEF LaneIn, Replaced, Past
  <2> QED BY <1>0, <2>1, <2>2, <2>3, <2>4, <2>5, TaskKeeps DEF Typed
<1>9. CASE Load(j)
  <2> DEFINE new == [job |-> j, model |-> task[j].model, live |-> TRUE]
  <2>1. /\ task[j].at = "loading" /\ task[j].kind = "call" /\ Owns(j) /\ thread[j] = "waiting" /\ busy
        /\ retiring = NoSession /\ dictation # "held" /\ ~resident
        /\ session' = new /\ UNCHANGED <<threadVars, queue, retiring, busy, resident, dictation, block>>
        /\ Goes(j, "calling")
    BY <1>0, <1>1, <1>9 DEF Load, Runs, Past, LaneIn, dictationVars
  <2>2. new \in Session
    BY <1>0 DEF Session, Task
  <2>3. Advances(j, "calling")
    BY <2>1 DEF Advances, Past
  <2>4. \A i \in Jobs : OwnedBy(session, i)' /\ OwnedBy(retiring, i)'
    BY <1>0, <2>1, <2>3, OwnersKept
  <2>5. LaneIn'
    <3>1. task'[j].at = "calling" /\ \A i \in Jobs \ {j} : task'[i] = task[i] /\ task[i].at \notin Past
      BY <1>2, <2>1, <2>3
    <3> QED BY <1>0, <2>1, <3>1 DEF LaneIn, Replaced, Past
  <2> QED BY <1>0, <2>1, <2>2, <2>3, <2>4, <2>5, TaskKeeps DEF Typed
<1>10. ASSUME NEW ok \in BOOLEAN, Returns(j, ok) PROVE SInv'
  <2>1. /\ task[j].at = "calling" /\ task[j].kind = "call" /\ Owns(j) /\ thread[j] = "waiting" /\ busy
        /\ retiring = NoSession /\ dictation # "held"
        /\ UNCHANGED <<threadVars, resident, dictation, block>>
    BY <1>1, <1>10 DEF Returns, Runs, Past, dictationVars
  <2>2. CASE ok /\ j \in open
    <3>1. Leaves(j) /\ UNCHANGED session /\ retiring' = NoSession
      BY <1>10, <2>1, <2>2 DEF Returns
    <3> QED BY <2>1, <3>1, LeavesKeeps
  <2>3. CASE ~(ok /\ j \in open)
    <3>1. Goes(j, "dropping") /\ retiring' = session /\ session' = NoSession /\ UNCHANGED <<queue, busy>>
      BY <1>10, <2>3 DEF Returns
    <3>2. Advances(j, "dropping")
      BY <2>1, <3>1 DEF Advances, Past
    <3>3. \A i \in Jobs : OwnedBy(session, i)' /\ OwnedBy(retiring, i)'
      BY <1>0, <2>1, <3>1, <3>2, OwnersKept
    <3>4. LaneIn'
      BY <1>0, <1>2, <2>1, <3>1, <3>2 DEF LaneIn, Replaced, Past, Owns
    <3> QED BY <1>0, <2>1, <3>1, <3>2, <3>3, <3>4, TaskKeeps DEF Typed
  <2> QED BY <2>2, <2>3
<1>11. CASE Release(j)
  <2>1. /\ task[j].at = "queued" /\ task[j].kind = "release" /\ Owns(j) /\ thread[j] = "waiting"
        /\ UNCHANGED <<threadVars, resident, dictation, block>>
    BY <1>0, <1>11, Waiting DEF Release, Runs, dictationVars
  <2>2. retiring = NoSession
    BY <1>0, <2>1 DEF LaneIn, Owns
  <2>3. CASE session # NoSession /\ session.job = j
    <3>1. Goes(j, "dropping") /\ retiring' = session /\ session' = NoSession /\ UNCHANGED <<queue, busy>>
      BY <1>11, <2>3 DEF Release
    <3>2. Advances(j, "dropping")
      BY <2>1, <3>1 DEF Advances, Past
    <3>3. \A i \in Jobs : OwnedBy(session, i)' /\ OwnedBy(retiring, i)'
      BY <1>0, <2>1, <3>1, <3>2, OwnersKept
    <3>4. LaneIn'
      BY <1>0, <1>2, <2>1, <2>3, <3>1, <3>2 DEF LaneIn, Replaced, Past, Owns
    <3> QED BY <1>0, <2>1, <3>1, <3>2, <3>3, <3>4, TaskKeeps DEF Typed
  <2>4. CASE ~(session # NoSession /\ session.job = j)
    <3>1. Leaves(j) /\ UNCHANGED session /\ retiring' = NoSession /\ session.job # j
      BY <1>0, <1>11, <2>2, <2>4 DEF Release, NoSession
    <3> QED BY <2>1, <3>1, LeavesKeeps
  <2> QED BY <2>3, <2>4
<1> QED BY <1>3, <1>4, <1>5, <1>6, <1>7, <1>8, <1>9, <1>10, <1>11 DEF TaskStep

-----------------------------------------------------------------------------
(* Dictation, and the theorem.                                              *)

LEMMA OthersKeep ==
    ASSUME SInv, Crash \/ Arm \/ Ready \/ EndDictation \/ IdleRelease \/ UNCHANGED sessionVars
    PROVE  SInv'
<1>0. UNCHANGED <<thread, open, loop, loops, task, queue, retiring, busy>>
  BY DEF Crash, Arm, Ready, EndDictation, IdleRelease, sessionVars, jobVars, threadVars, laneVars, dictationVars
<1>1. \A j \in Jobs : TaskIn(j)' /\ (MayOwn(j) => MayOwn(j)')
  BY <1>0 DEF SInv, TaskIn, MayOwn
<1>2. CASE Crash
  <2>1. session # NoSession /\ session' = [session EXCEPT !.live = FALSE] /\ UNCHANGED dictationVars
    BY <1>2 DEF Crash, NoSession
  <2>2. session \in [job : Jobs, model : Models \cup {"none"}, live : BOOLEAN]
    BY <2>1 DEF SInv, Typed, Session
  <2>3. session' \in Session /\ session'.job = session.job /\ session'.job \in Jobs
    BY <2>1, <2>2 DEF Session
  <2>4. session' # NoSession
    BY <2>3, JobsAssumption DEF NoSession, Jobs
  <2>5. Typed' /\ LaneIn'
    BY <1>0, <2>1, <2>3, <2>4 DEF SInv, Typed, LaneIn, dictationVars
  <2>6. \A j \in Jobs : OwnedBy(session, j)' /\ OwnedBy(retiring, j)'
    BY <1>0, <1>1, <2>3 DEF SInv, OwnedBy
  <2> QED BY <1>0, <1>1, <2>5, <2>6 DEF SInv
<1>3. CASE Arm \/ Ready \/ EndDictation \/ IdleRelease \/ UNCHANGED sessionVars
  <2>1. UNCHANGED session
    BY <1>3 DEF Arm, Ready, EndDictation, IdleRelease, sessionVars, jobVars, laneVars
  <2>2. Typed'
    BY <1>0, <1>3, <2>1 DEF SInv, Typed, Arm, Ready, EndDictation, IdleRelease, sessionVars
  <2>3. LaneIn'
    BY <1>0, <1>3, <2>1 DEF SInv, LaneIn, Typed, Arm, Ready, EndDictation, IdleRelease, sessionVars, Past
  <2>4. \A j \in Jobs : OwnedBy(session, j)' /\ OwnedBy(retiring, j)'
    BY <1>0, <1>1, <2>1 DEF SInv, OwnedBy
  <2> QED BY <1>0, <1>1, <2>2, <2>3, <2>4 DEF SInv
<1> QED BY <1>2, <1>3

LEMMA SessionsKept ==
    ASSUME SInv, [SessionsNext]_sessionVars
    PROVE  SInv'
BY TaskStepKeeps, ThreadKeeps, OthersKeep DEF SessionsNext

\* A classroom process and dictation never have the GPU at once, a job leaves no process
\* behind, and no task is left without its loop (_Lane and run_isolated of inference.py
\* with arm_dictation_at_safe_boundary), for any jobs and models.
THEOREM GpuNeverShared == SessionsSpec => []LaneShared
<1>1. SInv => LaneShared
  <2> SUFFICES ASSUME SInv PROVE LaneShared
    OBVIOUS
  <2>1. GpuAlone
    BY DEF SInv, LaneIn, GpuAlone
  <2>2. SessionsEnd
    BY DEF SInv, TaskIn, OwnedBy, MayOwn, SessionsEnd
  <2>3. LoopServes
    BY DEF SInv, TaskIn, LoopServes
  <2> QED BY <2>1, <2>2, <2>3 DEF LaneShared
<1> QED BY <1>1, SessionsStart, SessionsKept, PTL DEF SessionsSpec

-----------------------------------------------------------------------------
(* The resident workers.                                                    *)

LockedPlaces == {"reusing", "unchanged", "stopping", "loading", "unwinding"}
LockIn ==
    /\ \A t \in Tasks : at[t] \in LockedPlaces <=> lock = t
    /\ \A t \in Tasks : at[t] \in LockedPlaces \ {"stopping"} => t \in Loaders \cup {"accuracy"}
    /\ at["accuracy"] \in {"off", "loading"}
    /\ popped # None => lock # None /\ Halfway(lock)
RouteIn == route # None => tracked = {"vad", "asr"} /\ (lock # None => at[lock] \in {"reusing", "unchanged"})
ServerIn ==
    /\ at["prepare"] # "off" => lease = "preparing"
    /\ arming <=> lease = "preparing"
    /\ active => lease \in {"active", "ending"}
    /\ at["end"] # "off" => lease = "ending"
ActiveIn ==
    /\ lock \notin {None, "end", "accuracy"} => ~active
    /\ at["end"] = "stopping" => ~active
ClassroomIn ==
    /\ classroom \in {"suspending", "using"} => lease = "off"
    /\ classroom = "using" =>
         /\ tracked = {} /\ popped = None
         /\ \A t \in Loaders \cup {"accuracy"} : at[t] \notin LockedPlaces

Accounted ==
    /\ LockIn /\ RouteIn /\ ServerIn /\ ActiveIn /\ ClassroomIn
    /\ stale /\ lock \in Loaders /\ at[lock] \in {"unchanged", "loading"} => unseen
RInv == ResidentTypeOK /\ Accounted

\* Before the first dictation nobody has the lock and nothing is loaded.
LEMMA ResidentStarts == ResidentInit => RInv
<1> SUFFICES ASSUME ResidentInit PROVE RInv
  OBVIOUS
<1>1. ResidentTypeOK
  <2>1. at \in [Tasks -> {"off", "awaits", "sleeping", "locking", "reusing", "unchanged",
                        "stopping", "loading", "unwinding"}]
    BY DEF ResidentInit
  <2>2. quota \in [cancels : 0..MaxCancels, faults : 0..MaxLosses, starts : 0..MaxStarts,
                   requests : 0..MaxRequests]
    BY ResidentAssumption DEF ResidentAssumption, ResidentInit
  <2> QED
    BY <2>1, <2>2, ResidentAssumption DEF ResidentTypeOK, ResidentInit, ResidentAssumption
<1>2. Accounted
  BY DEF ResidentInit, Accounted, LockIn, RouteIn, ServerIn, ActiveIn, ClassroomIn, LockedPlaces,
         None, Tasks, Stoppers, Suspenders, Loaders
<1> QED
  BY <1>1, <1>2 DEF RInv

\* Every value a step gives a variable is of its type.
LEMMA LoadingTyped ==
    ASSUME ResidentTypeOK, NEW t \in Tasks,
           Pop(t) \/ PoppedStops \/ LoadStarts(t) \/ Loaded(t) \/ LoadFails(t) \/
              Unwound(t) \/ Reused(t) \/ FilesCompared(t) \/ Emptied(t)
    PROVE  ResidentTypeOK'
<1> USE ResidentAssumption DEF ResidentAssumption, ResidentTypeOK, None, Tasks,
        Stoppers, Suspenders, Loaders, Workers
<1>1. CASE Pop(t)
  BY <1>1 DEF Pop, Halfway, flagVars, outerVars
<1>2. CASE PoppedStops
  BY <1>2 DEF PoppedStops, flagVars, manifestVars, outerVars
<1>3. CASE LoadStarts(t)
  BY <1>3 DEF LoadStarts, StoppedAll, Halfway, To, processVars, outerVars
<1>4. CASE Loaded(t)
  BY <1>4 DEF Loaded, LoaderReturns
<1>5. CASE LoadFails(t)
  BY <1>5 DEF LoadFails, To, Charged, flagVars, manifestVars, outerVars
<1>6. CASE Unwound(t)
  BY <1>6 DEF Unwound, StoppedAll, LoaderReturns, Halfway, processVars
<1>7. CASE Reused(t)
  BY <1>7 DEF Reused, LoaderReturns, processVars, manifestVars
<1>8. CASE FilesCompared(t)
  BY <1>8 DEF FilesCompared, To, processVars, flagVars, outerVars
<1>9. CASE Emptied(t)
  BY <1>9 DEF Emptied, StoppedAll, Halfway, To, processVars, flagVars
<1> QED BY <1>1, <1>2, <1>3, <1>4, <1>5, <1>6, <1>7, <1>8, <1>9

LEMMA BackgroundTyped ==
    ASSUME ResidentTypeOK,
           RequestRefresh \/ RefreshLocked \/ RequestPrewarm \/ PrewarmLocked \/
              IdleElapses \/ IdleLocked
    PROVE  ResidentTypeOK'
<1> USE ResidentAssumption DEF ResidentAssumption, ResidentTypeOK, None, Tasks,
        Stoppers, Suspenders, Loaders, Workers
<1>1. CASE RequestRefresh
  BY <1>1 DEF RequestRefresh, BackgroundDone, To, Charged, processVars, manifestVars,
             outerVars, Background
<1>2. CASE RefreshLocked
  <2>1. at' \in [Tasks -> {"off", "awaits", "sleeping", "locking", "reusing", "unchanged",
                         "stopping", "loading", "unwinding"}]
    BY <1>2 DEF RefreshLocked, To
  <2>2. lock' \in Tasks \cup {None} /\ route' \in Routes \cup {None} /\ invalidated' \in BOOLEAN
    BY <1>2 DEF RefreshLocked
  <2>3. UNCHANGED <<processVars, ready, wanted, active, arming, stale, unseen, outerVars, quota>>
    BY <1>2 DEF RefreshLocked
  <2> QED
    BY <2>1, <2>2, <2>3 DEF processVars, outerVars
<1>3. CASE RequestPrewarm
  BY <1>3 DEF RequestPrewarm, CanPrewarm, AfterCancel, PlaceAfterCancel, CancelEffect,
             Halfway, Charged, flagVars, manifestVars, outerVars
<1>4. CASE PrewarmLocked
  <2>1. CASE CanPrewarm
    BY <1>4, <2>1 DEF PrewarmLocked, PrepareLocked, To, processVars, outerVars
  <2>2. CASE ~CanPrewarm
    BY <1>4, <2>2 DEF PrewarmLocked, To, processVars, flagVars, manifestVars, outerVars
  <2> QED
    BY <2>1, <2>2
<1>5. CASE IdleElapses
  BY <1>5 DEF IdleElapses, To, processVars, flagVars, manifestVars, outerVars
<1>6. CASE IdleLocked
  BY <1>6 DEF IdleLocked, To, processVars, flagVars, outerVars
<1> QED BY <1>1, <1>2, <1>3, <1>4, <1>5, <1>6

LEMMA StoppingTyped ==
    ASSUME ResidentTypeOK, NEW t \in Tasks,
           SuspendForClassroom \/ Repair \/ ReleaseIdle \/ BackgroundAwaited(t) \/
              CallerTimesOut \/ StopperLocked(t)
    PROVE  ResidentTypeOK'
<1> USE ResidentAssumption DEF ResidentAssumption, ResidentTypeOK, None, Tasks,
        Stoppers, Suspenders, Loaders, Workers
<1>1. CASE SuspendForClassroom
  BY <1>1 DEF SuspendForClassroom, StopRequested, AfterCancel, PlaceAfterCancel,
             CancelEffect, Halfway, flagVars, manifestVars, Background
<1>2. CASE Repair
  BY <1>2 DEF Repair, StopRequested, AfterCancel, PlaceAfterCancel, CancelEffect,
             Halfway, Charged, flagVars, manifestVars, outerVars, Background
<1>3. CASE ReleaseIdle
  BY <1>3 DEF ReleaseIdle, StopRequested, AfterCancel, PlaceAfterCancel, CancelEffect,
             Halfway, Charged, flagVars, manifestVars, outerVars, Background
<1>4. CASE BackgroundAwaited(t)
  BY <1>4 DEF BackgroundAwaited, BackgroundDone, CancelEffect, Halfway, flagVars,
             manifestVars, outerVars, Background
<1>5. CASE CallerTimesOut
  BY <1>5 DEF CallerTimesOut, Charged, processVars, flagVars, manifestVars
<1>6. CASE StopperLocked(t)
  BY <1>6 DEF StopperLocked, To, processVars, flagVars
<1> QED BY <1>1, <1>2, <1>3, <1>4, <1>5, <1>6

LEMMA DictationTyped ==
    ASSUME ResidentTypeOK, NEW r \in Routes, NEW ok \in BOOLEAN,
           Prepare(r) \/ ResumeLocked \/ CancelPrepare \/ Finish \/ FinishLocked \/
              CancelEnd \/ AccuracyLocked \/ AccuracyLoaded(ok)
    PROVE  ResidentTypeOK'
<1> USE ResidentAssumption DEF ResidentAssumption, ResidentTypeOK, None, Tasks,
        Stoppers, Suspenders, Loaders, Workers
<1>1. CASE Prepare(r)
  BY <1>1 DEF Prepare, CancelEffect, Halfway, Charged
<1>2. CASE ResumeLocked
  BY <1>2 DEF ResumeLocked, Warm, PrepareLocked, To, processVars, flagVars, outerVars
<1>3. CASE CancelPrepare
  <2> USE <1>3 DEF CancelPrepare, manifestVars
  <2>1. at' \in [Tasks -> {"off", "awaits", "sleeping", "locking", "reusing", "unchanged",
                         "stopping", "loading", "unwinding"}]
    BY DEF AfterCancel, PlaceAfterCancel
  <2>2. lock' \in Tasks \cup {None} /\ popped' \in Workers \cup {None}
    BY DEF CancelEffect
  <2>3. {tracked', orphans', dead'} \subseteq SUBSET Workers
    BY DEF CancelEffect
  <2>4. quota' \in [cancels : 0..MaxCancels, faults : 0..MaxLosses, starts : 0..MaxStarts,
                   requests : 0..MaxRequests]
    BY DEF Charged
  <2>5. {ready, active, arming, invalidated, stale, unseen}' \subseteq BOOLEAN
        /\ lease' \in {"off", "preparing", "active", "ending"}
    OBVIOUS
  <2> QED
    BY <2>1, <2>2, <2>3, <2>4, <2>5
<1>4. CASE Finish
  BY <1>4 DEF Finish, To, processVars, flagVars, manifestVars
<1>5. CASE FinishLocked
  <2>1. at' \in [Tasks -> {"off", "awaits", "sleeping", "locking", "reusing", "unchanged",
                         "stopping", "loading", "unwinding"}]
    BY <1>5 DEF FinishLocked, To
  <2>2. lock' \in Tasks \cup {None} /\ route' \in Routes \cup {None}
    BY <1>5 DEF FinishLocked
  <2>3. {ready, active, arming, invalidated, stale, unseen}' \subseteq BOOLEAN
        /\ lease' \in {"off", "preparing", "active", "ending"}
        /\ classroom' \in {"off", "running", "suspending", "using"}
    BY <1>5 DEF FinishLocked
  <2>4. UNCHANGED <<processVars, wanted, quota>>
    BY <1>5 DEF FinishLocked
  <2> QED
    BY <2>1, <2>2, <2>3, <2>4 DEF processVars
<1>6. CASE CancelEnd
  BY <1>6 DEF CancelEnd, AfterCancel, PlaceAfterCancel, CancelEffect, Halfway, Charged,
             flagVars, manifestVars, outerVars
<1>7. CASE AccuracyLocked
  BY <1>7 DEF AccuracyLocked, To, Charged, flagVars, outerVars
<1>8. CASE AccuracyLoaded(ok)
  BY <1>8 DEF AccuracyLoaded, To, Charged, flagVars, manifestVars, outerVars
<1> QED BY <1>1, <1>2, <1>3, <1>4, <1>5, <1>6, <1>7, <1>8

LEMMA OutsideTyped ==
    ASSUME ResidentTypeOK,
           JobRuns \/ JobEnds \/ WorkerDies \/ FilesChange
    PROVE  ResidentTypeOK'
<1> USE ResidentAssumption DEF ResidentAssumption, ResidentTypeOK, None, Tasks,
        Stoppers, Suspenders, Loaders, Workers
<1>1. CASE JobRuns
  BY <1>1 DEF JobRuns, Charged, processVars, flagVars, manifestVars
<1>2. CASE JobEnds
  BY <1>2 DEF JobEnds, processVars, flagVars, manifestVars
<1>3. CASE WorkerDies
  BY <1>3 DEF WorkerDies, Charged, flagVars, manifestVars, outerVars
<1>4. CASE FilesChange
  <2>1. stale' = TRUE /\ unseen' \in BOOLEAN
    BY <1>4 DEF FilesChange
  <2>2. quota' \in [cancels : 0..MaxCancels, faults : 0..MaxLosses, starts : 0..MaxStarts,
                   requests : 0..MaxRequests]
    BY <1>4 DEF FilesChange, Charged
  <2> QED
    BY <1>4, <2>1, <2>2 DEF FilesChange, processVars, manifestVars, outerVars
<1> QED BY <1>1, <1>2, <1>3, <1>4

\* The accounts after the steps of the task that has the lock: it takes the workers
\* back, loads, fails and leaves.
LEMMA LoadingAccounted ==
    ASSUME RInv, NEW t \in Tasks,
           Pop(t) \/ PoppedStops \/ LoadStarts(t) \/ Loaded(t) \/ LoadFails(t) \/
              Unwound(t) \/ Reused(t) \/ FilesCompared(t) \/ Emptied(t)
    PROVE  Accounted'
<1> USE ResidentAssumption DEF ResidentAssumption, RInv, Accounted, LockIn, RouteIn,
        ServerIn, ActiveIn, ClassroomIn, ResidentTypeOK, LockedPlaces, None, Tasks, Stoppers,
        Suspenders, Loaders, Workers, Halfway
<1>1. CASE Pop(t)
  BY <1>1 DEF Pop, flagVars, outerVars
<1>2. CASE PoppedStops
  BY <1>2 DEF PoppedStops, flagVars, manifestVars, outerVars
<1>3. CASE LoadStarts(t)
  BY <1>3 DEF LoadStarts, StoppedAll, To, processVars, outerVars
<1>4. CASE Loaded(t)
  BY <1>4 DEF Loaded, LoaderReturns
<1>5. CASE LoadFails(t)
  BY <1>5 DEF LoadFails, To, Charged, flagVars, manifestVars, outerVars
<1>6. CASE Unwound(t)
  BY <1>6 DEF Unwound, StoppedAll, LoaderReturns, processVars
<1>7. CASE Reused(t)
  BY <1>7 DEF Reused, LoaderReturns, processVars, manifestVars
<1>8. CASE FilesCompared(t)
  BY <1>8 DEF FilesCompared, To, processVars, flagVars, outerVars
<1>9. CASE Emptied(t)
  BY <1>9 DEF Emptied, StoppedAll, To, processVars, flagVars
<1> QED BY <1>1, <1>2, <1>3, <1>4, <1>5, <1>6, <1>7, <1>8, <1>9

\* The accounts after refreshes, prewarming and the idle release.
LEMMA BackgroundAccounted ==
    ASSUME RInv,
           RequestRefresh \/ RefreshLocked \/ RequestPrewarm \/ PrewarmLocked \/
              IdleElapses \/ IdleLocked
    PROVE  Accounted'
<1> USE ResidentAssumption DEF ResidentAssumption, RInv, Accounted, LockIn, RouteIn,
        ServerIn, ActiveIn, ClassroomIn, ResidentTypeOK, LockedPlaces, None, Tasks, Stoppers,
        Suspenders, Loaders, Workers, Halfway
<1>1. CASE RequestRefresh
  BY <1>1 DEF RequestRefresh, BackgroundDone, To, Charged, processVars, manifestVars,
             outerVars, Background
<1>2. CASE RefreshLocked
  BY <1>2 DEF RefreshLocked, To, processVars, outerVars
<1>3. CASE RequestPrewarm
  BY <1>3 DEF RequestPrewarm, CanPrewarm, AfterCancel, PlaceAfterCancel, CancelEffect,
             Charged, flagVars, manifestVars, outerVars
<1>4. CASE PrewarmLocked
  BY <1>4 DEF PrewarmLocked, CanPrewarm, Warm, PrepareLocked, To, processVars, flagVars,
             manifestVars, outerVars
<1>5. CASE IdleElapses
  BY <1>5 DEF IdleElapses, To, processVars, flagVars, manifestVars, outerVars
<1>6. CASE IdleLocked
  BY <1>6 DEF IdleLocked, To, processVars, flagVars, outerVars
<1> QED BY <1>1, <1>2, <1>3, <1>4, <1>5, <1>6

\* The accounts after suspensions, repairs and releases.
LEMMA StoppingAccounted ==
    ASSUME RInv, NEW t \in Tasks,
           SuspendForClassroom \/ Repair \/ ReleaseIdle \/ BackgroundAwaited(t) \/
              CallerTimesOut \/ StopperLocked(t)
    PROVE  Accounted'
<1> USE ResidentAssumption DEF ResidentAssumption, RInv, Accounted, LockIn, RouteIn,
        ServerIn, ActiveIn, ClassroomIn, ResidentTypeOK, LockedPlaces, None, Tasks, Stoppers,
        Suspenders, Loaders, Workers, Halfway
<1>1. CASE SuspendForClassroom
  BY <1>1 DEF SuspendForClassroom, StopRequested, AfterCancel, PlaceAfterCancel,
             CancelEffect, flagVars, manifestVars, Background
<1>2. CASE Repair
  BY <1>2 DEF Repair, StopRequested, AfterCancel, PlaceAfterCancel, CancelEffect,
             Charged, flagVars, manifestVars, outerVars, Background
<1>3. CASE ReleaseIdle
  BY <1>3 DEF ReleaseIdle, StopRequested, AfterCancel, PlaceAfterCancel, CancelEffect,
             Charged, flagVars, manifestVars, outerVars, Background
<1>4. CASE BackgroundAwaited(t)
  BY <1>4 DEF BackgroundAwaited, BackgroundDone, CancelEffect, flagVars, manifestVars,
             outerVars, Background
<1>5. CASE CallerTimesOut
  BY <1>5 DEF CallerTimesOut, Charged, processVars, flagVars, manifestVars
<1>6. CASE StopperLocked(t)
  BY <1>6 DEF StopperLocked, To, processVars, flagVars
<1> QED BY <1>1, <1>2, <1>3, <1>4, <1>5, <1>6

\* The accounts after the beginning and the end of a dictation, and the hot switch.
LEMMA DictationAccounted ==
    ASSUME RInv, NEW r \in Routes, NEW ok \in BOOLEAN,
           Prepare(r) \/ ResumeLocked \/ CancelPrepare \/ Finish \/ FinishLocked \/
              CancelEnd \/ AccuracyLocked \/ AccuracyLoaded(ok)
    PROVE  Accounted'
<1> USE ResidentAssumption DEF ResidentAssumption, RInv, Accounted, LockIn, RouteIn,
        ServerIn, ActiveIn, ClassroomIn, ResidentTypeOK, LockedPlaces, None, Tasks, Stoppers,
        Suspenders, Loaders, Workers, Halfway
<1>1. CASE Prepare(r)
  BY <1>1 DEF Prepare, CancelEffect, Charged
<1>2. CASE ResumeLocked
  BY <1>2 DEF ResumeLocked, Warm, PrepareLocked, To, processVars, flagVars, outerVars
<1>3. CASE CancelPrepare
  <2> USE <1>3 DEF CancelPrepare, AfterCancel, PlaceAfterCancel, CancelEffect, manifestVars
  <2>1. LockIn'
    OBVIOUS
  <2>2. RouteIn'
    OBVIOUS
  <2>3. ServerIn'
    OBVIOUS
  <2>4. ActiveIn'
    OBVIOUS
  <2>5. ClassroomIn'
        /\ (stale /\ lock \in Loaders /\ at[lock] \in {"unchanged", "loading"} => unseen)'
    OBVIOUS
  <2> QED
    BY <2>1, <2>2, <2>3, <2>4, <2>5 DEF Accounted
<1>4. CASE Finish
  BY <1>4 DEF Finish, To, processVars, flagVars, manifestVars
<1>5. CASE FinishLocked
  BY <1>5 DEF FinishLocked, To, processVars
<1>6. CASE CancelEnd
  BY <1>6 DEF CancelEnd, AfterCancel, PlaceAfterCancel, CancelEffect, Charged, flagVars,
             manifestVars, outerVars
<1>7. CASE AccuracyLocked
  BY <1>7 DEF AccuracyLocked, To, Charged, flagVars, outerVars
<1>8. CASE AccuracyLoaded(ok)
  BY <1>8 DEF AccuracyLoaded, To, Charged, flagVars, manifestVars, outerVars
<1> QED BY <1>1, <1>2, <1>3, <1>4, <1>5, <1>6, <1>7, <1>8

\* The accounts after the jobs of the classroom, and workers that die.
LEMMA OutsideAccounted ==
    ASSUME RInv,
           JobRuns \/ JobEnds \/ WorkerDies \/ FilesChange
    PROVE  Accounted'
<1> USE ResidentAssumption DEF ResidentAssumption, RInv, Accounted, LockIn, RouteIn,
        ServerIn, ActiveIn, ClassroomIn, ResidentTypeOK, LockedPlaces, None, Tasks, Stoppers,
        Suspenders, Loaders, Workers, Halfway
<1>1. CASE JobRuns
  BY <1>1 DEF JobRuns, Charged, processVars, flagVars, manifestVars
<1>2. CASE JobEnds
  BY <1>2 DEF JobEnds, processVars, flagVars, manifestVars
<1>3. CASE WorkerDies
  BY <1>3 DEF WorkerDies, Charged, flagVars, manifestVars, outerVars
<1>4. CASE FilesChange
  BY <1>4 DEF FilesChange, Charged, processVars, manifestVars, outerVars
<1> QED BY <1>1, <1>2, <1>3, <1>4

\* The invariant is kept by every step, also by one that changes nothing.
LEMMA RInvStays == RInv /\ [ResidentNext]_residentVars => RInv'
<1> SUFFICES ASSUME RInv, [ResidentNext]_residentVars PROVE RInv'
  OBVIOUS
<1>1. ASSUME NEW t \in Tasks,
             Pop(t) \/ PoppedStops \/ LoadStarts(t) \/ Loaded(t) \/ LoadFails(t)
                \/ Unwound(t) \/ Reused(t) \/ FilesCompared(t) \/ Emptied(t)
      PROVE  RInv'
  BY <1>1, LoadingTyped, LoadingAccounted DEF RInv
<1>2. ASSUME RequestRefresh \/ RefreshLocked \/ RequestPrewarm \/ PrewarmLocked
                \/ IdleElapses \/ IdleLocked
      PROVE  RInv'
  BY <1>2, BackgroundTyped, BackgroundAccounted DEF RInv
<1>3. ASSUME NEW t \in Tasks,
             SuspendForClassroom \/ Repair \/ ReleaseIdle \/ BackgroundAwaited(t)
                \/ CallerTimesOut \/ StopperLocked(t)
      PROVE  RInv'
  BY <1>3, StoppingTyped, StoppingAccounted DEF RInv
<1>4. ASSUME NEW r \in Routes, NEW ok \in BOOLEAN,
             Prepare(r) \/ ResumeLocked \/ CancelPrepare \/ Finish \/ FinishLocked
                \/ CancelEnd \/ AccuracyLocked \/ AccuracyLoaded(ok)
      PROVE  RInv'
  BY <1>4, DictationTyped, DictationAccounted DEF RInv
<1>5. ASSUME JobRuns \/ JobEnds \/ WorkerDies \/ FilesChange
      PROVE  RInv'
  BY <1>5, OutsideTyped, OutsideAccounted DEF RInv
<1>6. CASE UNCHANGED residentVars
  BY <1>6 DEF residentVars, RInv, ResidentTypeOK, Accounted, LockIn, RouteIn, ServerIn,
              ActiveIn, ClassroomIn, Halfway
<1>7. /\ DefaultRoute \in Routes /\ Loaders \subseteq Tasks /\ "idle" \in Tasks
  BY ResidentAssumption DEF ResidentAssumption, Loaders, Tasks
<1>8. CASE Work
  <2>1. CASE \/ PoppedStops \/ RefreshLocked \/ PrewarmLocked \/ IdleElapses \/ IdleLocked
             \/ ResumeLocked \/ FinishLocked \/ AccuracyLoaded(TRUE) \/ Finish
    BY <2>1, <1>1, <1>2, <1>4, <1>7
  <2>2. CASE \E t \in Tasks : Pop(t) \/ LoadStarts(t) \/ Loaded(t) \/ Unwound(t) \/ FilesCompared(t) \/ Reused(t)
                                \/ BackgroundAwaited(t) \/ StopperLocked(t) \/ Emptied(t)
    BY <2>2, <1>1, <1>3
  <2> QED
    BY <1>8, <2>1, <2>2 DEF Work
<1> QED
  BY <1>1, <1>2, <1>3, <1>4, <1>5, <1>6, <1>7, <1>8 DEF ResidentNext

\* No step of another task than the hot switch of the dictation changes the loaded
\* workers while a dictation is active and not ending: whoever could has the lock, and
\* only the end and the hot switch have it then.
LEMMA OnlyTheSwitch ==
    ASSUME RInv, ResidentNext, active, at["end"] = "off", at["accuracy"] = "off"
    PROVE  tracked' = tracked \/ AccuracyLocked
<1> USE DEF RInv, Accounted
<1>1. ASSUME NEW t \in Tasks, lock = t
      PROVE  ~Halfway(t) /\ at[t] # "loading"
  <2>1. t = "end" \/ t = "accuracy"
    BY <1>1 DEF ActiveIn, Tasks, Stoppers, Suspenders, Loaders, None
  <2>2. at[t] \in LockedPlaces
    BY <1>1 DEF LockIn
  <2> QED
    BY <2>1, <2>2 DEF LockedPlaces
<1>2. \A t \in Tasks : at[t] = "loading" => lock = t
  BY DEF LockIn, LockedPlaces
<1>3. ASSUME NEW t \in Tasks, Pop(t) \/ Loaded(t) \/ LoadFails(t)
      PROVE  FALSE
  BY <1>3, <1>1 DEF Pop, Loaded, LoadFails
<1>4. ASSUME NEW ts \in SUBSET Tasks, CancelEffect(ts)
      PROVE  tracked' = tracked
  BY <1>4, <1>1 DEF CancelEffect
<1>5. {"refresh"} \in SUBSET Tasks /\ {"idle"} \in SUBSET Tasks /\ Background \in SUBSET Tasks
      /\ {"prepare"} \in SUBSET Tasks /\ {"end"} \in SUBSET Tasks /\ Loaders \subseteq Tasks
  BY DEF Tasks, Background, Loaders
<1>6. ASSUME \/ RequestPrewarm \/ SuspendForClassroom \/ Repair \/ ReleaseIdle
             \/ CancelPrepare \/ CancelEnd \/ (\E r \in Routes : Prepare(r))
             \/ \E t \in Tasks : BackgroundAwaited(t)
      PROVE  tracked' = tracked
  BY <1>6, <1>4, <1>5 DEF RequestPrewarm, SuspendForClassroom, Repair, ReleaseIdle,
     StopRequested, CancelPrepare, CancelEnd, Prepare, BackgroundAwaited
<1>7. ASSUME \/ PoppedStops \/ RequestRefresh \/ RefreshLocked \/ PrewarmLocked
             \/ IdleElapses \/ IdleLocked \/ ResumeLocked \/ Finish \/ FinishLocked
             \/ CallerTimesOut \/ JobRuns \/ JobEnds \/ WorkerDies \/ FilesChange
      PROVE  tracked' = tracked
  BY <1>7 DEF PoppedStops, RequestRefresh, RefreshLocked, PrewarmLocked, PrepareLocked,
     IdleElapses, IdleLocked, ResumeLocked, Finish, FinishLocked, CallerTimesOut, JobRuns,
     JobEnds, WorkerDies, FilesChange, processVars
<1>8. ASSUME NEW t \in Tasks,
             LoadStarts(t) \/ Unwound(t) \/ Reused(t) \/ FilesCompared(t)
                \/ StopperLocked(t) \/ Emptied(t)
      PROVE  tracked' = tracked
  BY <1>8 DEF LoadStarts, Unwound, Reused, FilesCompared, StopperLocked, Emptied, processVars
<1>9. ASSUME NEW ok \in BOOLEAN, AccuracyLoaded(ok)
      PROVE  FALSE
  BY <1>9 DEF AccuracyLoaded
<1> QED
  BY <1>3, <1>5, <1>6, <1>7, <1>8, <1>9 DEF ResidentNext, Work

\* A dictation becomes active at the end of its comparison or of its load, with workers
\* whose files did not change, or changed behind the check.
LEMMA OnlyChecked ==
    ASSUME RInv, ResidentNext, active', ~active, stale
    PROVE  unseen
<1> USE DEF RInv, Accounted
<1>1. ASSUME NEW t \in Loaders, lock = t, at[t] \in {"unchanged", "loading"}
      PROVE  unseen
  BY <1>1
<1>2. ASSUME NEW t \in Tasks, Loaded(t) \/ Reused(t)
      PROVE  unseen
  BY <1>2, <1>1 DEF Loaded, Reused
<1>3. ASSUME NEW t \in Tasks,
             \/ Pop(t) \/ PoppedStops \/ LoadStarts(t) \/ LoadFails(t) \/ Unwound(t)
             \/ FilesCompared(t) \/ Emptied(t) \/ BackgroundAwaited(t) \/ StopperLocked(t)
      PROVE  FALSE
  BY <1>3 DEF Pop, PoppedStops, LoadStarts, LoadFails, Unwound, LoaderReturns, FilesCompared, Emptied,
     BackgroundAwaited, StopperLocked, flagVars
<1>4. ASSUME \/ RequestRefresh \/ RefreshLocked \/ RequestPrewarm \/ PrewarmLocked \/ IdleElapses
             \/ IdleLocked \/ SuspendForClassroom \/ Repair \/ ReleaseIdle \/ CallerTimesOut
             \/ JobRuns \/ JobEnds \/ WorkerDies \/ FilesChange
      PROVE  FALSE
  BY <1>4 DEF RequestRefresh, RefreshLocked, RequestPrewarm, PrewarmLocked, PrepareLocked, IdleElapses,
     IdleLocked, SuspendForClassroom, Repair, ReleaseIdle, CallerTimesOut, JobRuns, JobEnds, WorkerDies,
     FilesChange, flagVars
<1>5. ASSUME NEW r \in Routes, NEW ok \in BOOLEAN,
             \/ Prepare(r) \/ ResumeLocked \/ CancelPrepare \/ Finish \/ FinishLocked \/ CancelEnd
             \/ AccuracyLocked \/ AccuracyLoaded(ok)
      PROVE  FALSE
  BY <1>5 DEF Prepare, ResumeLocked, PrepareLocked, CancelPrepare, Finish, FinishLocked, CancelEnd,
     AccuracyLocked, AccuracyLoaded, flagVars
<1>6. DefaultRoute \in Routes /\ Loaders \subseteq Tasks /\ "idle" \in Tasks
  BY ResidentAssumption DEF ResidentAssumption, Loaders, Tasks
<1> QED
  BY <1>2, <1>3, <1>4, <1>5, <1>6 DEF ResidentNext, Work

\* The workers are there for whom the flags say (resident.py:203-257, 294-314, 335-390):
\* the classroom thread that was let at the GPU finds none; a manifest with a route has
\* its workers; idle release, refresh, suspension and release leave those of an active
\* dictation alone; and those whose files had changed when a dictation's preparation
\* checked them are not given to it (resident.py:294-314).
THEOREM WorkersStay == ResidentSpec => WorkersKept
<1>1. RInv => SuspendedIsEmpty /\ ReadyIsLoaded
  BY DEF RInv, Accounted, ClassroomIn, RouteIn, SuspendedIsEmpty, ReadyIsLoaded
<1>2. RInv /\ [ResidentNext]_residentVars =>
        [active /\ at["end"] = "off" => at["accuracy"] # "off" \/ tracked' = tracked
            \/ AccuracyLocked]_residentVars
  <2> SUFFICES ASSUME RInv, ResidentNext, active, at["end"] = "off", at["accuracy"] = "off"
               PROVE  tracked' = tracked \/ AccuracyLocked
    OBVIOUS
  <2> QED
    BY OnlyTheSwitch
<1>3. RInv /\ [ResidentNext]_residentVars =>
        [(active' /\ ~active) => (stale => unseen)]_residentVars
  <2> SUFFICES ASSUME RInv, ResidentNext, active', ~active, stale PROVE unseen
    OBVIOUS
  <2> QED
    BY OnlyChecked
<1> QED
  BY ResidentStarts, RInvStays, <1>1, <1>2, <1>3, PTL
     DEF ResidentSpec, WorkersKept, ActiveKeepsWorkers, StaleNotTaken

-----------------------------------------------------------------------------
(* The lease manager.                                                       *)

\* A set of numbers has a least one.
LEMMA FirstExists ==
    ASSUME NEW S \in SUBSET Nat, S # {}
    PROVE  \E x \in S : \A y \in S : x <= y
<1> DEFINE R == {ss \in Nat \X Nat : ss[1] < ss[2]}
<1>1. IsWellFoundedOn(R, Nat)
  BY NatLessThanWellFounded DEF OpToRel
<1> HIDE DEF R
<1>2. PICK x \in S : \A y \in S : ~(<<y, x>> \in R)
  BY <1>1, WFMin
<1>3. ASSUME NEW y \in S
      PROVE  x <= y
  <2>1. y < x => <<y, x>> \in R
    BY DEF R
  <2> QED
    BY <1>2, <2>1
<1> QED
  BY <1>3

\* What is left of a queue when one of it is taken out keeps its order.
LEMMA Removed ==
    ASSUME NEW S, NEW s \in Seq(S), NEW i \in DOMAIN s
    PROVE  /\ RemoveAt(s, i) \in Seq(S) /\ Len(RemoveAt(s, i)) = Len(s) - 1
           /\ \A k \in 1..(Len(s) - 1) : RemoveAt(s, i)[k] = IF k < i THEN s[k] ELSE s[k + 1]
<1> DEFINE before == SubSeq(s, 1, i - 1)
           after == SubSeq(s, i + 1, Len(s))
<1>1. i \in 1..Len(s) /\ Len(s) \in Nat /\ \A k \in 1..Len(s) : s[k] \in S
  OBVIOUS
<1>2. /\ before \in Seq(S) /\ Len(before) = i - 1
      /\ \A k \in 1..(i - 1) : before[k] = s[k]
  BY <1>1, SubSeqProperties
<1>3. /\ after \in Seq(S) /\ Len(after) = Len(s) - i
      /\ \A k \in 1..(Len(s) - i) : after[k] = s[i + k]
  <2>1. i + 1 \in Int /\ Len(s) \in Int /\ \A k \in (i + 1)..Len(s) : s[k] \in S
    BY <1>1
  <2>2. /\ after \in Seq(S) /\ Len(after) = IF i + 1 <= Len(s) THEN Len(s) - (i + 1) + 1 ELSE 0
        /\ \A k \in 1..(Len(s) - (i + 1) + 1) : after[k] = s[i + 1 + k - 1]
    BY <2>1, SubSeqProperties
  <2> HIDE DEF after
  <2> QED
    BY <1>1, <2>2
<1> HIDE DEF before, after
<1>4. /\ before \o after \in Seq(S) /\ Len(before \o after) = Len(before) + Len(after)
      /\ \A k \in 1..(Len(before) + Len(after)) :
            (before \o after)[k] = IF k <= Len(before) THEN before[k] ELSE after[k - Len(before)]
  BY <1>2, <1>3, ConcatProperties
<1> DEFINE rest == before \o after
<1>5. RemoveAt(s, i) = rest
  BY DEF RemoveAt, before, after
<1> HIDE DEF rest
<1>6. ASSUME NEW k \in 1..(Len(s) - 1)
      PROVE  rest[k] = IF k < i THEN s[k] ELSE s[k + 1]
  <2>1. CASE k < i
    <3>1. k \in 1..(i - 1) /\ k \in 1..(Len(before) + Len(after)) /\ k <= Len(before)
      BY <2>1, <1>1, <1>2, <1>3
    <3>2. rest[k] = before[k] /\ before[k] = s[k]
      BY <1>2, <1>4, <3>1, Zenon DEF rest
    <3> QED
      BY <2>1, <3>2, Zenon
  <2>2. CASE ~(k < i)
    <3>1. k - (i - 1) \in 1..(Len(s) - i) /\ i + (k - (i - 1)) = k + 1
      BY <2>2, <1>1
    <3>2. k \in 1..(Len(before) + Len(after)) /\ ~(k <= Len(before)) /\ Len(before) = i - 1
      BY <2>2, <1>1, <1>2, <1>3
    <3>3. rest[k] = after[k - (i - 1)]
      BY <3>2, <1>4 DEF rest
    <3> QED
      BY <2>2, <3>1, <3>3, <1>3
  <2> QED
    BY <2>1, <2>2
<1>7. rest \in Seq(S) /\ Len(rest) = Len(s) - 1
  BY <1>1, <1>2, <1>3, <1>4 DEF rest
<1> QED
  BY <1>5, <1>6, <1>7

NoTwice(line) == \A i, j \in DOMAIN line : line[i] = line[j] => i = j
Stages == {"out", "waiting", "granted", "holding"}
Queued(line, places) ==
    /\ line \in Seq(Claimants) /\ NoTwice(line) /\ places \in [Claimants -> Stages]
    /\ \A t \in Claimants : (places[t] = "waiting") <=> (\E i \in DOMAIN line : line[i] = t)

\* There is a first of the most urgent waiters.
LEMMA MostUrgent ==
    ASSUME NEW line \in Seq(Claimants), NEW n, Eligible(line, n) # {}
    PROVE  \E i \in Eligible(line, n) : \A j \in Eligible(line, n) : Before(line, i, j)
<1> DEFINE E == Eligible(line, n)
           F == {Rank[line[j]] : j \in E}
<1>1. E \in SUBSET Nat /\ \A j \in E : Rank[line[j]] \in Nat
  <2>1. DOMAIN line \subseteq Nat /\ \A j \in DOMAIN line : line[j] \in Claimants
    OBVIOUS
  <2> QED
    BY <2>1, ManagerAssumption DEF Eligible, ManagerAssumption
<1>2. E # {}
  OBVIOUS
<1> HIDE DEF E
<1>3. F \in SUBSET Nat /\ F # {} /\ \A j \in E : Rank[line[j]] \in F
  BY <1>2, <1>1
<1>4. ASSUME NEW r \in F PROVE \E j \in E : Rank[line[j]] = r
  OBVIOUS
<1> HIDE DEF F
<1>5. PICK r \in F : \A y \in F : r <= y
  BY <1>3, FirstExists
<1> DEFINE G == {j \in E : Rank[line[j]] = r}
<1>6. G \in SUBSET Nat /\ G # {}
  BY <1>1, <1>4
<1>7. PICK i \in G : \A y \in G : i <= y
  BY <1>6, FirstExists
<1>8. ASSUME NEW j \in E
      PROVE  Before(line, i, j)
  <2>1. Rank[line[i]] = r /\ Rank[line[j]] \in F /\ Rank[line[j]] \in Nat /\ r \in Nat
    BY <1>1, <1>5, <1>7, <1>3
  <2>2. CASE Rank[line[j]] = r
    BY <2>1, <2>2, <1>7 DEF Before
  <2>3. CASE Rank[line[j]] # r
    BY <2>1, <2>3, <1>5 DEF Before
  <2> QED
    BY <2>2, <2>3
<1> QED
  BY <1>7, <1>8 DEF E

\* A lease that is given out: to whom, and what becomes of the queue.
Granted(line, places, n, i) ==
    /\ i \in Eligible(line, n) /\ \A j \in Eligible(line, n) : Before(line, i, j)
    /\ owner' = line[i] /\ waiting' = RemoveAt(line, i)
    /\ stage' = [places EXCEPT ![line[i]] = "granted"]

\* A dispatch gives the lease to the first of the most urgent, or to nobody.
LEMMA Dispatched ==
    ASSUME NEW line \in Seq(Claimants), NEW places, NEW n, Dispatch(line, places, n)
    PROVE  \/ /\ Eligible(line, n) = {}
              /\ owner' = Nobody /\ waiting' = line /\ stage' = places
           \/ \E i \in DOMAIN line : Granted(line, places, n, i)
<1> DEFINE i == CHOOSE i \in Eligible(line, n) : \A j \in Eligible(line, n) : Before(line, i, j)
<1>1. ASSUME Eligible(line, n) # {}
      PROVE  i \in Eligible(line, n) /\ \A j \in Eligible(line, n) : Before(line, i, j)
  BY <1>1, MostUrgent
<1>2. ASSUME Eligible(line, n) # {}
      PROVE  /\ owner' = line[i] /\ waiting' = RemoveAt(line, i)
             /\ stage' = [places EXCEPT ![line[i]] = "granted"]
  BY <1>2 DEF Dispatch
<1>3. Eligible(line, n) \subseteq DOMAIN line
  BY DEF Eligible
<1> HIDE DEF i
<1> QED
  BY <1>1, <1>2, <1>3 DEF Dispatch, Granted

\* The queue stays a queue when one of it is taken out and goes elsewhere.
LEMMA QueuedWithout ==
    ASSUME NEW line, NEW places, Queued(line, places), NEW i \in DOMAIN line,
           NEW p \in Stages \ {"waiting"}
    PROVE  Queued(RemoveAt(line, i), [places EXCEPT ![line[i]] = p])
<1> DEFINE rest == RemoveAt(line, i)
           after == [places EXCEPT ![line[i]] = p]
<1>1. /\ line \in Seq(Claimants) /\ NoTwice(line) /\ places \in [Claimants -> Stages]
      /\ \A t \in Claimants : (places[t] = "waiting") <=> (\E k \in DOMAIN line : line[k] = t)
  BY DEF Queued
<1>2. DOMAIN line = 1..Len(line) /\ Len(line) \in Nat /\ \A k \in 1..Len(line) : line[k] \in Claimants
  BY <1>1
<1>3. /\ rest \in Seq(Claimants) /\ Len(rest) = Len(line) - 1
      /\ \A k \in 1..(Len(line) - 1) : rest[k] = IF k < i THEN line[k] ELSE line[k + 1]
  BY <1>1, Removed
<1> HIDE DEF rest
<1>4. DOMAIN rest = 1..(Len(line) - 1)
  BY <1>3
<1>5. ASSUME NEW k \in DOMAIN rest, NEW l \in DOMAIN rest, rest[k] = rest[l]
      PROVE  k = l
  <2> DEFINE x == IF k < i THEN k ELSE k + 1
             y == IF l < i THEN l ELSE l + 1
  <2>1. x \in DOMAIN line /\ rest[k] = line[x]
    BY <1>2, <1>3, <1>4
  <2>2. y \in DOMAIN line /\ rest[l] = line[y]
    BY <1>2, <1>3, <1>4
  <2>3. x = y => k = l
    BY <1>2, <1>4
  <2> HIDE DEF x, y
  <2> QED
    BY <1>1, <1>5, <2>1, <2>2, <2>3 DEF NoTwice
<1>6. ASSUME NEW k \in DOMAIN rest
      PROVE  rest[k] # line[i] /\ \E l \in DOMAIN line : line[l] = rest[k]
  BY <1>1, <1>2, <1>3, <1>4 DEF NoTwice
<1>7. ASSUME NEW l \in DOMAIN line, l # i
      PROVE  \E k \in DOMAIN rest : rest[k] = line[l]
  <2>1. CASE l < i
    <3>1. l \in DOMAIN rest /\ rest[l] = line[l]
      BY <1>2, <1>3, <1>4, <1>7, <2>1
    <3> QED
      BY <3>1
  <2>2. CASE l > i
    <3>1. l - 1 \in DOMAIN rest /\ rest[l - 1] = line[l]
      BY <1>2, <1>3, <1>4, <1>7, <2>2
    <3> QED
      BY <3>1
  <2> QED
    BY <1>2, <1>7, <2>1, <2>2
<1>8. ASSUME NEW t \in Claimants
      PROVE  (after[t] = "waiting") <=> (\E k \in DOMAIN rest : rest[k] = t)
  <2>1. CASE t = line[i]
    BY <2>1, <1>1, <1>6
  <2>2. CASE t # line[i]
    BY <2>2, <1>1, <1>6, <1>7
  <2> QED
    BY <2>1, <2>2
<1>9. after \in [Claimants -> Stages]
  BY <1>1
<1> QED
  BY <1>3, <1>5, <1>8, <1>9 DEF Queued, NoTwice, rest

\* The queue stays a queue when one comes to its end.
LEMMA QueuedMore ==
    ASSUME NEW line, NEW places, Queued(line, places), NEW t \in Claimants, places[t] = "out"
    PROVE  Queued(Append(line, t), [places EXCEPT ![t] = "waiting"])
<1> DEFINE more == Append(line, t)
<1>1. /\ more \in Seq(Claimants) /\ Len(more) = Len(line) + 1 /\ more[Len(line) + 1] = t
      /\ \A k \in 1..Len(line) : more[k] = line[k]
  BY DEF Queued
<1>2. DOMAIN line = 1..Len(line) /\ DOMAIN more = 1..(Len(line) + 1) /\ Len(line) \in Nat
  BY <1>1 DEF Queued
<1> HIDE DEF more
<1>3. \A k \in DOMAIN line : line[k] # t
  BY DEF Queued
<1>4. NoTwice(more)
  BY <1>1, <1>2, <1>3 DEF Queued, NoTwice
<1>5. [places EXCEPT ![t] = "waiting"] \in [Claimants -> Stages]
  BY DEF Queued, Stages
<1>6. ASSUME NEW c \in Claimants
      PROVE  ([places EXCEPT ![t] = "waiting"][c] = "waiting") <=> (\E k \in DOMAIN more : more[k] = c)
  <2>1. CASE c = t
    BY <2>1, <1>1, <1>2 DEF Queued
  <2>2. CASE c # t
    BY <2>2, <1>1, <1>2 DEF Queued
  <2> QED
    BY <2>1, <2>2
<1> QED
  BY <1>1, <1>4, <1>5, <1>6 DEF Queued, more

\* Whoever gets the lease comes before all that are left, but classroom work beside
\* dictation.
FirstOf(line, n) ==
    /\ n > 0 => ~Classroom(owner')
    /\ owner' \in Claimants =>
         /\ \E j \in DOMAIN line : line[j] = owner'
         /\ \A i \in DOMAIN waiting' :
              /\ \E k \in DOMAIN line : line[k] = waiting'[i]
              /\ \/ n > 0 /\ Classroom(waiting'[i])
                 \/ Rank[owner'] < Rank[waiting'[i]]
                 \/ /\ Rank[owner'] = Rank[waiting'[i]]
                    /\ \A j, k \in DOMAIN line :
                          line[j] = owner' /\ line[k] = waiting'[i] => j < k

\* A dispatch leaves a queue without its owner, who comes before all that wait.
LEMMA DispatchKeeps ==
    ASSUME NEW line, NEW places, NEW n \in Nat, Queued(line, places),
           \A t \in Claimants : places[t] \notin {"granted", "holding"},
           Dispatch(line, places, n)
    PROVE  /\ Queued(waiting', stage') /\ owner' \in Claimants \cup {Nobody}
           /\ \A t \in Claimants : stage'[t] \in {"granted", "holding"} => owner' = t
           /\ owner' = Nobody => \A i \in DOMAIN waiting' : Classroom(waiting'[i]) /\ n > 0
           /\ FirstOf(line, n)
<1>1. /\ line \in Seq(Claimants) /\ NoTwice(line) /\ places \in [Claimants -> Stages]
      /\ Nobody \notin Claimants /\ Rank \in [Claimants -> Nat]
  BY ManagerAssumption DEF Queued, ManagerAssumption
<1>2. CASE Eligible(line, n) = {} /\ owner' = Nobody /\ waiting' = line /\ stage' = places
  BY <1>1, <1>2 DEF Eligible, FirstOf, Classroom
<1>3. ASSUME NEW i \in DOMAIN line, Granted(line, places, n, i)
      PROVE  /\ Queued(waiting', stage') /\ owner' \in Claimants \cup {Nobody}
             /\ \A t \in Claimants : stage'[t] \in {"granted", "holding"} => owner' = t
             /\ owner' = Nobody => \A k \in DOMAIN waiting' : Classroom(waiting'[k]) /\ n > 0
             /\ FirstOf(line, n)
  <2>1. owner' = line[i] /\ owner' \in Claimants /\ owner' # Nobody
    BY <1>1, <1>3 DEF Granted
  <2>2. Queued(waiting', stage')
    BY <1>3, QueuedWithout DEF Granted, Stages
  <2>3. ASSUME NEW t \in Claimants, stage'[t] \in {"granted", "holding"}
        PROVE  owner' = t
    BY <1>1, <1>3, <2>1, <2>3 DEF Granted
  <2>4. n > 0 => ~Classroom(owner')
    BY <1>3, <2>1 DEF Granted, Eligible
  <2>5. ASSUME NEW l \in DOMAIN waiting'
        PROVE  \E k \in DOMAIN line : k # i /\ line[k] = waiting'[l]
    <3>1. /\ Len(line) \in Nat /\ DOMAIN line = 1..Len(line)
          /\ waiting' \in Seq(Claimants) /\ Len(waiting') = Len(line) - 1
          /\ \A k \in 1..(Len(line) - 1) : waiting'[k] = IF k < i THEN line[k] ELSE line[k + 1]
      <4>1. waiting' = RemoveAt(line, i)
        BY <1>3 DEF Granted
      <4>2. Len(line) \in Nat /\ DOMAIN line = 1..Len(line)
        BY <1>1
      <4> QED
        BY <4>1, <4>2, <1>1, Removed
    <3>2. l \in 1..(Len(line) - 1)
      BY <3>1
    <3>3. CASE l < i
      BY <3>1, <3>2, <3>3
    <3>4. CASE ~(l < i)
      <4>1. l + 1 \in DOMAIN line /\ l + 1 # i /\ line[l + 1] = waiting'[l]
        BY <3>1, <3>2, <3>4
      <4> QED
        BY <4>1
    <3> QED
      BY <3>3, <3>4
  <2>6. ASSUME NEW l \in DOMAIN waiting',
               NEW k \in DOMAIN line, k # i, line[k] = waiting'[l]
        PROVE  \/ n > 0 /\ Classroom(waiting'[l])
               \/ Rank[owner'] < Rank[waiting'[l]]
               \/ /\ Rank[owner'] = Rank[waiting'[l]]
                  /\ \A j, m \in DOMAIN line :
                        line[j] = owner' /\ line[m] = waiting'[l] => j < m
    <3>1. k \notin Eligible(line, n) => n > 0 /\ Classroom(waiting'[l])
      BY <2>6 DEF Eligible
    <3>2. ASSUME k \in Eligible(line, n)
          PROVE  Rank[owner'] < Rank[waiting'[l]] \/ (Rank[owner'] = Rank[waiting'[l]] /\ i < k)
      <4>1. Before(line, i, k)
        BY <1>3, <3>2 DEF Granted
      <4>2. i \in Nat /\ k \in Nat
        BY <1>1
      <4> QED
        BY <4>1, <4>2, <2>1, <2>6 DEF Before
    <3>3. ASSUME NEW j \in DOMAIN line, NEW m \in DOMAIN line,
                 line[j] = owner', line[m] = waiting'[l]
          PROVE  j = i /\ m = k
      BY <1>1, <2>1, <2>6, <3>3 DEF NoTwice
    <3> QED
      BY <3>1, <3>2, <3>3
  <2>7. FirstOf(line, n)
    BY <2>1, <2>4, <2>5, <2>6 DEF FirstOf
  <2> QED
    BY <2>1, <2>2, <2>3, <2>7
<1> QED
  BY <1>1, <1>2, <1>3, Dispatched

-----------------------------------------------------------------------------
ManagerIn ==
    /\ owner \in Claimants \cup {Nobody, Lost} /\ dictations \in 0..MaxBegun /\ preempt \in BOOLEAN
    /\ Queued(waiting, stage)
    /\ \A t \in Claimants : stage[t] \in {"granted", "holding"} => owner = t
    /\ GpuNotIdle /\ DictationAsked

\* Nobody waits before the first acquisition.
LEMMA ManagerStarts == ManagerInit => ManagerIn
<1> SUFFICES ASSUME ManagerInit PROVE ManagerIn
  OBVIOUS
<1>1. Queued(waiting, stage)
  BY DEF ManagerInit, Queued, NoTwice, Stages
<1>2. \A t \in Claimants : stage[t] = "out"
  BY DEF ManagerInit
<1>3. GpuNotIdle /\ DictationAsked
  BY DEF ManagerInit, GpuNotIdle, DictationAsked
<1>4. dictations \in 0..MaxBegun /\ preempt \in BOOLEAN /\ owner = Nobody
  <2>1. 0 \in 0..MaxBegun
    BY ManagerAssumption DEF ManagerAssumption
  <2> QED
    BY <2>1 DEF ManagerInit
<1> QED
  BY <1>1, <1>2, <1>3, <1>4 DEF ManagerIn

\* The accounts say all that the types say.
LEMMA ManagerTyped == ManagerIn => ManagerTypeOK
BY DEF ManagerIn, ManagerTypeOK, Queued, Stages, ToSet

\* What every dispatch has to show.
LEMMA DispatchIn ==
    ASSUME ManagerIn, NEW line, NEW places, NEW n \in 0..MaxBegun, Queued(line, places),
           \A t \in Claimants : places[t] \notin {"granted", "holding"},
           Dispatch(line, places, n), dictations' = n, preempt' \in BOOLEAN
    PROVE  ManagerIn' /\ FirstOf(line, n)
<1>1. /\ Queued(waiting', stage') /\ owner' \in Claimants \cup {Nobody}
      /\ \A t \in Claimants : stage'[t] \in {"granted", "holding"} => owner' = t
      /\ owner' = Nobody => \A i \in DOMAIN waiting' : Classroom(waiting'[i]) /\ n > 0
      /\ FirstOf(line, n)
  BY DispatchKeeps
<1>2. Queued(waiting, stage)'
  BY <1>1 DEF Queued, NoTwice
<1>3. DictationAsked'
  BY <1>1 DEF DictationAsked, FirstOf, Classroom
<1>4. GpuNotIdle'
  BY <1>1 DEF GpuNotIdle, Classroom
<1> QED
  BY <1>1, <1>2, <1>3, <1>4 DEF ManagerIn

\* Every step of the manager keeps the accounts and leases the GPU in turn.
LEMMA ManagerSteps ==
    ASSUME ManagerIn, ManagerNext
    PROVE  ManagerIn' /\ LeasedInTurn
<1>1. /\ Queued(waiting, stage) /\ waiting \in Seq(Claimants) /\ NoTwice(waiting)
      /\ stage \in [Claimants -> Stages] /\ dictations \in 0..MaxBegun /\ MaxBegun \in Nat
      /\ preempt \in BOOLEAN /\ Nobody \notin Claimants /\ Lost \notin Claimants /\ Nobody # Lost
      /\ dictations \in Nat /\ 0 \in 0..MaxBegun /\ dictations - 1 \in Int
  BY ManagerAssumption DEF ManagerIn, Queued, ManagerAssumption, Nobody, Lost
<1>2. ASSUME NEW t \in Claimants, Acquire(t)
      PROVE  ManagerIn' /\ LeasedInTurn
  <2> DEFINE line == Append(waiting, t)
             places == [stage EXCEPT ![t] = "waiting"]
  <2>1. Queued(line, places) /\ dictations' = dictations /\ preempt' = preempt
    BY <1>1, <1>2, QueuedMore DEF Acquire
  <2>2. /\ Len(waiting) \in Nat /\ DOMAIN waiting = 1..Len(waiting)
        /\ \A k \in DOMAIN waiting : k \in DOMAIN line /\ line[k] = waiting[k]
    BY <1>1
  <2>3. DispatchIfFree(line, places, dictations)
    BY <1>2 DEF Acquire
  <2>4. \A c \in Claimants : places[c] \in {"granted", "holding"} => owner = c
    BY <1>1 DEF ManagerIn
  <2>5. line \in Seq(Claimants) /\ \A k \in DOMAIN line : line[k] \in Claimants
    BY <1>1
  <2> HIDE DEF line, places
  <2>6. CASE owner = Nobody
    <3>1. Dispatch(line, places, dictations)
      BY <2>3, <2>6 DEF DispatchIfFree
    <3>2. ManagerIn' /\ FirstOf(line, dictations)
      BY <1>1, <2>1, <2>4, <2>6, <3>1, DispatchIn
    <3> QED
      BY <2>1, <2>2, <3>2 DEF FirstOf, LeasedInTurn
  <2>7. CASE owner # Nobody
    <3>1. owner' = owner /\ waiting' = line /\ stage' = places
      BY <2>3, <2>7 DEF DispatchIfFree
    <3> QED
      BY <2>1, <2>4, <2>7, <3>1 DEF ManagerIn, LeasedInTurn, Queued, NoTwice, GpuNotIdle, DictationAsked, Classroom
  <2> QED
    BY <2>6, <2>7
<1>3. ASSUME NEW t \in Claimants, Resume(t)
      PROVE  ManagerIn' /\ LeasedInTurn
  BY <1>1, <1>3 DEF Resume, ManagerIn, LeasedInTurn, Queued, NoTwice, Stages, GpuNotIdle, DictationAsked, Classroom
<1>4. ASSUME NEW t \in Claimants, stage[t] = "holding", Leave(t), dictations' = dictations
      PROVE  ManagerIn' /\ LeasedInTurn
  <2> DEFINE places == [stage EXCEPT ![t] = "out"]
  <2>1. Queued(waiting, places) /\ \A c \in Claimants : places[c] \notin {"granted", "holding"}
    BY <1>1, <1>4 DEF ManagerIn, Queued, Stages
  <2>2. Dispatch(waiting, places, dictations) /\ preempt' = FALSE
    BY <1>4 DEF Leave
  <2> HIDE DEF places
  <2>3. ManagerIn' /\ FirstOf(waiting, dictations)
    BY <1>1, <1>4, <2>1, <2>2, DispatchIn
  <2> QED
    BY <1>4, <2>3 DEF FirstOf, LeasedInTurn
<1>5. ASSUME NEW t \in Claimants, Abandon(t), stage[t] = "granted"
      PROVE  ManagerIn' /\ LeasedInTurn
  <2>1. /\ owner' = Lost /\ stage' = [stage EXCEPT ![t] = "out"] /\ waiting' = waiting
        /\ dictations' = dictations /\ preempt' = preempt
    BY <1>5 DEF Abandon
  <2>2. Queued(waiting, stage)'
    BY <1>1, <1>5, <2>1 DEF Queued, NoTwice, Stages
  <2>3. \A c \in Claimants : stage'[c] \notin {"granted", "holding"}
    BY <1>1, <1>5, <2>1 DEF ManagerIn
  <2> QED
    BY <1>1, <2>1, <2>2, <2>3 DEF ManagerIn, LeasedInTurn, GpuNotIdle, DictationAsked, Classroom
<1>6. ASSUME NEW t \in Claimants, Abandon(t), stage[t] = "waiting"
      PROVE  ManagerIn' /\ LeasedInTurn
  <2> DEFINE places == [stage EXCEPT ![t] = "out"]
  <2>1. PICK i \in DOMAIN waiting :
          waiting[i] = t /\ DispatchIfFree(RemoveAt(waiting, i), places, dictations)
    BY <1>6 DEF Abandon
  <2> DEFINE line == RemoveAt(waiting, i)
  <2>2. Queued(line, places) /\ dictations' = dictations /\ preempt' = preempt
    BY <1>1, <1>6, <2>1, QueuedWithout DEF Abandon, Stages
  <2>3. /\ Len(waiting) \in Nat /\ DOMAIN waiting = 1..Len(waiting)
        /\ line \in Seq(Claimants) /\ Len(line) = Len(waiting) - 1
        /\ \A k \in 1..(Len(waiting) - 1) :
              line[k] = IF k < i THEN waiting[k] ELSE waiting[k + 1]
    <3>1. Len(waiting) \in Nat /\ DOMAIN waiting = 1..Len(waiting)
      BY <1>1
    <3> QED
      BY <3>1, <1>1, Removed
  <2>4. \A c \in Claimants : places[c] \in {"granted", "holding"} => owner = c
    BY <1>1 DEF ManagerIn
  <2>5. DispatchIfFree(line, places, dictations)
    BY <2>1
  <2> HIDE DEF line, places
  <2>6. CASE owner = Nobody
    <3>1. Dispatch(line, places, dictations)
      BY <2>5, <2>6 DEF DispatchIfFree
    <3>2. ManagerIn' /\ FirstOf(line, dictations)
      BY <1>1, <2>2, <2>4, <2>6, <3>1, DispatchIn
    <3>3. ASSUME NEW j \in DOMAIN waiting, j # i
          PROVE  LET l == IF j < i THEN j ELSE j - 1 IN l \in DOMAIN line /\ line[l] = waiting[j]
      BY <2>3, <3>3
    <3>4. ASSUME NEW k \in DOMAIN line
          PROVE  line[k] # t
      <4> DEFINE x == IF k < i THEN k ELSE k + 1
      <4>1. x \in DOMAIN waiting /\ x # i /\ line[k] = waiting[x]
        BY <2>3
      <4> HIDE DEF x
      <4> QED
        BY <1>1, <2>1, <4>1 DEF NoTwice
    <3>5. ASSUME NEW l \in DOMAIN waiting', NEW j \in DOMAIN waiting, NEW k \in DOMAIN waiting,
                 owner' \in Claimants, waiting[j] = owner', waiting[k] = waiting'[l],
                 \A x, y \in DOMAIN line : line[x] = owner' /\ line[y] = waiting'[l] => x < y
          PROVE  j < k
      <4>1. j # i /\ k # i
        BY <2>1, <3>2, <3>4, <3>5 DEF FirstOf
      <4>2. (IF j < i THEN j ELSE j - 1) < (IF k < i THEN k ELSE k - 1)
        BY <3>3, <3>5, <4>1
      <4> QED
        BY <2>3, <4>1, <4>2
    <3> QED
      BY <2>2, <3>2, <3>5 DEF FirstOf, LeasedInTurn
  <2>7. CASE owner # Nobody
    <3>1. owner' = owner /\ waiting' = line /\ stage' = places
      BY <2>5, <2>7 DEF DispatchIfFree
    <3> QED
      BY <2>2, <2>4, <2>7, <3>1 DEF ManagerIn, LeasedInTurn, Queued, NoTwice, GpuNotIdle, DictationAsked, Classroom
  <2> QED
    BY <2>6, <2>7
<1>7. ASSUME DictationBegins
      PROVE  ManagerIn' /\ LeasedInTurn
  <2>1. /\ dictations' = dictations + 1 /\ dictations' \in 0..MaxBegun
        /\ preempt' = (preempt \/ Classroom(owner))
        /\ owner' = owner /\ waiting' = waiting /\ stage' = stage
    BY <1>1, <1>7 DEF DictationBegins
  <2>2. preempt' \in BOOLEAN /\ DictationAsked'
    BY <1>1, <2>1 DEF DictationAsked, Classroom
  <2>3. GpuNotIdle'
    BY <1>1, <2>1 DEF ManagerIn, GpuNotIdle, Classroom
  <2> QED
    BY <2>1, <2>2, <2>3 DEF ManagerIn, LeasedInTurn, Queued, NoTwice
<1>8. ASSUME DictationEnds
      PROVE  ManagerIn' /\ LeasedInTurn
  <2>1. /\ dictations > 0 /\ dictations' = dictations - 1 /\ dictations' \in 0..MaxBegun
        /\ preempt' = preempt
    BY <1>1, <1>8 DEF DictationEnds
  <2>2. CASE dictations = 1 /\ owner = Nobody
    <3>1. Dispatch(waiting, stage, 0) /\ dictations' = 0
      BY <1>8, <2>1, <2>2 DEF DictationEnds, DispatchIfFree
    <3>2. \A c \in Claimants : stage[c] \notin {"granted", "holding"}
      BY <1>1, <2>2 DEF ManagerIn
    <3>3. ManagerIn' /\ FirstOf(waiting, 0)
      BY <1>1, <2>1, <3>1, <3>2, DispatchIn
    <3> QED
      BY <3>1, <3>3 DEF FirstOf, LeasedInTurn
  <2>3. CASE ~(dictations = 1 /\ owner = Nobody)
    <3>1. owner' = owner /\ waiting' = waiting /\ stage' = stage
      BY <1>8, <2>3 DEF DictationEnds, DispatchIfFree
    <3>2. GpuNotIdle' /\ DictationAsked'
      BY <1>1, <2>1, <2>3, <3>1 DEF ManagerIn, GpuNotIdle, DictationAsked, Classroom
    <3> QED
      BY <2>1, <3>1, <3>2 DEF ManagerIn, LeasedInTurn, Queued, NoTwice
  <2> QED
    BY <2>2, <2>3
<1>9. ASSUME NEW t \in Claimants, ReleaseLease(t) \/ SegmentBoundary(t)
      PROVE  ManagerIn' /\ LeasedInTurn
  BY <1>4, <1>9 DEF ReleaseLease, SegmentBoundary
<1> QED
  <2>1. ASSUME NEW t \in Claimants, Abandon(t)
        PROVE  stage[t] = "granted" \/ stage[t] = "waiting"
    BY <2>1 DEF Abandon
  <2> QED
    BY <1>2, <1>3, <1>5, <1>6, <1>7, <1>8, <1>9, <2>1 DEF ManagerNext

-----------------------------------------------------------------------------
\* An attempt, and how one that was made before differs from it: in what a step
\* up to the present one has changed for good.
AttemptIn(a) ==
    /\ a = [model |-> a.model, batch |-> a.batch, window |-> a.window, attention |-> a.attention,
            dtype |-> a.dtype, quantization |-> a.quantization, cleanups |-> a.cleanups,
            steps |-> a.steps]
    /\ a.window \in Nat /\ a.cleanups \in Nat /\ a.steps \in 0..6
Differs(f, a) ==
    \/ a.steps >= 1 /\ f[7] # a.cleanups
    \/ a.steps >= 2 /\ f[2] # a.batch
    \/ a.steps >= 3 /\ f[3] # a.window
    \/ a.steps >= 4 /\ f[4] # a.attention
    \/ a.steps >= 5 /\ (f[5] # a.dtype \/ f[6] # a.quantization)
    \/ a.steps >= 6 /\ f[1] # a.model

RecoveryIn ==
    /\ AttemptIn(attempt) /\ outcome # "repeated"
    /\ IsFiniteSet(seen) /\ Cardinality(seen) <= 7
    /\ outcome = "trying" =>
         Cardinality(seen) <= attempt.steps /\ \A f \in seen : Differs(f, attempt)

\* The next attempt differs from the one that failed, and still from those before it,
\* because its step changes what no later step changes back.
LEMMA NextDiffers ==
    ASSUME NEW a, AttemptIn(a), Helpful(a) # {}
    PROVE  /\ AttemptIn(NextAttempt(a)) /\ NextAttempt(a).steps > a.steps
           /\ Differs(Fingerprint(a), NextAttempt(a))
           /\ \A f : Differs(f, a) => Differs(f, NextAttempt(a))
<1> DEFINE s == Least(Helpful(a))
           b == NextAttempt(a)
<1>1. s \in (a.steps + 1)..6 /\ Applied(a)[s] # a
  <2>1. Helpful(a) \in SUBSET Nat
    BY DEF Helpful, AttemptIn
  <2>2. \E x \in Helpful(a) : \A y \in Helpful(a) : x <= y
    BY <2>1, FirstExists
  <2>3. s \in Helpful(a)
    BY <2>2 DEF Least
  <2> QED
    BY <2>3 DEF Helpful
<1>2. b = [Applied(a)[s] EXCEPT !.steps = s]
  BY DEF NextAttempt
<1>11. NextAttempt(a) = b
  BY DEF b
<1> HIDE DEF s, b
<1>3. s \in 1..6 /\ s > a.steps
  BY <1>1 DEF AttemptIn
<1>4. Shorter(a) \in Nat
  BY ManagerAssumption DEF Shorter, AttemptIn, ManagerAssumption
<1> DEFINE Good == /\ AttemptIn(b) /\ b.steps > a.steps /\ Differs(Fingerprint(a), b)
                   /\ \A f : Differs(f, a) => Differs(f, b)
<1>5. ASSUME s = 1 PROVE Good
  <2>1. b = [a EXCEPT !.cleanups = a.cleanups + 1, !.steps = 1] /\ a.cleanups # a.cleanups + 1
    BY <1>1, <1>2, <1>5 DEF Applied, AttemptIn
  <2>2. b = [model |-> a.model, batch |-> a.batch, window |-> a.window, attention |-> a.attention,
              dtype |-> a.dtype, quantization |-> a.quantization, cleanups |-> a.cleanups + 1, steps |-> 1]
    BY <2>1 DEF AttemptIn
  <2>3. AttemptIn(b)
    BY <1>3, <1>4, <2>2 DEF AttemptIn
  <2> QED
    BY <1>3, <1>5, <2>1, <2>2, <2>3 DEF AttemptIn, Differs, Fingerprint
<1>6. ASSUME s = 2 PROVE Good
  <2>1. b = [a EXCEPT !.batch = 1, !.steps = 2] /\ a.batch # 1
    BY <1>1, <1>2, <1>6 DEF Applied, AttemptIn
  <2>2. b = [model |-> a.model, batch |-> 1, window |-> a.window, attention |-> a.attention,
              dtype |-> a.dtype, quantization |-> a.quantization, cleanups |-> a.cleanups, steps |-> 2]
    BY <2>1 DEF AttemptIn
  <2>3. AttemptIn(b)
    BY <1>3, <1>4, <2>2 DEF AttemptIn
  <2> QED
    BY <1>3, <1>6, <2>1, <2>2, <2>3 DEF AttemptIn, Differs, Fingerprint
<1>7. ASSUME s = 3 PROVE Good
  <2>1. b = [a EXCEPT !.window = Shorter(a), !.steps = 3] /\ a.window # Shorter(a)
    BY <1>1, <1>2, <1>7, <1>4 DEF Applied, AttemptIn
  <2>2. b = [model |-> a.model, batch |-> a.batch, window |-> Shorter(a), attention |-> a.attention,
              dtype |-> a.dtype, quantization |-> a.quantization, cleanups |-> a.cleanups, steps |-> 3]
    BY <2>1 DEF AttemptIn
  <2>3. AttemptIn(b)
    BY <1>3, <1>4, <2>2 DEF AttemptIn
  <2> QED
    BY <1>3, <1>7, <2>1, <2>2, <2>3 DEF AttemptIn, Differs, Fingerprint
<1>8. ASSUME s = 4 PROVE Good
  <2>1. b = [a EXCEPT !.attention = "sdpa", !.steps = 4] /\ a.attention # "sdpa"
    BY <1>1, <1>2, <1>8 DEF Applied, AttemptIn
  <2>2. b = [model |-> a.model, batch |-> a.batch, window |-> a.window, attention |-> "sdpa",
              dtype |-> a.dtype, quantization |-> a.quantization, cleanups |-> a.cleanups, steps |-> 4]
    BY <2>1 DEF AttemptIn
  <2>3. AttemptIn(b)
    BY <1>3, <1>4, <2>2 DEF AttemptIn
  <2> QED
    BY <1>3, <1>8, <2>1, <2>2, <2>3 DEF AttemptIn, Differs, Fingerprint
<1>9. ASSUME s = 5 PROVE Good
  <2>1. PICK d, q : LowerPrecision(a) = [a EXCEPT !.dtype = d, !.quantization = q]
    <3> DEFINE D == Other(Dtypes, a.dtype)
               Q == Other(Quantizations, a.quantization)
    <3>1. \/ LowerPrecision(a) = [a EXCEPT !.dtype = Head(D), !.quantization = a.quantization]
          \/ LowerPrecision(a) = [a EXCEPT !.dtype = a.dtype, !.quantization = Head(Q)]
          \/ LowerPrecision(a) = [a EXCEPT !.dtype = a.dtype, !.quantization = a.quantization]
      BY DEF LowerPrecision, AttemptIn
    <3> QED
      BY <3>1
  <2>2. b = [a EXCEPT !.dtype = d, !.quantization = q, !.steps = 5] /\ (a.dtype # d \/ a.quantization # q)
    BY <1>1, <1>2, <1>9, <2>1 DEF Applied, AttemptIn
  <2>3. b = [model |-> a.model, batch |-> a.batch, window |-> a.window, attention |-> a.attention,
              dtype |-> d, quantization |-> q, cleanups |-> a.cleanups, steps |-> 5]
    BY <2>2 DEF AttemptIn
  <2>4. AttemptIn(b)
    BY <1>3, <1>4, <2>3 DEF AttemptIn
  <2> QED
    BY <1>3, <1>9, <2>2, <2>3, <2>4 DEF AttemptIn, Differs, Fingerprint
<1>10. ASSUME s = 6 PROVE Good
  <2>1. PICK m : SmallerModel(a) = [a EXCEPT !.model = m]
    BY DEF SmallerModel, AttemptIn
  <2>2. b = [a EXCEPT !.model = m, !.steps = 6] /\ a.model # m
    BY <1>1, <1>2, <1>10, <2>1 DEF Applied, AttemptIn
  <2>3. b = [model |-> m, batch |-> a.batch, window |-> a.window, attention |-> a.attention,
              dtype |-> a.dtype, quantization |-> a.quantization, cleanups |-> a.cleanups, steps |-> 6]
    BY <2>2 DEF AttemptIn
  <2>4. AttemptIn(b)
    BY <1>3, <1>4, <2>3 DEF AttemptIn
  <2> QED
    BY <1>3, <1>10, <2>2, <2>3, <2>4 DEF AttemptIn, Differs, Fingerprint
<1> QED
  BY <1>3, <1>5, <1>6, <1>7, <1>8, <1>9, <1>10, <1>11

\* Nothing has failed before the first attempt.
LEMMA RecoveryStarts == AttemptInit => RecoveryIn
<1> SUFFICES ASSUME AttemptInit PROVE RecoveryIn
  OBVIOUS
<1>1. AttemptIn(attempt)
  <2>1. MinWindow \in Nat /\ 4 * MinWindow \in Nat
    BY ManagerAssumption DEF ManagerAssumption
  <2> QED
    BY <2>1 DEF AttemptInit, Attempts, AttemptIn
<1>2. IsFiniteSet(seen) /\ Cardinality(seen) = 0 /\ seen = {}
  BY FS_EmptySet DEF AttemptInit
<1> QED
  BY <1>1, <1>2 DEF AttemptInit, RecoveryIn, AttemptIn

\* Every step of the recovery keeps its accounts.
LEMMA RecoverySteps ==
    ASSUME RecoveryIn, AttemptNext
    PROVE  RecoveryIn'
<1>1. AttemptIn(attempt) /\ IsFiniteSet(seen) /\ Cardinality(seen) <= 7 /\ attempt.steps \in 0..6
  BY DEF RecoveryIn, AttemptIn
<1>2. CASE Succeed
  BY <1>2 DEF Succeed, RecoveryIn
<1>3. CASE OutOfMemory
  <2>1. /\ outcome = "trying" /\ seen' = seen \cup {Fingerprint(attempt)}
        /\ Cardinality(seen) <= attempt.steps /\ \A f \in seen : Differs(f, attempt)
    BY <1>3 DEF OutOfMemory, RecoveryIn
  <2>2. IsFiniteSet(seen') /\ Cardinality(seen') <= attempt.steps + 1
    <3>1. /\ IsFiniteSet(seen')
          /\ Cardinality(seen') = IF Fingerprint(attempt) \in seen THEN Cardinality(seen)
                                  ELSE Cardinality(seen) + 1
      BY <1>1, <2>1, FS_AddElement
    <3>2. Cardinality(seen) \in Nat
      BY <1>1, FS_CardinalityType
    <3> QED
      BY <1>1, <2>1, <3>1, <3>2
  <2>3. Cardinality(seen') \in Nat
    BY <2>2, FS_CardinalityType
  <2>4. CASE Helpful(attempt) = {}
    <3>1. outcome' = "exhausted" /\ attempt' = attempt
      BY <1>3, <2>4 DEF OutOfMemory
    <3> QED
      BY <1>1, <2>2, <2>3, <3>1 DEF RecoveryIn
  <2>5. CASE Helpful(attempt) # {}
    <3> DEFINE next == NextAttempt(attempt)
    <3>1. attempt' = next /\ outcome' = IF Fingerprint(next) \in seen' THEN "repeated" ELSE "trying"
      BY <1>3, <2>5 DEF OutOfMemory
    <3>2. /\ AttemptIn(next) /\ next.steps > attempt.steps
          /\ Differs(Fingerprint(attempt), next)
          /\ \A f : Differs(f, attempt) => Differs(f, next)
      BY <1>1, <2>5, NextDiffers
    <3> HIDE DEF next
    <3>3. \A f \in seen' : Differs(f, next)
      BY <2>1, <3>2
    <3>4. ~Differs(Fingerprint(next), next)
      BY DEF Differs, Fingerprint
    <3>5. Cardinality(seen') <= next.steps /\ next.steps <= 6
      BY <1>1, <2>2, <2>3, <3>2 DEF AttemptIn
    <3> QED
      BY <2>2, <2>3, <3>1, <3>2, <3>3, <3>4, <3>5 DEF RecoveryIn, AttemptIn
  <2> QED
    BY <2>4, <2>5
<1> QED
  BY <1>2, <1>3 DEF AttemptNext

-----------------------------------------------------------------------------
(* All parts together.                                                      *)

\* A step of the run is a step of each module or leaves its variables alone.
LEMMA EachForItself ==
    ServicesSpec => Spec /\ ResidentSpec /\ SessionsSpec /\ ManagerSpec /\ RecoverySpec
<1>1. ServicesInit => Init /\ ResidentInit /\ SessionsInit /\ ManagerInit /\ AttemptInit
  BY DEF ServicesInit
<1>2. [ServicesNext]_servicesVars =>
        /\ [Next]_leaseVars /\ [ResidentNext]_residentVars /\ [SessionsNext]_sessionVars
        /\ [ManagerNext]_managerVars /\ [AttemptNext]_recoveryVars
  BY DEF ServicesNext, LeaseStep, ResidentStep, LaneStep, SchedulerStep, servicesVars,
         schedulerVars
<1> QED
  BY <1>1, <1>2, PTL DEF ServicesSpec, Spec, ResidentSpec, SessionsSpec, ManagerSpec, RecoverySpec

\* The lease manager keeps its accounts and leases the GPU in turn (gpu.py:60-180).
THEOREM LeasesInTurn == ManagerSpec => [](ManagerTypeOK /\ GpuNotIdle /\ DictationAsked) /\ InTurn
<1>1. ManagerIn /\ [ManagerNext]_managerVars => ManagerIn' /\ [LeasedInTurn]_managerVars
  <2>1. ManagerIn /\ UNCHANGED managerVars => ManagerIn'
    BY DEF managerVars, ManagerIn, Queued, NoTwice, GpuNotIdle, DictationAsked, Classroom
  <2> QED
    BY <2>1, ManagerSteps
<1>2. ManagerIn => ManagerTypeOK /\ GpuNotIdle /\ DictationAsked
  BY ManagerTyped DEF ManagerIn
<1> QED
  BY ManagerStarts, <1>1, <1>2, PTL DEF ManagerSpec, InTurn

\* No attempt is made with parameters that filled the GPU before (gpu.py:380-470).
THEOREM NoAttemptTwice == RecoverySpec => []NeverTheSame
<1>1. RecoveryIn /\ [AttemptNext]_recoveryVars => RecoveryIn'
  <2>1. RecoveryIn /\ UNCHANGED recoveryVars => RecoveryIn'
    BY DEF recoveryVars, RecoveryIn
  <2> QED
    BY <2>1, RecoverySteps
<1>2. RecoveryIn => NeverTheSame
  BY DEF RecoveryIn, NeverTheSame
<1> QED
  BY RecoveryStarts, <1>1, <1>2, PTL DEF RecoverySpec

\* The flags of the servers agree with the tasks they speak of, the GPU is leased in
\* turn, and a full GPU is not tried again as it was (ipc.py:100-215, resident.py,
\* gpu.py), in every behavior of the run.
THEOREM ServersAgree == ServicesSpec => ServersConsistent
<1>1. ResidentSpec => []ResidentTypeOK
  <2>1. RInv => ResidentTypeOK
    BY DEF RInv
  <2> QED
    BY <2>1, ResidentStarts, RInvStays, PTL DEF ResidentSpec
<1> QED
  BY <1>1, EachForItself, SessionsAccounted, LeasesInTurn, NoAttemptTwice, PTL
     DEF ServersConsistent
=============================================================================
