----------------------- MODULE DictationServiceProofs -----------------------
(***************************************************************************)
(* The dictation daemon commits a session once, for any number of sessions, *)
(* connections, frames and faults.                                          *)
(*                                                                          *)
(* SessionsCommit is not inductive.  A session commits at most once because *)
(* the tasks that may commit it run once each (Fresh), because the session  *)
(* under way has neither been committed nor ended (Committing), and because *)
(* a task that waits for the lock is at no other place (InLock): whoever is *)
(* given the lock finds the session as the one before left it.              *)
(***************************************************************************)
EXTENDS DictationService, SequenceTheorems, TLAPS

\* A queue of tasks in which none waits twice.
Line(s) == s \in Seq(Tasks) /\ IsInjective(s)

-----------------------------------------------------------------------------
(* Queues.                                                                  *)

LEMMA InLine ==
    ASSUME NEW s, Line(s)
    PROVE  /\ s \in [1..Len(s) -> Tasks] /\ Len(s) \in Nat
           /\ \A i, j \in 1..Len(s) : s[i] = s[j] => i = j
           /\ ToSet(s) = {s[i] : i \in 1..Len(s)} /\ ToSet(s) \subseteq Tasks
BY LenProperties DEF Line, IsInjective, ToSet

LEMMA Appends ==
    ASSUME NEW s, Line(s), NEW t \in Tasks, t \notin ToSet(s)
    PROVE  Line(Append(s, t)) /\ ToSet(Append(s, t)) = ToSet(s) \cup {t}
<1> DEFINE l == Append(s, t)
<1>1. /\ l \in Seq(Tasks) /\ Len(l) = Len(s) + 1 /\ Len(s) \in Nat
      /\ \A i \in 1..Len(s) : l[i] = s[i]
      /\ l[Len(s) + 1] = t
  BY InLine, AppendProperties DEF Line
<1>2. DOMAIN l = 1..Len(l)
  BY <1>1, LenProperties
<1> HIDE DEF l
<1>3. IsInjective(l)
  BY <1>1, <1>2, InLine DEF IsInjective
<1>4. ToSet(l) = ToSet(s) \cup {t}
  BY <1>1, <1>2, InLine DEF ToSet
<1> QED BY <1>1, <1>3, <1>4 DEF Line, l

LEMMA Tails ==
    ASSUME NEW s, Line(s), s # <<>>
    PROVE  Line(Tail(s)) /\ ToSet(Tail(s)) = ToSet(s) \ {Head(s)}
<1> DEFINE l == Tail(s)
<1>1. /\ l \in Seq(Tasks) /\ Len(l) = Len(s) - 1 /\ Len(s) \in Nat \ {0}
      /\ \A i \in 1..Len(l) : l[i] = s[i + 1]
      /\ Head(s) = s[1]
  BY HeadTailProperties, EmptySeq, InLine DEF Line
<1>2. DOMAIN l = 1..Len(l)
  BY <1>1, LenProperties
<1> HIDE DEF l
<1>3. IsInjective(l)
  BY <1>1, <1>2, InLine DEF IsInjective
<1>4. ToSet(l) = {s[i] : i \in 2..Len(s)}
  <2>1. ASSUME NEW i \in 2..Len(s) PROVE i - 1 \in 1..Len(l) /\ l[i - 1] = s[i]
    BY <1>1
  <2>2. ASSUME NEW i \in 1..Len(l) PROVE i + 1 \in 2..Len(s) /\ l[i] = s[i + 1]
    BY <1>1
  <2>3. ToSet(l) = {l[i] : i \in 1..Len(l)}
    BY <1>2 DEF ToSet
  <2>4. {l[i] : i \in 1..Len(l)} \subseteq {s[i] : i \in 2..Len(s)}
    BY <2>2
  <2>5. ASSUME NEW i \in 2..Len(s) PROVE s[i] \in {l[j] : j \in 1..Len(l)}
    BY <2>1
  <2> QED BY <2>3, <2>4, <2>5
<1>5. {s[i] : i \in 2..Len(s)} = ToSet(s) \ {Head(s)}
  BY <1>1, InLine
<1> QED BY <1>1, <1>3, <1>4, <1>5 DEF Line, l

LEMMA Removes ==
    ASSUME NEW s, Line(s), NEW t
    PROVE  Line(RemoveFirst(s, t)) /\ ToSet(RemoveFirst(s, t)) = ToSet(s) \ {t}
<1>1. CASE \A i \in 1..Len(s) : s[i] # t
  <2>1. RemoveFirst(s, t) = s
    BY <1>1 DEF RemoveFirst
  <2> QED BY <1>1, <2>1, InLine
<1>2. ASSUME NEW k \in 1..Len(s), s[k] = t
      PROVE  Line(RemoveFirst(s, t)) /\ ToSet(RemoveFirst(s, t)) = ToSet(s) \ {t}
  <2> DEFINE I == {i \in 1..Len(s) : s[i] = t}
             l == RemoveAt(s, k)
  <2>1. I = {k}
    BY <1>2, InLine
  <2>2. Min({k}) = k
    BY <1>2 DEF Min
  <2>3. RemoveFirst(s, t) = l
    <3>1. SelectInSeq(s, LAMBDA v : v = t) = k
      BY <2>1, <2>2 DEF SelectInSeq
    <3> QED BY <1>2, <3>1 DEF RemoveFirst
  <2>4. /\ l \in Seq(Tasks) /\ Len(l) = Len(s) - 1 /\ Len(s) \in Nat
        /\ \A i \in 1..Len(l) : l[i] = IF i < k THEN s[i] ELSE s[i + 1]
    <3> DEFINE front == SubSeq(s, 1, k - 1)
               back == SubSeq(s, k + 1, Len(s))
    <3>1. /\ front \in Seq(Tasks) /\ Len(front) = k - 1
          /\ \A i \in 1..(k - 1) : front[i] = s[i]
      BY <1>2, InLine, SubSeqProperties
    <3>2. /\ back \in Seq(Tasks) /\ Len(back) = Len(s) - k
          /\ \A i \in 1..(Len(s) - k) : back[i] = s[k + i]
      BY <1>2, InLine, SubSeqProperties
    <3>3. l = front \o back
      BY DEF RemoveAt
    <3> HIDE DEF front, back, l
    <3>4. /\ l \in Seq(Tasks) /\ Len(l) = Len(s) - 1
          /\ \A i \in 1..(Len(s) - 1) : l[i] = IF i <= k - 1 THEN front[i] ELSE back[i - (k - 1)]
      BY <1>2, <3>1, <3>2, <3>3, InLine, ConcatProperties
    <3>5. Len(s) \in Nat /\ k \in 1..Len(s) /\ Len(l) = Len(s) - 1
      BY <3>4, InLine
    <3>6. ASSUME NEW i \in 1..Len(l)
          PROVE  l[i] = IF i < k THEN s[i] ELSE s[i + 1]
      <4>1. CASE i < k
        <5>1. i \in 1..(k - 1) /\ i <= k - 1 /\ i \in 1..(Len(s) - 1)
          BY <3>5, <4>1
        <5>2. l[i] = front[i]
          BY <3>4, <5>1
        <5> QED BY <3>1, <4>1, <5>1, <5>2
      <4>2. CASE ~(i < k)
        <5>1. i - (k - 1) \in 1..(Len(s) - k) /\ k + (i - (k - 1)) = i + 1
          BY <3>5, <4>2
        <5>2. l[i] = back[i - (k - 1)]
          BY <3>4, <3>5, <4>2
        <5> QED BY <3>2, <4>2, <5>1, <5>2
      <4> QED BY <4>1, <4>2
    <3> QED BY <3>4, <3>5, <3>6
  <2>5. DOMAIN l = 1..Len(l)
    BY <2>4, LenProperties
  <2> HIDE DEF l
  <2>6. IsInjective(l)
    <3> SUFFICES ASSUME NEW i \in 1..Len(l), NEW j \in 1..Len(l), l[i] = l[j]
                 PROVE  i = j
      BY <2>5 DEF IsInjective
    <3> DEFINE Was(n) == IF n < k THEN n ELSE n + 1
    <3>1. /\ Was(i) \in 1..Len(s) /\ l[i] = s[Was(i)]
          /\ Was(j) \in 1..Len(s) /\ l[j] = s[Was(j)]
      BY <2>4
    <3>2. Was(i) = Was(j)
      <4> HIDE DEF Was
      <4> QED BY <3>1, InLine
    <3> QED BY <3>2
  <2>7. ToSet(l) = {s[i] : i \in 1..Len(s) \ {k}}
    <3>1. ASSUME NEW i \in 1..Len(s) \ {k} PROVE \E j \in 1..Len(l) : l[j] = s[i]
      <4>1. CASE i < k
        BY <1>2, <2>4, <4>1
      <4>2. CASE i > k
        <5>1. i - 1 \in 1..Len(l) /\ ~(i - 1 < k) /\ (i - 1) + 1 = i
          BY <1>2, <2>4, <4>2
        <5> QED BY <2>4, <5>1
      <4> QED BY <1>2, <2>4, <4>1, <4>2
    <3>2. ASSUME NEW j \in 1..Len(l) PROVE \E i \in 1..Len(s) \ {k} : l[j] = s[i]
      BY <1>2, <2>4
    <3> QED BY <2>5, <3>1, <3>2 DEF ToSet
  <2>8. {s[i] : i \in 1..Len(s) \ {k}} = ToSet(s) \ {t}
    BY <1>2, InLine
  <2> QED BY <2>3, <2>4, <2>6, <2>7, <2>8 DEF Line
<1> QED BY <1>1, <1>2

LEMMA EmptyLine == Line(<<>>) /\ ToSet(<<>>) = {}
BY DEF Line, IsInjective, ToSet

-----------------------------------------------------------------------------
(* The invariant.                                                           *)

\* Where a task neither has the lock nor waits for it.
Outside == {"off", "get", "voice", "feed", "wait", "sleep", "await"}
Unlocked == {Consumer(s) : s \in Sessions} \cup {Overflow}
Once == {Arm(s) : s \in Sessions} \cup Watches \cup {Timer(s) : s \in Sessions}

Plain ==
    /\ state \in States /\ session \in 0..MaxSessions
    /\ sid \in 0..MaxSessions /\ arming \in 0..MaxSessions /\ audio \in 0..MaxSessions
    /\ queue \in 0..MaxQueue /\ timer \in 0..MaxSessions
    /\ target \in [Tasks -> 0..MaxSessions] /\ watchdog \in 0..MaxSessions
    /\ pending \subseteq Sessions /\ cleanup \in BOOLEAN
    /\ stream \in 0..MaxSessions /\ vad \in 0..MaxSessions
    /\ renewing \subseteq Sessions /\ lost \subseteq Sessions /\ held \subseteq Sessions
    /\ latest \in 0..MaxSessions /\ commits \in [Sessions -> Nat]
    /\ over \subseteq Sessions /\ escaped \subseteq Sessions /\ faults \in 0..MaxFaults

InLock == \A t \in ToSet(lock) : t \notin Unlocked /\ at[t] \notin Outside

\* The tasks of a session start once: its watchdog when its arming ends, its timer
\* when its stream has been closed.
Fresh ==
    \A s \in Sessions :
        /\ s > latest => at[Arm(s)] = "off" /\ at[Timer(s)] = "off"
        /\ s > latest \/ at[Arm(s)] # "off" => at[Watch(s)] = "off"
        /\ s = latest /\ (state = "ARMING" \/ stream # 0) => at[Timer(s)] = "off"

\* The session under way has neither been committed nor ended.
Committing ==
    /\ over \subseteq 1..latest /\ session <= latest
    /\ session # 0 => session \notin over /\ commits[session] = 0
    /\ \A s \in Sessions : commits[s] <= 1 /\ (s > latest => commits[s] = 0)

Sound == Plain /\ at \in [Tasks -> Places] /\ Line(lock) /\ InLock /\ Fresh /\ Committing
CInv == Sound /\ running \in Tasks \cup {NoTask}

LEMMA SoundTypes == CInv <=> /\ TypeOK /\ InLock /\ Fresh /\ Committing
BY DEF CInv, Sound, Plain, Line, TypeOK

LEMMA Names ==
    /\ \A s \in Sessions : /\ Arm(s) \in Tasks /\ Consumer(s) \in Tasks
                           /\ Watch(s) \in Tasks /\ Timer(s) \in Tasks
                           /\ Arm(s) \notin Unlocked /\ Watch(s) \notin Unlocked
                           /\ Timer(s) \notin Unlocked /\ Consumer(s) \in Unlocked
                           /\ Arm(s) \in Once /\ Watch(s) \in Once /\ Timer(s) \in Once
    /\ \A k \in Callers : /\ Command(k) \in Tasks
                          /\ Command(k) \notin Unlocked /\ Command(k) \notin Once
    /\ Overflow \in Tasks /\ Overflow \in Unlocked
    /\ Unlocked \cap Once = {} /\ Once \subseteq Tasks
BY DEF Tasks, Arm, Consumer, Watch, Timer, Command, Overflow, Unlocked, Once, Watches

\* What a step does to the tasks, when no arming, watchdog or timer starts.
Tidy ==
    /\ at' \in [Tasks -> Places] /\ Line(lock') /\ InLock'
    /\ \A t \in Once : at[t] = "off" => at'[t] = "off"

\* What a step does to the session: nothing, an end, or a commit.
Calm ==
    /\ latest' = latest
    /\ state' = "ARMING" \/ stream' # 0 => state = "ARMING" \/ stream # 0
    /\ \/ UNCHANGED <<session, over, commits>>
       \/ session' = 0 /\ over' = over \cup Known(session) /\ commits' = commits
       \/ session' = 0 /\ over' = over
          /\ commits' = [s \in Sessions |-> commits[s] + (IF s = session THEN 1 ELSE 0)]

LEMMA FreshKept ==
    ASSUME Sound, Tidy, Calm
    PROVE  Fresh'
<1> SUFFICES ASSUME NEW s \in Sessions
             PROVE  /\ s > latest => at'[Arm(s)] = "off" /\ at'[Timer(s)] = "off"
                    /\ s > latest \/ at'[Arm(s)] # "off" => at'[Watch(s)] = "off"
                    /\ s = latest /\ (state' = "ARMING" \/ stream' # 0) => at'[Timer(s)] = "off"
  BY DEF Fresh, Calm
<1>1. /\ at[Arm(s)] = "off" => at'[Arm(s)] = "off"
      /\ at[Watch(s)] = "off" => at'[Watch(s)] = "off"
      /\ at[Timer(s)] = "off" => at'[Timer(s)] = "off"
  BY Names DEF Tidy
<1> QED BY <1>1 DEF Sound, Fresh, Calm

LEMMA CommittingKept ==
    ASSUME Sound, Calm
    PROVE  Committing'
<1>1. session \in 0..MaxSessions /\ latest \in 0..MaxSessions /\ commits \in [Sessions -> Nat]
      /\ MaxSessions \in Nat /\ over \subseteq Sessions
  BY DictationAssumption DEF Sound, Plain
<1>2. CASE UNCHANGED <<session, over, commits>>
  BY <1>2 DEF Sound, Calm, Committing
<1>3. CASE session' = 0 /\ over' = over \cup Known(session) /\ commits' = commits
  BY <1>1, <1>3 DEF Sound, Calm, Committing, Known, Sessions
<1>4. CASE /\ session' = 0 /\ over' = over
           /\ commits' = [s \in Sessions |-> commits[s] + (IF s = session THEN 1 ELSE 0)]
  <2>1. ASSUME NEW s \in Sessions PROVE commits'[s] <= 1 /\ (s > latest => commits'[s] = 0)
    BY <1>1, <1>4 DEF Sound, Committing, Sessions
  <2> QED BY <1>1, <1>4, <2>1 DEF Sound, Calm, Committing
<1> QED BY <1>2, <1>3, <1>4 DEF Calm

LEMMA Assembled ==
    ASSUME Sound, Plain', Tidy, Calm
    PROVE  Sound'
BY FreshKept, CommittingKept DEF Sound, Tidy

\* A step that moves one task only.
LEMMA Moves ==
    ASSUME Sound, NEW t \in Tasks, NEW p \in Places, at' = [at EXCEPT ![t] = p], lock' = lock,
           at[t] # "off" \/ t \notin Once, p \notin Outside \/ t \notin ToSet(lock)
    PROVE  Tidy
BY Names, InLine DEF Sound, Tidy, InLock

LEMMA Waits ==
    ASSUME Sound, NEW t \in Tasks, NEW p \in Places, at[t] \in Outside, t \notin Unlocked,
           p \notin Outside, at[t] # "off" \/ t \notin Once,
           at' = [at EXCEPT ![t] = p], lock' = Append(lock, t)
    PROVE  Tidy
<1>1. t \notin ToSet(lock)
  BY DEF Sound, InLock
<1>2. Line(lock') /\ ToSet(lock') = ToSet(lock) \cup {t}
  BY <1>1, Appends DEF Sound
<1> QED BY <1>2, Names, InLine DEF Sound, Tidy, InLock

LEMMA Leaves ==
    ASSUME Sound, NEW t \in Tasks, at[t] # "off" \/ t \notin Once,
           at' = [at EXCEPT ![t] = "off"], lock' = RemoveFirst(lock, t)
    PROVE  Tidy
<1>1. Line(lock') /\ ToSet(lock') = ToSet(lock) \ {t}
  BY Removes DEF Sound
<1> QED BY <1>1, Names, InLine DEF Sound, Tidy, InLock, Places

-----------------------------------------------------------------------------
(* The end of a lease.                                                      *)

LEMMA Publishes ==
    ASSUME NEW how \in {"keep", "fail", "commit"}, Publish(how)
    PROVE  /\ how = "keep" => UNCHANGED <<state, session, over>>
           /\ how = "commit" => state' = "IDLE" /\ session' = 0 /\ over' = over
           /\ how = "fail" => state' = "IDLE" /\ session' = 0 /\ over' = over \cup Known(session)
BY DEF Publish, GoIdle, controller

LEMMA Releases ==
    ASSUME Sound, NEW t \in Tasks, at[t] # "off" \/ t \notin Once,
           NEW now \in [Tasks -> Places], NEW waits, Line(waits),
           \A r \in ToSet(waits) : r \notin Unlocked /\ now[r] \notin Outside,
           \A r \in Once : at[r] = "off" => now[r] = "off",
           NEW how \in {"keep", "fail", "commit"}, NEW later \in {"keep", "fail"},
           ReleaseLease(t, now, waits, how, later)
    PROVE  /\ Tidy /\ watchdog' = 0 /\ sid' = 0
           /\ pending' \subseteq Sessions /\ renewing' \subseteq Sessions /\ lost' \subseteq Sessions
           /\ later = "keep" => Publish(how)
           /\ Publish("fail") \/ Publish(how)
<1> DEFINE watch == Watch(watchdog)
           other == watchdog # 0 /\ watch # t
           then == IF other THEN [now EXCEPT ![watch] = Stopped(@)] ELSE now
           queued == IF other /\ then[watch] = "off" THEN RemoveFirst(waits, watch) ELSE waits
           ends == pending \cup Known(sid)
<1>1. /\ watchdog' = 0 /\ sid' = 0 /\ pending' = ends
      /\ renewing' = renewing \ ends /\ lost' = lost \ ends
      /\ \/ /\ at' = [then EXCEPT ![t] = "off"] /\ lock' = RemoveFirst(queued, t)
            /\ Publish(IF later = "fail" THEN later ELSE how)
         \/ /\ at' = [then EXCEPT ![t] = IF later = "fail" THEN "endingFail" ELSE "ending"]
            /\ lock' = queued
            /\ Publish(how)
  BY DEF ReleaseLease
<1>2. ends \subseteq Sessions /\ renewing \subseteq Sessions /\ lost \subseteq Sessions
  BY DictationAssumption DEF Sound, Plain, Known, Sessions
<1>3. /\ then \in [Tasks -> Places]
      /\ \A r \in Tasks : then[r] = now[r] \/ (r = watch /\ other /\ then[r] = Stopped(now[r]))
  BY DEF Stopped, Places
<1>4. \A r \in Once : at[r] = "off" => then[r] = "off"
  BY <1>3, Names DEF Stopped
<1>5. Line(queued) /\ \A r \in ToSet(queued) : r \notin Unlocked /\ then[r] \notin Outside
  <2>1. CASE other /\ then[watch] = "off"
    <3>1. Line(queued) /\ ToSet(queued) = ToSet(waits) \ {watch}
      BY <2>1, Removes
    <3> QED BY <3>1, <1>3, InLine
  <2>2. CASE ~(other /\ then[watch] = "off")
    <3>1. queued = waits
      BY <2>2
    <3>2. ASSUME NEW r \in ToSet(waits) PROVE r \notin Unlocked /\ then[r] \notin Outside
      <4>1. r \in Tasks /\ r \notin Unlocked /\ now[r] \notin Outside
        BY InLine
      <4> QED BY <1>3, <2>2, <4>1 DEF Stopped, Outside, Places
    <3> QED BY <3>1, <3>2
  <2> QED BY <2>1, <2>2
<1> HIDE DEF watch, other, then, queued, ends
<1>6. Tidy
  <2>1. CASE at' = [then EXCEPT ![t] = "off"] /\ lock' = RemoveFirst(queued, t)
    <3>1. Line(lock') /\ ToSet(lock') = ToSet(queued) \ {t}
      BY <2>1, <1>5, Removes
    <3> QED BY <1>3, <1>4, <1>5, <2>1, <3>1, Names, InLine DEF Tidy, InLock, Places
  <2>2. CASE /\ at' = [then EXCEPT ![t] = IF later = "fail" THEN "endingFail" ELSE "ending"]
             /\ lock' = queued
    <3>1. \A r \in Tasks : r # t => at'[r] = then[r]
      BY <1>3, <2>2
    <3>2. at'[t] \in {"endingFail", "ending"} /\ at' \in [Tasks -> Places]
      BY <1>3, <2>2 DEF Places
    <3>3. at'[t] \notin Outside
      BY <3>2 DEF Outside
    <3> QED BY <1>4, <1>5, <2>2, <3>1, <3>2, <3>3, Names, InLine DEF Tidy, InLock
  <2> QED BY <1>1, <2>1, <2>2
<1> QED BY <1>1, <1>2, <1>6

LEMMA Rests ==
    ASSUME Sound, UNCHANGED <<at, lock>>
    PROVE  Tidy
BY DEF Sound, Tidy, InLock

\* A step at most ends the session.
LEMMA Idles ==
    ASSUME Sound, Publish("fail") \/ Publish("keep"), UNCHANGED <<latest, commits>>,
           stream' \in {0, stream}
    PROVE  /\ Calm
           /\ state' \in States /\ session' \in 0..MaxSessions /\ over' \subseteq Sessions
<1>1. \/ UNCHANGED <<state, session, over>>
      \/ state' = "IDLE" /\ session' = 0 /\ over' = over \cup Known(session)
  BY Publishes
<1>2. session \in 0..MaxSessions /\ over \subseteq Sessions /\ state \in States /\ MaxSessions \in Nat
  BY DictationAssumption DEF Sound, Plain
<1>3. CASE UNCHANGED <<state, session, over>>
  BY <1>2, <1>3 DEF Calm
<1>4. CASE state' = "IDLE" /\ session' = 0 /\ over' = over \cup Known(session)
  <2>1. Known(session) \subseteq Sessions
    BY <1>2 DEF Known, Sessions
  <2>2. Calm
    BY <1>4 DEF Calm
  <2> QED BY <1>2, <1>4, <2>1, <2>2 DEF States
<1> QED BY <1>1, <1>3, <1>4

\* A session that is taken no further.
LEMMA Goes ==
    ASSUME Sound, UNCHANGED <<session, over, latest, commits>>, state' = state \/ state' # "ARMING",
           stream' = stream \/ stream' = 0
    PROVE  Calm
BY DEF Calm

\* The consumers and a timer stop.
LEMMA Stops ==
    ASSUME Sound
    PROVE  /\ NoConsumer(at) \in [Tasks -> Places] /\ NoTimer(at) \in [Tasks -> Places]
           /\ NoConsumer(NoTimer(at)) \in [Tasks -> Places]
           /\ \A t \in Tasks : t \notin Unlocked =>
                 /\ NoConsumer(at)[t] = at[t]
                 /\ NoConsumer(NoTimer(at))[t] = NoTimer(at)[t]
           /\ \A t \in Tasks : NoTimer(at)[t] # at[t] => NoTimer(at)[t] = "off" /\ t = Timer(timer)
<1>1. at \in [Tasks -> Places] /\ "off" \in Places
  BY DEF Sound, Places
<1>2. /\ NoTimer(at) \in [Tasks -> Places]
      /\ \A t \in Tasks : NoTimer(at)[t] # at[t] => NoTimer(at)[t] = "off" /\ t = Timer(timer)
  BY <1>1 DEF NoTimer
<1>3. ASSUME NEW now \in [Tasks -> Places]
      PROVE  /\ NoConsumer(now) \in [Tasks -> Places]
             /\ \A t \in Tasks : t \notin Unlocked => NoConsumer(now)[t] = now[t]
  BY <1>1 DEF NoConsumer, Unlocked
<1> QED BY <1>1, <1>2, <1>3

-----------------------------------------------------------------------------
(* The steps of an arming.                                                  *)

LEMMA ArmingKeeps ==
    ASSUME Sound, NEW s \in Sessions,
           \/ ArmLocked(s) \/ LeaseGranted(s) \/ LeaseRefused(s)
           \/ VadOpened(s) \/ OpenFails(s) \/ Activated(s)
    PROVE  Sound'
<1> DEFINE t == Arm(s)
<1>1. /\ t \in Tasks /\ t \notin Unlocked /\ t \in Once /\ MaxFaults \in Nat /\ MaxQueue \in Nat
      /\ s \in 0..MaxSessions /\ 0 \in 0..MaxSessions
  BY Names, DictationAssumption DEF Sessions
<1>2. CASE ArmLocked(s)
  <2>1. Tidy
    <3>1. /\ lock' = lock /\ at[t] = "lock" /\ at' = [NoConsumer(at) EXCEPT ![t] = "lease"]
      BY <1>2 DEF ArmLocked
    <3>2. at' \in [Tasks -> Places] /\ at'[t] = "lease"
      BY <1>1, <3>1, Stops DEF Places
    <3>3. \A r \in Tasks : r \notin Unlocked /\ r # t => at'[r] = at[r]
      BY <1>1, <3>1, Stops
    <3> QED BY <1>1, <3>1, <3>2, <3>3, Names, InLine DEF Sound, Tidy, InLock, Outside
  <2>2. Plain' /\ Calm
    BY <1>1, <1>2 DEF ArmLocked, Sound, Plain, Calm, controller, workers, history
  <2> QED BY <2>1, <2>2, Assembled
<1>3. CASE LeaseGranted(s)
  <2>1. Tidy
    BY <1>1, <1>3, Moves DEF LeaseGranted, Places, Outside
  <2>2. Plain' /\ Calm
    BY <1>3 DEF LeaseGranted, Sound, Plain, Calm, controller, workers, client, history
  <2> QED BY <2>1, <2>2, Assembled
<1>4. CASE LeaseRefused(s)
  <2>1. Tidy
    BY <1>1, <1>4, Moves DEF LeaseRefused, Places, Outside
  <2>2. Plain' /\ Calm
    BY <1>1, <1>4 DEF LeaseRefused, Fault, Sound, Plain, Calm, controller, history
  <2> QED BY <2>1, <2>2, Assembled
<1>5. CASE VadOpened(s)
  <2>1. PICK p \in {"abortFail", "abort", "open"} : at' = [at EXCEPT ![t] = p]
    BY <1>5 DEF VadOpened
  <2>2. at[t] = "vad" /\ lock' = lock
    BY <1>5 DEF VadOpened
  <2>3. Tidy
    BY <1>1, <2>1, <2>2, Moves DEF Places, Outside
  <2>4. CASE state # "ARMING" \/ stream # 0
    <3>1. (Publish("fail") \/ Publish("keep")) /\ stream' = 0
      BY <1>5, <2>4 DEF VadOpened, Publish
    <3>2. UNCHANGED <<latest, commits>>
      BY <1>5 DEF VadOpened
    <3>3. Plain'
      BY <1>1, <1>5, <3>1, <3>2, Idles DEF VadOpened, Sound, Plain, client
    <3> QED BY <2>3, <3>1, <3>2, <3>3, Idles, Assembled
  <2>5. CASE state = "ARMING" /\ stream = 0
    <3>1. Plain' /\ Calm
      BY <1>1, <1>5, <2>5 DEF VadOpened, Sound, Plain, Calm, controller, client
    <3> QED BY <2>3, <3>1, Assembled
  <2> QED BY <2>4, <2>5
<1>6. CASE OpenFails(s)
  <2>1. PICK p \in {"abortFail", "abort"} : at' = [at EXCEPT ![t] = p]
    BY <1>6 DEF OpenFails
  <2>2. at[t] \in {"vad", "open"} /\ lock' = lock
    BY <1>6 DEF OpenFails
  <2>3. Tidy
    BY <1>1, <2>1, <2>2, Moves DEF Places, Outside
  <2>4. (Publish("fail") \/ Publish("keep")) /\ stream' = 0 /\ UNCHANGED <<latest, commits>>
    BY <1>6 DEF OpenFails, Publish
  <2>5. Plain'
    BY <1>1, <1>6, <2>4, Idles DEF OpenFails, Fault, Sound, Plain, client
  <2> QED BY <2>3, <2>4, <2>5, Idles, Assembled
<1>7. CASE Activated(s)
  <2>1. /\ at[t] = "open" /\ lock' = RemoveFirst(lock, t) /\ state' = "LISTENING"
        /\ at' = [at EXCEPT ![t] = "off", ![Consumer(s)] = "get", ![Watch(s)] = "wait"]
        /\ UNCHANGED <<session, over, stream, latest, commits>>
    BY <1>7 DEF Activated, Enter, workers
  <2>2. Plain'
    BY <1>1, <1>7 DEF Activated, Enter, Sound, Plain, workers, client, States
  <2>3. Consumer(s) \in Tasks /\ Watch(s) \in Tasks /\ at \in [Tasks -> Places] /\ t # Watch(s)
    BY Names DEF Sound, Arm, Watch
  <2>4. /\ at' \in [Tasks -> Places] /\ at'[t] = "off"
        /\ \A r \in Tasks : r \notin {t, Consumer(s), Watch(s)} => at'[r] = at[r]
    BY <1>1, <2>1, <2>3, Names DEF Places, Arm, Consumer, Watch
  <2>5. Line(lock') /\ ToSet(lock') = ToSet(lock) \ {t}
    BY <2>1, Removes DEF Sound
  <2>6. at[Watch(s)] = "off" /\ ~(s > latest)
    BY <2>1 DEF Sound, Fresh
  <2>7. InLock'
    BY <2>4, <2>5, <2>6, Names, InLine DEF Sound, InLock, Outside
  <2>8. Fresh'
    <3> SUFFICES ASSUME NEW r \in Sessions
                 PROVE  /\ r > latest => at'[Arm(r)] = "off" /\ at'[Timer(r)] = "off"
                        /\ r > latest \/ at'[Arm(r)] # "off" => at'[Watch(r)] = "off"
                        /\ r = latest /\ stream # 0 => at'[Timer(r)] = "off"
      BY <2>1 DEF Fresh
    <3>1. at'[Timer(r)] = at[Timer(r)]
      BY <2>4, Names DEF Timer, Arm, Consumer, Watch
    <3>2. r # s => at'[Arm(r)] = at[Arm(r)] /\ at'[Watch(r)] = at[Watch(r)]
      BY <2>4, Names DEF Arm, Consumer, Watch
    <3> QED BY <2>4, <2>6, <3>1, <3>2 DEF Sound, Fresh
  <2>9. Committing'
    BY <2>1 DEF Sound, Committing
  <2> QED BY <2>2, <2>4, <2>5, <2>7, <2>8, <2>9 DEF Sound
<1> QED BY <1>2, <1>3, <1>4, <1>5, <1>6, <1>7

-----------------------------------------------------------------------------
(* The steps that end a lease.                                              *)

\* What is left to show of a step that ends a lease and publishes no commit.
LEMMA Ends ==
    ASSUME Sound, NEW t \in Tasks, at[t] # "off", NEW how \in {"keep", "fail"}, NEW later \in {"keep", "fail"},
           ReleaseLease(t, at, lock, how, later),
           UNCHANGED <<arming, target, cleanup, held, latest, commits, escaped, timer>>,
           audio' \in {0, audio}, queue' \in {0, queue}, vad' \in {0, vad}, stream' \in {0, stream},
           faults' \in 0..MaxFaults
    PROVE  Sound'
<1>1. /\ Line(lock) /\ at \in [Tasks -> Places]
      /\ \A r \in ToSet(lock) : r \notin Unlocked /\ at[r] \notin Outside
  BY DEF Sound, InLock
<1>2. /\ Tidy /\ watchdog' = 0 /\ sid' = 0
      /\ pending' \subseteq Sessions /\ renewing' \subseteq Sessions /\ lost' \subseteq Sessions
      /\ Publish("fail") \/ Publish("keep")
  BY <1>1, Releases
<1>3. Calm /\ state' \in States /\ session' \in 0..MaxSessions /\ over' \subseteq Sessions
  BY <1>2, Idles
<1>4. Plain'
  BY <1>2, <1>3, DictationAssumption DEF Sound, Plain
<1> QED BY <1>2, <1>3, <1>4, Assembled

LEMMA EndingsKeep ==
    ASSUME Sound, NEW t \in Tasks,
           \/ Aborted(t) \/ LeaseEnds(t) \/ CancelEnds(t) \/ CancelClosed(t)
           \/ t = Overflow /\ OverflowClosed
    PROVE  Sound'
<1>1. faults \in 0..MaxFaults /\ MaxFaults \in Nat /\ MaxQueue \in Nat /\ 0 \in 0..MaxQueue
  BY DictationAssumption DEF Sound, Plain
<1>2. CASE Aborted(t)
  <2>1. /\ at[t] # "off"
        /\ ReleaseLease(t, at, lock, "keep", IF at[t] = "abort" THEN "keep" ELSE "fail")
        /\ UNCHANGED <<arming, target, cleanup, held, latest, commits, escaped, timer, audio, stream,
                       faults>>
        /\ vad' = 0 /\ queue' \in {0, queue}
    BY <1>2 DEF Aborted
  <2>2. (IF at[t] = "abort" THEN "keep" ELSE "fail") \in {"keep", "fail"}
    OBVIOUS
  <2> HIDE <1>2
  <2> QED BY <1>1, <2>1, <2>2, Ends
<1>3. CASE LeaseEnds(t)
  <2>1. /\ at[t] \in {"ending", "endingFail"}
        /\ at' = [at EXCEPT ![t] = "off"] /\ lock' = RemoveFirst(lock, t)
        /\ Publish("fail") \/ Publish("keep")
        /\ UNCHANGED <<latest, commits, stream>>
    BY <1>3 DEF LeaseEnds, Publish, workers
  <2>2. Tidy
    BY <2>1, Leaves
  <2>3. Plain'
    <3>1. state' \in States /\ session' \in 0..MaxSessions /\ over' \subseteq Sessions
      BY <2>1, Idles
    <3>2. /\ pending' \subseteq Sessions /\ held' \subseteq Sessions /\ cleanup' \in BOOLEAN
          /\ faults' \in 0..MaxFaults
      <4>1. pending \subseteq Sessions /\ held \subseteq Sessions /\ cleanup \in BOOLEAN
        BY DEF Sound, Plain
      <4>2. \/ pending' = {} /\ held' = held \ pending /\ cleanup' = cleanup /\ faults' = faults
            \/ /\ faults < MaxFaults /\ faults' = faults + 1 /\ cleanup' = TRUE
               /\ pending' = pending /\ held' \in {held, held \ pending}
        BY <1>3 DEF LeaseEnds, Fault
      <4>3. faults' \in 0..MaxFaults
        BY <1>1, <4>2
      <4> QED BY <4>1, <4>2, <4>3
    <3>3. UNCHANGED <<sid, arming, audio, queue, target, watchdog, stream, vad, renewing, lost,
                      latest, commits, escaped, timer>>
      BY <1>3 DEF LeaseEnds, workers, client
    <3> QED BY <3>1, <3>2, <3>3 DEF Sound, Plain
  <2> QED BY <2>1, <2>2, <2>3, Idles, Assembled
<1>4. CASE CancelEnds(t)
  <2>1. PICK how \in {"keep", "fail"}, later \in {"keep", "fail"} :
            at[t] # "off" /\ ReleaseLease(t, at, lock, how, later)
    BY <1>4 DEF CancelEnds, Later
  <2>2. UNCHANGED <<arming, target, cleanup, held, latest, commits, escaped, timer, audio, queue, vad,
                    stream, faults>>
    BY <1>4 DEF CancelEnds, workers
  <2> QED BY <1>1, <2>1, <2>2, Ends
<1>5. CASE CancelClosed(t)
  <2>1. /\ at[t] = "close" /\ vad' = 0
        /\ UNCHANGED <<arming, audio, queue, target, cleanup, held, latest, commits, escaped, faults,
                       timer>>
    BY <1>5 DEF CancelClosed
  <2>2. CASE stream = 0 \/ state = "IDLE"
    <3>1. PICK how \in {"keep", "fail"}, later \in {"keep", "fail"} :
              ReleaseLease(t, at, lock, how, later) /\ stream' = stream
      BY <1>5, <2>2 DEF CancelClosed, Later
    <3> QED BY <1>1, <2>1, <3>1, Ends
  <2>3. CASE ~(stream = 0 \/ state = "IDLE")
    <3>1. /\ at' = [at EXCEPT ![t] = "quiet"] /\ lock' = lock /\ stream' = 0
          /\ UNCHANGED <<state, session, over, sid, watchdog, pending, renewing, lost>>
      BY <1>5, <2>3 DEF CancelClosed, controller, client
    <3>2. Tidy
      BY <2>1, <3>1, Moves DEF Places, Outside
    <3>3. Plain' /\ Calm
      BY <2>1, <3>1, DictationAssumption DEF Sound, Plain, Calm
    <3> QED BY <3>2, <3>3, Assembled
  <2> QED BY <2>2, <2>3
<1>6. CASE t = Overflow /\ OverflowClosed
  <2>1. /\ at[t] # "off" /\ ReleaseLease(t, at, lock, "keep", "keep") /\ vad' = 0
        /\ UNCHANGED <<arming, target, cleanup, held, latest, commits, escaped, timer, audio, queue,
                       stream, faults>>
    BY <1>6 DEF OverflowClosed
  <2> QED BY <1>1, <2>1, Ends
<1> QED BY <1>2, <1>3, <1>4, <1>5, <1>6

\* A step that ends a lease and commits.
LEMMA CommitEnds ==
    ASSUME Sound, NEW t \in Tasks, at[t] # "off",
           NEW now \in [Tasks -> Places], NEW waits, Line(waits),
           \A r \in ToSet(waits) : r \notin Unlocked /\ now[r] \notin Outside,
           \A r \in Once : at[r] = "off" => now[r] = "off",
           Commit, ReleaseLease(t, now, waits, "commit", "keep"),
           UNCHANGED <<arming, audio, queue, target, cleanup, vad, held, faults>>,
           timer' \in {0, timer}, stream' \in {0, stream}
    PROVE  Sound'
<1>1. /\ Tidy /\ watchdog' = 0 /\ sid' = 0
      /\ pending' \subseteq Sessions /\ renewing' \subseteq Sessions /\ lost' \subseteq Sessions
      /\ state' = "IDLE" /\ session' = 0 /\ over' = over
  BY Releases, Publishes
<1>2. Calm
  BY <1>1 DEF Calm, Commit
<1>3. commits' \in [Sessions -> Nat]
  BY DEF Commit, Sound, Plain
<1>4. Plain'
  BY <1>1, <1>3, DictationAssumption DEF Commit, Sound, Plain, States
<1> QED BY <1>1, <1>2, <1>4, Assembled

-----------------------------------------------------------------------------
(* The steps of commands, timers, consumers and the overflow.               *)

LEMMA CommandsKeep ==
    ASSUME Sound, NEW k \in Callers,
           \/ StopLocked(k) \/ StopDrained(k) \/ StopClosed(k)
           \/ Finalized(k) \/ FinalizeFails(k) \/ Stop(k) \/ Select(k)
    PROVE  Sound'
<1> DEFINE t == Command(k)
<1>1. /\ t \in Tasks /\ t \notin Unlocked /\ t \notin Once /\ at \in [Tasks -> Places]
      /\ faults \in 0..MaxFaults /\ MaxFaults \in Nat /\ 0 \in 0..MaxSessions
      /\ Line(lock) /\ \A r \in ToSet(lock) : r \notin Unlocked /\ at[r] \notin Outside
  BY Names, DictationAssumption DEF Sound, Plain, InLock
<1>2. CASE StopLocked(k)
  <2>1. /\ lock # <<>> /\ Head(lock) = t
        /\ \/ at' = [at EXCEPT ![t] = "off"] /\ lock' = Tail(lock)
           \/ at' = [at EXCEPT ![t] = "drain"] /\ lock' = lock
    BY <1>2 DEF StopLocked, Holds
  <2>2. Tidy
    <3>1. CASE at' = [at EXCEPT ![t] = "off"] /\ lock' = Tail(lock)
      <4>1. Line(lock') /\ ToSet(lock') = ToSet(lock) \ {t}
        BY <1>1, <2>1, <3>1, Tails
      <4> QED BY <1>1, <3>1, <4>1, Names, InLine DEF Tidy, InLock, Places
    <3>2. CASE at' = [at EXCEPT ![t] = "drain"] /\ lock' = lock
      BY <1>1, <3>2, Moves DEF Places, Outside
    <3> QED BY <2>1, <3>1, <3>2
  <2>3. Plain' /\ Calm
    BY <1>1, <1>2 DEF StopLocked, Sound, Plain, Calm, controller, workers, client, history
  <2> QED BY <2>2, <2>3, Assembled
<1>3. CASE StopDrained(k)
  <2>1. Tidy
    <3>1. at' = [NoConsumer(at) EXCEPT ![t] = "shut"] /\ lock' = lock
      BY <1>3 DEF StopDrained
    <3>2. at' \in [Tasks -> Places] /\ at'[t] = "shut"
      BY <1>1, <3>1, Stops DEF Places
    <3>3. \A r \in Tasks : r \notin Unlocked /\ r # t => at'[r] = at[r]
      BY <1>1, <3>1, Stops
    <3> QED BY <1>1, <3>1, <3>2, <3>3, Names, InLine DEF Sound, Tidy, InLock, Outside
  <2>2. Plain' /\ Calm
    BY <1>3 DEF StopDrained, Sound, Plain, Calm, controller, workers, client, history
  <2> QED BY <2>1, <2>2, Assembled
<1>4. CASE StopClosed(k)
  <2>1. PICK p \in {"final", "abortFail"} : at' = [at EXCEPT ![t] = p]
    BY <1>4 DEF StopClosed
  <2>2. lock' = lock
    BY <1>4 DEF StopClosed
  <2>3. Tidy
    BY <1>1, <2>1, <2>2, Moves DEF Places, Outside
  <2>4. /\ UNCHANGED <<session, over, latest, commits>>
        /\ state' = state \/ state' = "FINALIZING"
        /\ stream' = stream \/ stream' = 0
    BY <1>4 DEF StopClosed, Enter, controller
  <2>5. Plain'
    BY <1>1, <1>4, <2>4 DEF StopClosed, Sound, Plain, client, States
  <2> QED BY <2>3, <2>4, <2>5, Goes, Assembled
<1>5. CASE Finalized(k)
  <2>1. CASE Commit /\ ReleaseLease(t, at, lock, "commit", "keep") /\ UNCHANGED timer
    <3>1. /\ at[t] # "off" /\ stream' = 0
          /\ UNCHANGED <<arming, audio, queue, target, cleanup, vad, held, faults>>
      BY <1>5 DEF Finalized
    <3> QED BY <1>1, <2>1, <3>1, CommitEnds
  <2>2. CASE ~(Commit /\ ReleaseLease(t, at, lock, "commit", "keep") /\ UNCHANGED timer)
    <3>1. /\ stream # 0 /\ stream' = 0 /\ state' = "CANDIDATE_SELECT"
          /\ at' = [at EXCEPT ![t] = "off", ![Timer(latest)] = "sleep"]
          /\ lock' = RemoveFirst(lock, t) /\ timer' = latest
          /\ UNCHANGED <<session, over, sid, watchdog, pending, renewing, lost, latest, commits,
                         escaped, arming, audio, queue, target, cleanup, vad, held, faults>>
      BY <1>5, <2>2 DEF Finalized, Enter, client
    <3>2. Plain'
      BY <1>1, <3>1 DEF Sound, Plain, States
    <3>3. /\ at' \in [Tasks -> Places]
          /\ \A r \in Tasks : r \notin {t, Timer(latest)} => at'[r] = at[r]
      BY <1>1, <3>1 DEF Places
    <3>4. Line(lock') /\ ToSet(lock') = ToSet(lock) \ {t}
      BY <1>1, <3>1, Removes
    <3>5. Timer(latest) \notin ToSet(lock)
      <4>1. CASE latest \in Sessions
        BY <1>1, <3>1, <4>1 DEF Sound, Fresh, Outside
      <4>2. CASE latest \notin Sessions
        BY <1>1, <4>2, InLine DEF Tasks, Timer, Arm, Consumer, Watch, Command, Overflow
      <4> QED BY <4>1, <4>2
    <3>6. InLock'
      BY <1>1, <3>3, <3>4, <3>5, InLine DEF InLock
    <3>7. Fresh'
      <4> SUFFICES ASSUME NEW r \in Sessions
                   PROVE  /\ r > latest => at'[Arm(r)] = "off" /\ at'[Timer(r)] = "off"
                          /\ r > latest \/ at'[Arm(r)] # "off" => at'[Watch(r)] = "off"
        BY <3>1 DEF Fresh
      <4>1. at'[Arm(r)] = at[Arm(r)] /\ at'[Watch(r)] = at[Watch(r)]
        BY <3>3, Names DEF Timer, Arm, Watch, Command
      <4>2. r > latest => at'[Timer(r)] = at[Timer(r)]
        <5>1. r > latest => Timer(r) # Timer(latest)
          BY DictationAssumption DEF Timer, Sessions, Sound, Plain
        <5> QED BY <3>3, <5>1, Names DEF Timer, Command
      <4> QED BY <4>1, <4>2 DEF Sound, Fresh
    <3>8. Committing'
      BY <3>1 DEF Sound, Committing
    <3> QED BY <3>2, <3>3, <3>4, <3>6, <3>7, <3>8 DEF Sound
  <2> QED BY <2>1, <2>2
<1>6. CASE FinalizeFails(k)
  <2>1. /\ at[t] # "off" /\ ReleaseLease(t, at, lock, "fail", "keep")
        /\ UNCHANGED <<arming, target, cleanup, held, latest, commits, escaped, timer, audio, queue, vad,
                       stream>>
        /\ faults' \in 0..MaxFaults
    BY <1>1, <1>6 DEF FinalizeFails, Fault, workers
  <2> QED BY <1>1, <2>1, Ends
<1>7. CASE Stop(k) \/ Select(k)
  <2>1. PICK p \in {"stop", "select"} : at[t] = "off" /\ Enqueue(t, p)
    BY <1>7 DEF Stop, Select
  <2>2. Tidy
    BY <1>1, <2>1, Waits DEF Enqueue, Places, Outside
  <2>3. Plain' /\ Calm
    BY <1>7 DEF Stop, Select, Sound, Plain, Calm, controller, workers, client, history
  <2> QED BY <2>2, <2>3, Assembled
<1> QED BY <1>2, <1>3, <1>4, <1>5, <1>6, <1>7

LEMMA SelectedKeeps ==
    ASSUME Sound, NEW t \in Tasks, Selected(t)
    PROVE  Sound'
<1> DEFINE byTimer == t \in {Timer(s) : s \in Sessions}
           now == IF byTimer THEN at ELSE NoTimer(at)
           waits == IF byTimer THEN lock ELSE RemoveFirst(lock, Timer(timer))
<1>1. /\ at \in [Tasks -> Places] /\ at[t] = "select" /\ Line(lock) /\ timer' = 0
      /\ \A r \in ToSet(lock) : r \notin Unlocked /\ at[r] \notin Outside
      /\ UNCHANGED <<arming, audio, queue, target, cleanup, stream, vad, held, faults>>
      /\ \/ Commit /\ ReleaseLease(t, now, waits, "commit", "keep")
         \/ /\ at' = [now EXCEPT ![t] = "off"] /\ lock' = RemoveFirst(waits, t)
            /\ UNCHANGED <<state, session, sid, watchdog, pending, renewing, lost, latest, commits, over,
                           escaped>>
  BY DEF Selected, Sound, InLock, workers, controller, client, history
<1>2. /\ now \in [Tasks -> Places]
      /\ \A r \in Tasks : now[r] # at[r] => ~byTimer /\ now[r] = "off" /\ r = Timer(timer)
  BY <1>1, Stops
<1>3. /\ Line(waits) /\ \A r \in ToSet(waits) : r \notin Unlocked /\ now[r] \notin Outside
  <2>1. CASE byTimer
    BY <1>1, <2>1
  <2>2. CASE ~byTimer
    <3>1. Line(waits) /\ ToSet(waits) = ToSet(lock) \ {Timer(timer)}
      BY <1>1, <2>2, Removes
    <3> QED BY <1>1, <1>2, <3>1, InLine
  <2> QED BY <2>1, <2>2
<1>4. \A r \in Once : at[r] = "off" => now[r] = "off"
  BY <1>2, Names
<1> HIDE DEF byTimer, now, waits
<1>5. CASE Commit /\ ReleaseLease(t, now, waits, "commit", "keep")
  BY <1>1, <1>2, <1>3, <1>4, <1>5, CommitEnds
<1>6. CASE /\ at' = [now EXCEPT ![t] = "off"] /\ lock' = RemoveFirst(waits, t)
           /\ UNCHANGED <<state, session, sid, watchdog, pending, renewing, lost, latest, commits, over,
                          escaped>>
  <2>1. Line(lock') /\ ToSet(lock') = ToSet(waits) \ {t}
    BY <1>3, <1>6, Removes
  <2>2. Tidy
    BY <1>2, <1>3, <1>4, <1>6, <2>1, Names, InLine DEF Tidy, InLock, Places
  <2>3. Plain' /\ Calm
    BY <1>1, <1>6, DictationAssumption DEF Sound, Plain, Calm
  <2> QED BY <2>2, <2>3, Assembled
<1> QED BY <1>1, <1>5, <1>6

LEMMA CancelsKeep ==
    ASSUME Sound, NEW t \in Tasks, t \notin Unlocked, at[t] # "off" \/ t \notin Once,
           at[t] \in Outside, CancelBegins(t),
           escaped' \subseteq Sessions, faults' \in 0..MaxFaults
    PROVE  Sound'
<1>1. /\ at \in [Tasks -> Places] /\ Line(lock) /\ t \notin ToSet(lock)
      /\ \A r \in ToSet(lock) : r \notin Unlocked /\ at[r] \notin Outside
  BY DEF Sound, InLock
<1>2. /\ UNCHANGED <<state, session, sid, queue, watchdog, pending, cleanup, vad, latest, commits, over,
                     timer>>
  BY DEF CancelBegins, controller
<1>3. CASE arming # 0 /\ at[Arm(arming)] # "off"
  <2> DEFINE a == Arm(arming)
  <2>1. /\ at' = [at EXCEPT ![a] = AfterCancel(@), ![t] = "await"]
        /\ CancelArming(arming) /\ target' = [target EXCEPT ![t] = arming] /\ arming' = arming
    BY <1>3 DEF CancelBegins
  <2>2. arming \in Sessions /\ a \in Tasks /\ a \in Once
    BY <1>3, Names, DictationAssumption DEF Sound, Plain, Sessions
  <2>3. /\ at' \in [Tasks -> Places] /\ at'[t] = "await"
        /\ \A r \in Tasks : r \notin {a, t} => at'[r] = at[r]
        /\ a # t => at'[a] = AfterCancel(at[a])
    BY <1>1, <2>1, <2>2 DEF AfterCancel, Places
  <2>4. /\ at[a] \in Handled => lock' = lock
        /\ at[a] \notin Handled => lock' = RemoveFirst(lock, a)
        /\ audio' \in {0, audio} /\ stream' \in {0, stream}
        /\ renewing' \subseteq renewing /\ lost' \subseteq lost /\ held' \subseteq held
    BY <2>1 DEF CancelArming, client
  <2>5. Line(lock') /\ ToSet(lock') \subseteq ToSet(lock) /\ (at[a] \notin Handled => a \notin ToSet(lock'))
    BY <1>1, <2>4, Removes
  <2>6. InLock'
    BY <1>1, <2>3, <2>5, InLine DEF InLock, AfterCancel, Outside
  <2>7. Tidy
    BY <1>1, <1>3, <2>3, <2>5, <2>6, Names DEF Tidy
  <2>8. Plain' /\ Calm
    BY <1>2, <2>1, <2>2, <2>4, DictationAssumption DEF Sound, Plain, Calm
  <2> QED BY <2>7, <2>8, Assembled
<1>4. CASE ~(arming # 0 /\ at[Arm(arming)] # "off")
  <2>1. /\ arming' = 0 /\ Enqueue(t, "cancel")
        /\ UNCHANGED <<audio, stream, target, renewing, lost, held>>
    BY <1>4 DEF CancelBegins, client
  <2>2. Tidy
    BY <1>1, <2>1, Waits DEF Enqueue, Places, Outside
  <2>3. Plain' /\ Calm
    BY <1>2, <2>1, DictationAssumption DEF Sound, Plain, Calm
  <2> QED BY <2>2, <2>3, Assembled
<1> QED BY <1>3, <1>4

LEMMA CancellingKeeps ==
    ASSUME Sound, NEW t \in Tasks, (t \in Cancellers /\ ArmingGone(t)) \/ CancelLocked(t)
    PROVE  Sound'
<1>1. /\ at \in [Tasks -> Places] /\ Line(lock) /\ MaxQueue \in Nat
      /\ \A r \in ToSet(lock) : r \notin Unlocked /\ at[r] \notin Outside
  BY DictationAssumption DEF Sound, InLock
<1>2. CASE CancelLocked(t)
  <2> DEFINE now == NoConsumer(NoTimer(at))
  <2>1. /\ at[t] = "cancel" /\ at' = [now EXCEPT ![t] = "close"]
        /\ lock' = RemoveFirst(lock, Timer(timer)) /\ timer' = 0
    BY <1>2 DEF CancelLocked
  <2>2. /\ now \in [Tasks -> Places]
        /\ \A r \in Tasks : r \notin Unlocked /\ now[r] # at[r] => now[r] = "off" /\ r = Timer(timer)
    BY Stops
  <2> HIDE DEF now
  <2>3. Line(lock') /\ ToSet(lock') = ToSet(lock) \ {Timer(timer)}
    BY <1>1, <2>1, Removes
  <2>4. /\ at' \in [Tasks -> Places] /\ at'[t] = "close"
        /\ \A r \in Tasks : r # t => at'[r] = now[r]
    BY <2>1, <2>2 DEF Places
  <2>5. Tidy
    BY <1>1, <2>1, <2>2, <2>3, <2>4, Names, InLine DEF Tidy, InLock, Outside
  <2>6. Plain' /\ Calm
    <3>1. /\ audio' = 0 /\ queue' = 0 /\ timer' = 0
          /\ UNCHANGED <<state, session, sid, arming, target, watchdog, pending, cleanup, stream, vad,
                         renewing, lost, held, latest, commits, over, escaped, faults>>
      BY <1>2 DEF CancelLocked, controller, workers, client, history
    <3> QED BY <1>1, <3>1, DictationAssumption DEF Sound, Plain, Calm
  <2> QED BY <2>5, <2>6, Assembled
<1>3. CASE t \in Cancellers /\ ArmingGone(t)
  <2>1. t \notin Unlocked /\ at[t] = "await" /\ Enqueue(t, "cancel")
    BY <1>3, Names DEF ArmingGone, Cancellers, Watches
  <2>2. Tidy
    BY <1>1, <2>1, Waits DEF Enqueue, Places, Outside
  <2>3. Plain' /\ Calm
    BY <1>3, DictationAssumption DEF ArmingGone, Sound, Plain, Calm, controller, workers, client, history
  <2> QED BY <2>2, <2>3, Assembled
<1> QED BY <1>2, <1>3

LEMMA AudioKeeps ==
    ASSUME Sound,
           \/ \E s \in Sessions : TakeFrame(s) \/ Voiced(s) \/ Fed(s) \/ StreamFails(s)
           \/ Frame \/ OverflowAborted
    PROVE  Sound'
<1>1. /\ at \in [Tasks -> Places] /\ Overflow \in Tasks /\ Overflow \notin ToSet(lock)
      /\ Overflow \notin Once /\ Line(lock) /\ queue \in 0..MaxQueue /\ faults \in 0..MaxFaults
      /\ \A r \in ToSet(lock) : r \notin Unlocked /\ at[r] \notin Outside
      /\ MaxQueue \in Nat /\ MaxFaults \in Nat /\ 0 \in 0..MaxSessions
  BY Names, DictationAssumption DEF Sound, InLock, Plain
<1>2. ASSUME NEW s \in Sessions, TakeFrame(s) \/ Voiced(s) \/ Fed(s) \/ StreamFails(s)
      PROVE  Sound'
  <2> DEFINE t == Consumer(s)
  <2>1. t \in Tasks /\ t \notin ToSet(lock) /\ t \notin Once
    BY <1>1, Names
  <2>2. PICK p \in {"get", "voice", "feed", "abort"} : at' = [at EXCEPT ![t] = p]
    BY <1>2 DEF TakeFrame, Voiced, Fed, StreamFails, FrameFails
  <2>3. lock' = lock
    BY <1>2 DEF TakeFrame, Voiced, Fed, StreamFails
  <2>4. Tidy
    BY <1>1, <2>1, <2>2, <2>3, Moves DEF Places
  <2>5. /\ UNCHANGED <<sid, arming, target, watchdog, pending, cleanup, vad, renewing, lost, held,
                       latest, commits, escaped, timer>>
        /\ queue' \in 0..MaxQueue /\ faults' \in 0..MaxFaults
        /\ audio' \in {0, audio} /\ stream' \in {0, stream}
    <3>1. CASE TakeFrame(s)
      BY <1>1, <3>1 DEF TakeFrame, FrameFails, client
    <3>2. CASE Voiced(s)
      BY <1>1, <3>2 DEF Voiced, FrameFails, client
    <3>3. CASE Fed(s)
      BY <1>1, <3>3 DEF Fed, client, workers
    <3>4. CASE StreamFails(s)
      BY <1>1, <3>4 DEF StreamFails, FrameFails, Fault, client
    <3> QED BY <1>2, <3>1, <3>2, <3>3, <3>4
  <2>6. CASE Fed(s)
    <3>1. state' = "LISTENING" /\ UNCHANGED <<session, over>>
      BY <2>6 DEF Fed, Enter
    <3>2. Calm
      BY <2>5, <3>1, Goes
    <3>3. Plain'
      BY <1>1, <2>5, <3>1 DEF Sound, Plain, States
    <3> QED BY <2>4, <3>2, <3>3, Assembled
  <2>7. CASE ~Fed(s)
    <3>1. Publish("fail") \/ Publish("keep")
      BY <1>2, <2>7 DEF TakeFrame, Voiced, StreamFails, FrameFails, Publish
    <3>2. Calm /\ state' \in States /\ session' \in 0..MaxSessions /\ over' \subseteq Sessions
      BY <2>5, <3>1, Idles
    <3>3. Plain'
      BY <1>1, <2>5, <3>2 DEF Sound, Plain
    <3> QED BY <2>4, <3>2, <3>3, Assembled
  <2> QED BY <2>6, <2>7
<1>3. CASE Frame
  <2>1. /\ lock' = lock
        /\ UNCHANGED <<sid, arming, target, watchdog, pending, cleanup, vad, renewing, lost, held,
                       latest, commits, escaped, timer>>
    BY <1>3 DEF Frame, client
  <2>2. CASE queue < MaxQueue
    <3>1. /\ queue' = queue + 1 /\ at' = at
          /\ UNCHANGED <<state, session, over, audio, stream, faults>>
      BY <1>3, <2>2 DEF Frame, controller
    <3>2. Plain' /\ Calm
      BY <1>1, <2>1, <2>2, <3>1 DEF Sound, Plain, Calm
    <3> QED BY <2>1, <3>1, <3>2, Rests, Assembled
  <2>3. CASE ~(queue < MaxQueue)
    <3>1. /\ queue' = queue /\ at' = [at EXCEPT ![Overflow] = "abort"] /\ audio' = 0 /\ stream' = 0
          /\ Publish("fail") /\ faults' \in 0..MaxFaults
      BY <1>1, <1>3, <2>3 DEF Frame, Fault, Publish
    <3>2. Tidy
      BY <1>1, <2>1, <3>1, Moves DEF Places
    <3>3. Calm /\ state' \in States /\ session' \in 0..MaxSessions /\ over' \subseteq Sessions
      BY <2>1, <3>1, Idles
    <3>4. Plain'
      BY <1>1, <2>1, <3>1, <3>3 DEF Sound, Plain
    <3> QED BY <3>2, <3>3, <3>4, Assembled
  <2> QED BY <2>2, <2>3
<1>4. CASE OverflowAborted
  <2>1. at' = [NoConsumer(at) EXCEPT ![Overflow] = "close"] /\ lock' = lock
    BY <1>4 DEF OverflowAborted
  <2>2. at' \in [Tasks -> Places] /\ \A r \in Tasks : r \notin Unlocked => at'[r] = at[r]
    BY <1>1, <2>1, Stops, Names DEF Places
  <2>3. Tidy
    BY <1>1, <2>1, <2>2, Names, InLine DEF Tidy, InLock
  <2>4. Plain' /\ Calm
    BY <1>1, <1>4 DEF OverflowAborted, Sound, Plain, Calm, controller, workers, client, history
  <2> QED BY <2>3, <2>4, Assembled
<1> QED BY <1>2, <1>3, <1>4

-----------------------------------------------------------------------------
(* Every step.                                                              *)

LEMMA ElsewhereKeeps ==
    ASSUME Sound, Elsewhere
    PROVE  Sound'
<1>1. CASE Begin
  <2> DEFINE s == latest + 1
  <2>1. /\ s \in Sessions /\ latest \in 0..MaxSessions /\ MaxSessions \in Nat
        /\ Arm(s) \in Tasks /\ Arm(s) \notin Unlocked /\ Timer(s) \in Tasks
        /\ at[Arm(s)] = "off" /\ at[Timer(s)] = "off" /\ at[Watch(s)] = "off" /\ Arm(s) \notin ToSet(lock)
        /\ Line(lock) /\ at \in [Tasks -> Places]
        /\ \A r \in ToSet(lock) : r \notin Unlocked /\ at[r] \notin Outside
    <3>1. s \in Sessions /\ latest \in 0..MaxSessions /\ MaxSessions \in Nat
      BY <1>1, DictationAssumption DEF Begin, Sound, Plain, Sessions
    <3>2. s > latest
      BY <3>1
    <3> HIDE DEF s
    <3>3. Arm(s) \in Tasks /\ Arm(s) \notin Unlocked /\ Timer(s) \in Tasks
      BY <3>1, Names
    <3>4. at[Arm(s)] = "off" /\ at[Timer(s)] = "off" /\ at[Watch(s)] = "off"
      BY <3>1, <3>2 DEF Sound, Fresh
    <3>5. /\ Line(lock) /\ at \in [Tasks -> Places]
          /\ \A r \in ToSet(lock) : r \notin Unlocked /\ at[r] \notin Outside
      BY DEF Sound, InLock
    <3>6. Arm(s) \notin ToSet(lock)
      BY <3>4, <3>5 DEF Outside
    <3> QED
      BY <3>1, <3>3, <3>4, <3>5, <3>6
  <2>2. /\ latest' = s /\ state' = "ARMING" /\ session' = s /\ arming' = s
        /\ at' = [at EXCEPT ![Arm(s)] = "lock"] /\ lock' = Append(lock, Arm(s))
        /\ UNCHANGED <<sid, audio, queue, target, watchdog, pending, cleanup, stream, vad, renewing,
                       lost, held, commits, over, escaped, faults, timer>>
    BY <1>1 DEF Begin, Enqueue, workers, client
  <2> HIDE DEF s
  <2>3. Plain'
    <3>1. s \in 0..MaxSessions
      BY <2>1 DEF Sessions
    <3>2. state' \in States
      BY <2>2 DEF States
    <3>3. Plain
      BY DEF Sound
    <3> QED
      BY <2>2, <3>1, <3>2, <3>3 DEF Plain
  <2>4. /\ at' \in [Tasks -> Places] /\ at'[Arm(s)] = "lock"
        /\ \A r \in Tasks : r # Arm(s) => at'[r] = at[r]
    BY <2>1, <2>2 DEF Places
  <2>5. Line(lock') /\ ToSet(lock') = ToSet(lock) \cup {Arm(s)}
    BY <2>1, <2>2, Appends
  <2>6. InLock'
    BY <2>1, <2>4, <2>5, InLine DEF InLock, Outside
  <2>7. Fresh'
    <3> SUFFICES ASSUME NEW r \in Sessions
                 PROVE  /\ r > s => at'[Arm(r)] = "off" /\ at'[Timer(r)] = "off"
                        /\ r > s \/ at'[Arm(r)] # "off" => at'[Watch(r)] = "off"
                        /\ r = s => at'[Timer(r)] = "off"
      BY <2>2 DEF Fresh
    <3>1. at'[Watch(r)] = at[Watch(r)] /\ at'[Timer(r)] = at[Timer(r)]
      BY <2>4, Names DEF Arm, Watch, Timer
    <3>2. r # s => at'[Arm(r)] = at[Arm(r)]
      BY <2>4, Names DEF Arm
    <3>3. r > s => r > latest /\ r # s
      BY <2>1 DEF s, Sessions
    <3> QED BY <2>1, <3>1, <3>2, <3>3 DEF Sound, Fresh
  <2>8. Committing'
    <3>1. s > latest /\ s \notin over /\ 1..latest \subseteq 1..s
      BY <2>1 DEF s, Sound, Committing
    <3>2. ASSUME NEW r \in Sessions PROVE commits[r] <= 1 /\ (r > s => commits[r] = 0)
      BY <2>1, <3>1 DEF Sound, Committing, Sessions
    <3>3. commits[s] = 0
      BY <2>1, <3>1 DEF Sound, Committing
    <3> QED BY <2>1, <2>2, <3>1, <3>2, <3>3 DEF Sound, Committing, Sessions
  <2> QED BY <2>3, <2>4, <2>5, <2>6, <2>7, <2>8 DEF Sound
<1>2. CASE CleanupLeases \/ \E s \in Sessions : RenewalFails(s) \/ Expire(s)
  <2>1. /\ UNCHANGED <<state, session, sid, arming, audio, queue, at, lock, target, watchdog, stream, vad,
                       latest, commits, over, escaped, timer>>
        /\ pending' \in {{}, pending} /\ cleanup' \in {FALSE, cleanup}
        /\ renewing' \subseteq renewing /\ lost' \subseteq lost \cup renewing /\ held' \subseteq held
        /\ faults' \in 0..MaxFaults
    <3>1. faults \in 0..MaxFaults /\ MaxFaults \in Nat
      BY DictationAssumption DEF Sound, Plain
    <3>2. CASE CleanupLeases
      BY <3>1, <3>2 DEF CleanupLeases, controller, workers, history
    <3>3. ASSUME NEW s \in Sessions, RenewalFails(s) PROVE <2>1
      BY <3>1, <3>3 DEF RenewalFails, Fault, controller, workers, history
    <3>4. ASSUME NEW s \in Sessions, Expire(s) PROVE <2>1
      BY <3>1, <3>4 DEF Expire, controller, workers, client, history
    <3> QED BY <1>2, <3>2, <3>3, <3>4
  <2>2. Plain' /\ Calm
    BY <2>1 DEF Sound, Plain, Calm
  <2> QED BY <2>1, <2>2, Rests, Assembled
<1> QED BY <1>1, <1>2, AudioKeeps DEF Elsewhere

LEMMA TimersKeep ==
    ASSUME Sound, NEW s \in Sessions, TimerFires(s) \/ LeaseLost(s)
    PROVE  Sound'
<1>1. CASE TimerFires(s)
  <2>1. Timer(s) \in Tasks /\ Timer(s) \notin Unlocked /\ at[Timer(s)] = "sleep"
        /\ Enqueue(Timer(s), "select")
    BY <1>1, Names DEF TimerFires
  <2>2. Tidy
    BY <2>1, Waits DEF Enqueue, Places, Outside
  <2>3. Plain' /\ Calm
    BY <1>1 DEF TimerFires, Sound, Plain, Calm, controller, workers, client, history
  <2> QED BY <2>2, <2>3, Assembled
<1>2. CASE LeaseLost(s)
  <2>1. /\ Watch(s) \in Tasks /\ Watch(s) \notin Unlocked /\ at[Watch(s)] = "wait"
        /\ CancelBegins(Watch(s)) /\ escaped' \subseteq Sessions /\ faults' \in 0..MaxFaults
    BY <1>2, Names DEF LeaseLost, Sound, Plain
  <2> QED BY <2>1, CancelsKeep DEF Outside
<1> QED BY <1>1, <1>2

LEMMA CancelKeeps ==
    ASSUME Sound, NEW k \in Callers, Cancel(k)
    PROVE  Sound'
<1>1. /\ Command(k) \in Tasks /\ Command(k) \notin Unlocked /\ Command(k) \notin Once
      /\ at[Command(k)] = "off" /\ CancelBegins(Command(k))
      /\ escaped' = escaped \cup Known(session) /\ faults' = faults
  BY Names DEF Cancel
<1>2. escaped' \subseteq Sessions /\ faults' \in 0..MaxFaults
  BY <1>1, DictationAssumption DEF Sound, Plain, Known, Sessions
<1> QED BY <1>1, <1>2, CancelsKeep DEF Outside

LEMMA TaskKeeps ==
    ASSUME Sound, NEW t \in Tasks, TaskStep(t)
    PROVE  Sound'
<1>1. CASE Aborted(t) \/ LeaseEnds(t) \/ CancelEnds(t) \/ CancelClosed(t) \/ (t = Overflow /\ OverflowClosed)
  BY <1>1, EndingsKeep
<1>2. CASE (t \in Cancellers /\ ArmingGone(t)) \/ CancelLocked(t)
  BY <1>2, CancellingKeeps
<1>3. CASE Selected(t)
  BY <1>3, SelectedKeeps
<1>4. CASE \E k \in Callers :
              StopLocked(k) \/ StopDrained(k) \/ StopClosed(k) \/ Finalized(k) \/ FinalizeFails(k)
  BY <1>4, CommandsKeep
<1>5. CASE \E s \in Sessions : \/ ArmLocked(s) \/ LeaseGranted(s) \/ LeaseRefused(s)
                               \/ VadOpened(s) \/ OpenFails(s) \/ Activated(s)
  BY <1>5, ArmingKeeps
<1>6. CASE \E s \in Sessions : TimerFires(s) \/ LeaseLost(s)
  BY <1>6, TimersKeep
<1>7. CASE (\E s \in Sessions : TakeFrame(s) \/ Voiced(s) \/ Fed(s) \/ StreamFails(s)) \/ OverflowAborted
  BY <1>7, AudioKeeps
<1> QED BY <1>1, <1>2, <1>3, <1>4, <1>5, <1>6, <1>7 DEF TaskStep

LEMMA SoundStart == Init => CInv
<1> SUFFICES ASSUME Init PROVE CInv
  OBVIOUS
<1>1. /\ lock = <<>> /\ at = [t \in Tasks |-> "off"] /\ running = NoTask
      /\ state = "IDLE" /\ session = 0 /\ latest = 0 /\ stream = 0 /\ over = {}
      /\ commits = [s \in Sessions |-> 0]
  BY DEF Init
<1>2. Plain
  <2>1. /\ 0 \in 0..MaxSessions /\ 0 \in 0..MaxQueue /\ 0 \in 0..MaxFaults
        /\ [t \in Tasks |-> 0] \in [Tasks -> 0..MaxSessions]
        /\ [s \in Sessions |-> 0] \in [Sessions -> Nat]
    BY DictationAssumption
  <2> QED BY <2>1 DEF Init, Plain, States
<1>3. at \in [Tasks -> Places] /\ Line(lock) /\ InLock
  BY <1>1, EmptyLine DEF Places, InLock
<1>4. Fresh
  BY <1>1, Names DEF Fresh
<1>5. Committing
  BY <1>1 DEF Committing
<1> QED BY <1>1, <1>2, <1>3, <1>4, <1>5 DEF CInv, Sound

LEMMA SoundStep == CInv /\ [Next]_vars => CInv'
<1> SUFFICES ASSUME CInv, [Next]_vars PROVE CInv'
  OBVIOUS
<1>1. CASE UNCHANGED vars
  <2>1. UNCHANGED <<state, session, sid, arming, audio, queue, at, lock, running, timer, target,
                    watchdog, pending, cleanup, stream, vad, renewing, lost, held, latest, commits,
                    over, escaped, faults>>
    BY <1>1 DEF vars, controller, workers, client, history
  <2>2. Tidy /\ Plain' /\ Calm
    BY <2>1, Rests DEF CInv, Sound, Plain, Calm
  <2> QED BY <2>1, <2>2, Assembled DEF CInv
<1>2. CASE Elsewhere
  <2>1. Sound'
    BY <1>2, ElsewhereKeeps DEF CInv
  <2>2. running' = running
    BY <1>2 DEF Elsewhere
  <2> QED BY <2>1, <2>2 DEF CInv
<1>3. ASSUME NEW t \in Tasks, Run(t)
      PROVE  CInv'
  <2>1. ASSUME TaskStep(t) PROVE Sound'
    BY <2>1, TaskKeeps DEF CInv
  <2>2. ASSUME NEW k \in Callers, Cancel(k) \/ Stop(k) \/ Select(k) PROVE Sound'
    BY <2>2, CancelKeeps, CommandsKeep DEF CInv
  <2>3. Sound'
    BY <1>3, <2>1, <2>2 DEF Run
  <2>4. running' \in Tasks \cup {NoTask}
    BY <1>3 DEF Run
  <2> QED BY <2>3, <2>4 DEF CInv
<1> QED BY <1>1, <1>2, <1>3 DEF Next

-----------------------------------------------------------------------------
(* The commits.                                                             *)

\* A step commits nothing, or the session under way.
Raises ==
    \/ commits' = commits
    \/ commits' = [r \in Sessions |-> commits[r] + (IF r = session THEN 1 ELSE 0)]

LEMMA StepRaises == [Next]_vars => Raises
<1>1. ASSUME NEW k \in Callers,
             \/ Cancel(k) \/ Stop(k) \/ Select(k) \/ StopLocked(k) \/ StopDrained(k) \/ StopClosed(k)
             \/ FinalizeFails(k)
      PROVE  commits' = commits
  <2>1. CASE Cancel(k)
    BY <2>1 DEF Cancel, CancelBegins
  <2>2. CASE Stop(k) \/ Select(k) \/ StopLocked(k) \/ StopDrained(k)
    BY <2>2 DEF Stop, Select, StopLocked, StopDrained, history
  <2>3. CASE StopClosed(k) \/ FinalizeFails(k)
    BY <2>3 DEF StopClosed, FinalizeFails
  <2> QED BY <1>1, <2>1, <2>2, <2>3
<1>2. ASSUME NEW k \in Callers, Finalized(k)
      PROVE  Raises
  BY <1>2 DEF Finalized, Commit, Raises
<1>3. ASSUME NEW t \in Tasks, Selected(t)
      PROVE  Raises
  BY <1>3 DEF Selected, Commit, Raises, history
<1>4. ASSUME NEW t \in Tasks,
             \/ Aborted(t) \/ LeaseEnds(t) \/ ArmingGone(t) \/ CancelLocked(t) \/ CancelEnds(t)
             \/ CancelClosed(t) \/ OverflowAborted \/ OverflowClosed
      PROVE  commits' = commits
  <2>1. CASE Aborted(t) \/ LeaseEnds(t) \/ CancelEnds(t)
    BY <2>1 DEF Aborted, LeaseEnds, CancelEnds
  <2>2. CASE ArmingGone(t) \/ CancelLocked(t)
    BY <2>2 DEF ArmingGone, CancelLocked, history
  <2>3. CASE CancelClosed(t) \/ OverflowAborted \/ OverflowClosed
    BY <2>3 DEF CancelClosed, OverflowAborted, OverflowClosed, history
  <2> QED BY <1>4, <2>1, <2>2, <2>3
<1>5. ASSUME NEW s \in Sessions,
             \/ ArmLocked(s) \/ LeaseGranted(s) \/ LeaseRefused(s) \/ VadOpened(s) \/ Activated(s)
             \/ OpenFails(s) \/ LeaseLost(s) \/ TimerFires(s) \/ TakeFrame(s) \/ Voiced(s) \/ Fed(s)
             \/ StreamFails(s) \/ RenewalFails(s) \/ Expire(s)
      PROVE  commits' = commits
  <2>1. CASE ArmLocked(s) \/ LeaseGranted(s) \/ LeaseRefused(s)
    BY <2>1 DEF ArmLocked, LeaseGranted, LeaseRefused, history
  <2>2. CASE VadOpened(s) \/ Activated(s) \/ OpenFails(s)
    BY <2>2 DEF VadOpened, Activated, OpenFails
  <2>3. CASE LeaseLost(s) \/ TimerFires(s)
    BY <2>3 DEF LeaseLost, CancelBegins, TimerFires, history
  <2>4. CASE TakeFrame(s) \/ Voiced(s) \/ Fed(s) \/ StreamFails(s)
    BY <2>4 DEF TakeFrame, Voiced, Fed, StreamFails
  <2>5. CASE RenewalFails(s) \/ Expire(s)
    BY <2>5 DEF RenewalFails, Expire, history
  <2> QED BY <1>5, <2>1, <2>2, <2>3, <2>4, <2>5
<1>6. CASE Begin \/ Frame \/ CleanupLeases
  BY <1>6 DEF Begin, Frame, CleanupLeases, history, Raises
<1>7. CASE Elsewhere
  BY <1>5, <1>6, <1>7 DEF Elsewhere, Raises
<1>8. ASSUME NEW t \in Tasks, Run(t)
      PROVE  Raises
  BY <1>1, <1>2, <1>3, <1>4, <1>5, <1>8 DEF Run, TaskStep, Raises
<1>9. CASE UNCHANGED vars
  BY <1>9 DEF vars, history, Raises
<1> QED BY <1>7, <1>8, <1>9 DEF Next

LEMMA CommitsTheLiving ==
    ASSUME CInv, [Next]_vars, NEW s \in DOMAIN commits, commits'[s] > commits[s]
    PROVE  s \notin over
<1>1. /\ commits \in [Sessions -> Nat] /\ s \in Sessions
      /\ session # 0 => session \notin over
  BY DEF CInv, Sound, Plain, Committing
<1>2. Raises
  BY StepRaises
<1>3. CASE s = session
  BY <1>1, <1>3, DictationAssumption DEF Sessions
<1>4. CASE s # session
  <2>1. commits'[s] = commits[s]
    BY <1>1, <1>2, <1>4 DEF Raises
  <2> QED BY <1>1, <2>1
<1> QED BY <1>3, <1>4

-----------------------------------------------------------------------------
(* The theorems.                                                            *)

LEMMA SoundAlways == Spec => []CInv
BY SoundStart, SoundStep, PTL DEF Spec

\* Type correctness of the daemon: its controller, the queue of its lock, the place of each
\* task, the leases and the bounds, in every instance.
THEOREM DaemonTypeCorrect == Spec => []TypeOK
<1>1. CInv => TypeOK
  BY SoundTypes
<1> QED BY <1>1, SoundAlways, PTL

\* A session is committed at most once, and never after a cancel or a fault has ended
\* it, whatever the release, the selections, the timers and the sessions after it do.
THEOREM SessionsCommitOnce == Spec => SessionsCommit
<1> DEFINE AtMostOnce == \A s \in DOMAIN commits : commits[s] <= 1
           OnlyTheLiving == \A s \in DOMAIN commits : commits'[s] > commits[s] => s \notin over
<1>1. CInv => AtMostOnce
  BY DEF CInv, Sound, Plain, Committing
<1>2. CInv /\ [Next]_vars => [OnlyTheLiving]_vars
  BY CommitsTheLiving
<1> HIDE DEF AtMostOnce, OnlyTheLiving
<1>3. Spec => []AtMostOnce /\ [][OnlyTheLiving]_vars
  BY <1>1, <1>2, SoundAlways, PTL DEF Spec
<1> QED BY <1>3 DEF SessionsCommit, AtMostOnce, OnlyTheLiving
=============================================================================
