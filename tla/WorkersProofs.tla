---------------------------- MODULE WorkersProofs ----------------------------
(***************************************************************************)
(* Invariants of the model workers: the calls of one worker (WorkerCalls)     *)
(* and the environments its processes run from (WorkerEnvironments).          *)
(*                                                                          *)
(* A native call is alone because whoever runs one is at the head of the      *)
(* queue (RunsAtHead), and only the head starts.  A process keeps its         *)
(* environment because what a publisher changes is locked for it              *)
(* (LockedByPublisher), nothing that is locked is pinned, and whoever runs    *)
(* has pinned the directory at the path of its version (WorkerKnows).         *)
(***************************************************************************)
EXTENDS WorkerCalls, WorkerEnvironments,
        FiniteSetTheorems, SequenceTheorems, WellFoundedInduction, TLAPS

-----------------------------------------------------------------------------
(* Calls.                                                                   *)

CallRecord ==
    [id : Ids \cup {"none"}, method : Methods \cup {"none"}, amount : 0..(2 * Chunk),
     task : {"none", "queued", "cancelling", "native", "draining"} \cup Ended, event : BOOLEAN,
     answer : {"none", "ok", "error", "cancelled", "deadline"}, frames : Nat]
StreamRecord == [open : BOOLEAN, cached : BOOLEAN, received : Int, pending : Int, taken : Int, heard : Int]
Runs(s) == call[s].task \in {"native", "draining"}

CallsTyped ==
    /\ family \in {"asr", "vad"} /\ loaded \in BOOLEAN /\ model \in BOOLEAN
    /\ tasks \in [Ids -> Slots \cup {0}] /\ queue \in Seq(Slots) /\ call \in [Slots -> CallRecord]
    /\ stream \in StreamRecord /\ failures \in Nat

\* A call has its id as long as it has a task; it counts frames while it runs only.
CallKnows(s) ==
    /\ IF call[s].task = "none" THEN call[s] = NoCall ELSE call[s].id \in Ids /\ tasks[call[s].id] = s
    /\ call[s].task \in {"queued", "cancelling"} => call[s].frames = 0
IdsKnown == \A i \in Ids : tasks[i] # 0 => call[tasks[i]].id = i /\ call[tasks[i]].task # "none"

\* Who runs natively is at the head of the queue.
RunsAtHead == \A s \in Slots : Runs(s) => queue # <<>> /\ Head(queue) = s

\* What the model heard, also in the middle of a push.
StreamKnown ==
    /\ stream.received = stream.pending + stream.taken
    /\ (failures = 0 /\ \A s \in Slots : ~(Runs(s) /\ call[s].method = "push")) => stream.heard = stream.taken
    /\ failures = 0 => \A s \in Slots : Runs(s) /\ call[s].method = "push" =>
          stream.heard = IF family = "asr" THEN stream.taken - Chunk ELSE stream.taken + call[s].frames * Chunk
LoadedKnown ==
    /\ loaded = model /\ (stream.open => loaded)
    /\ stream.open /\ ~stream.cached => \E s \in Slots : Runs(s) /\ call[s].method = "open"

CallsInv ==
    /\ CallsTyped /\ (\A s \in Slots : CallKnows(s)) /\ IdsKnown /\ RunsAtHead /\ StreamKnown /\ LoadedKnown

-----------------------------------------------------------------------------
\* Whoever leaves the queue from behind its head leaves the head in place.
LEMMA LeastPlace ==
    ASSUME NEW I \in SUBSET Nat, I # {}
    PROVE  Min(I) \in I
<1> DEFINE R == {ss \in Nat \X Nat : ss[1] < ss[2]}
<1>1. IsWellFoundedOn(R, Nat)
  BY NatLessThanWellFounded DEF OpToRel
<1> HIDE DEF R
<1>2. PICK m \in I : \A j \in I : ~(<<j, m>> \in R)
  BY <1>1, WFMin
<1>3. ASSUME NEW j \in I PROVE m =< j
  <2>1. m \in Nat /\ j \in Nat /\ (j < m => <<j, m>> \in R)
    BY DEF R
  <2> QED
    BY <1>2, <2>1
<1>4. m \in {x \in I : \A y \in I : x =< y}
  BY <1>3
<1> QED
  BY <1>4 DEF Min

LEMMA QueueLeft ==
    ASSUME NEW q \in Seq(Slots), NEW t
    PROVE  /\ RemoveFirst(q, t) \in Seq(Slots)
           /\ q # <<>> /\ Head(q) # t => RemoveFirst(q, t) # <<>> /\ Head(RemoveFirst(q, t)) = Head(q)
<1>1. Len(q) \in Nat /\ DOMAIN q = 1..Len(q) /\ \A i \in 1..Len(q) : q[i] \in Slots
  BY LenProperties
<1>2. CASE \A i \in 1..Len(q) : q[i] # t
  BY <1>2 DEF RemoveFirst
<1>3. ASSUME NEW i \in 1..Len(q), q[i] = t
      PROVE  /\ RemoveFirst(q, t) \in Seq(Slots)
             /\ q # <<>> /\ Head(q) # t => RemoveFirst(q, t) # <<>> /\ Head(RemoveFirst(q, t)) = Head(q)
  <2> DEFINE I == {j \in 1..Len(q) : q[j] = t}
  <2>1. PICK k : k = SelectInSeq(q, LAMBDA v : v = t)
    OBVIOUS
  <2>2. k \in 1..Len(q) /\ q[k] = t
    <3>1. I \in SUBSET Nat /\ I # {}
      BY <1>1, <1>3
    <3>2. k = Min(I)
      BY <1>3, <2>1 DEF SelectInSeq
    <3> QED
      BY <3>1, <3>2, LeastPlace
  <2>3. PICK front : front = SubSeq(q, 1, k - 1)
    OBVIOUS
  <2>4. PICK back : back = SubSeq(q, k + 1, Len(q))
    OBVIOUS
  <2>5. RemoveFirst(q, t) = front \o back
    BY <1>3, <2>1, <2>3, <2>4 DEF RemoveFirst, RemoveAt
  <2>6. /\ front \in Seq(Slots) /\ Len(front) = k - 1
        /\ \A j \in 1..(k - 1) : front[j] = q[j]
    BY <1>1, <2>2, <2>3, SubSeqProperties
  <2>7. back \in Seq(Slots)
    BY <1>1, <2>2, <2>4, SubSeqProperties
  <2>8. /\ front \o back \in Seq(Slots) /\ Len(front \o back) = Len(front) + Len(back) /\ Len(back) \in Nat
        /\ \A j \in 1..(Len(front) + Len(back)) : j <= Len(front) => (front \o back)[j] = front[j]
    BY <2>6, <2>7, ConcatProperties, LenProperties
  <2>9. ASSUME q # <<>>, Head(q) # t
        PROVE  RemoveFirst(q, t) # <<>> /\ Head(RemoveFirst(q, t)) = Head(q)
    <3>1. Head(q) = q[1]
      OBVIOUS
    <3>2. k # 1 /\ 1 \in 1..(k - 1) /\ k - 1 >= 1
      <4>1. k # 1
        BY <2>2, <2>9, <3>1
      <4> QED
        BY <1>1, <2>2, <4>1
    <3>3. PICK l : l = front \o back
      OBVIOUS
    <3>4. l \in Seq(Slots) /\ Len(l) >= 1 /\ l[1] = q[1]
      <4>1. k \in Nat /\ Len(front) \in Nat /\ Len(front) >= 1
        BY <1>1, <2>2, <2>6, <3>2
      <4>2. 1 \in 1..(Len(front) + Len(back)) /\ 1 <= Len(front)
        BY <2>8, <4>1
      <4> QED
        BY <2>6, <2>8, <3>2, <3>3, <4>1, <4>2
    <3>5. l # <<>> /\ Head(l) = l[1]
      BY <3>4
    <3> QED
      BY <2>5, <3>1, <3>3, <3>4, <3>5
  <2> QED
    BY <2>5, <2>8, <2>9
<1> QED
  BY <1>2, <1>3

LEMMA CallsStart == CallsInit => CallsInv
<1> SUFFICES ASSUME CallsInit PROVE CallsInv
  OBVIOUS
<1>1. NoCall \in CallRecord /\ NoCall.task = "none" /\ NoCall.frames = 0
  BY CallsAssumption DEF NoCall, CallRecord
<1>2. NoStream \in StreamRecord /\ NoStream.received = NoStream.pending + NoStream.taken
      /\ NoStream.heard = NoStream.taken /\ ~NoStream.open
  BY DEF NoStream, StreamRecord
<1>3. CallsTyped
  <2>1. call \in [Slots -> CallRecord]
    BY <1>1 DEF CallsInit
  <2>2. tasks \in [Ids -> Slots \cup {0}] /\ queue \in Seq(Slots) /\ failures \in Nat /\ stream \in StreamRecord
    BY <1>2 DEF CallsInit
  <2> QED
    BY <2>1, <2>2 DEF CallsInit, CallsTyped
<1>4. (\A s \in Slots : CallKnows(s)) /\ IdsKnown /\ RunsAtHead
  BY <1>1 DEF CallsInit, CallKnows, IdsKnown, RunsAtHead, Runs
<1>5. StreamKnown /\ LoadedKnown
  BY <1>1, <1>2 DEF CallsInit, StreamKnown, LoadedKnown, Runs
<1> QED
  BY <1>3, <1>4, <1>5 DEF CallsInv

LEMMA CallsHold ==
    CallsInv => CallsTypeOK /\ NativeAlone /\ IdsOwned /\ StreamWhole /\ NothingHalfMade
<1> SUFFICES ASSUME CallsInv PROVE CallsTypeOK /\ NativeAlone /\ IdsOwned /\ StreamWhole /\ NothingHalfMade
  OBVIOUS
<1>1. CallsTypeOK
  <2>1. \A s \in Slots : call[s] \in CallRecord
    BY DEF CallsInv, CallsTyped
  <2>2. \A s \in Slots : /\ call[s].task \in {"none", "queued", "cancelling", "native", "draining"} \cup Ended
                         /\ call[s].answer \in {"none", "ok", "error", "cancelled", "deadline"}
    BY <2>1 DEF CallRecord
  <2> QED
    BY <2>2 DEF CallsInv, CallsTyped, CallsTypeOK
<1>2. NativeAlone
  <2>1. \A s \in Native : s \in Slots /\ queue # <<>> /\ Head(queue) = s
    BY DEF CallsInv, RunsAtHead, Runs, Native
  <2>2. Native \subseteq {Head(queue)}
    BY <2>1
  <2>3. IsFiniteSet({Head(queue)}) /\ Cardinality({Head(queue)}) = 1
    BY FS_Singleton
  <2>4. IsFiniteSet(Native) /\ Cardinality(Native) <= 1
    BY <2>2, <2>3, FS_Subset
  <2> QED
    BY <2>1, <2>4 DEF NativeAlone, Owner
<1>3. IdsOwned
  <2>1. ASSUME NEW s \in Slots, NEW t \in Slots, call[s].id = call[t].id, call[s].task # "none"
        PROVE  s = t
    <3>1. call[s].id \in Ids /\ tasks[call[s].id] = s
      BY <2>1 DEF CallsInv, CallKnows
    <3>2. call[t].task # "none"
      BY <2>1, <3>1, CallsAssumption DEF CallsInv, CallKnows, NoCall
    <3>3. tasks[call[t].id] = t
      BY <3>2 DEF CallsInv, CallKnows
    <3> QED
      BY <2>1, <3>1, <3>3
  <2>2. \A s \in Slots : call[s].task # "none" => tasks[call[s].id] = s
    BY DEF CallsInv, CallKnows
  <2> QED
    BY <2>1, <2>2 DEF IdsOwned
<1>4. StreamWhole
  <2>1. (\A s \in Slots : call[s].method # "push" \/ s \notin Native)
        => \A s \in Slots : ~(Runs(s) /\ call[s].method = "push")
    BY DEF Native, Runs
  <2> QED
    BY <2>1 DEF CallsInv, StreamKnown, StreamWhole
<1>5. NothingHalfMade
  BY DEF CallsInv, LoadedKnown, NothingHalfMade, Native, Runs
<1> QED
  BY <1>1, <1>2, <1>3, <1>4, <1>5

LEMMA CallTyped ==
    ASSUME CallsInv, NEW s \in Slots
    PROVE  /\ call[s] \in CallRecord /\ DOMAIN call = Slots
           /\ call[s] = [id |-> call[s].id, method |-> call[s].method, amount |-> call[s].amount,
                         task |-> call[s].task, event |-> call[s].event, answer |-> call[s].answer,
                         frames |-> call[s].frames]
           /\ call[s].frames \in Nat /\ call[s].amount \in Int
           /\ CallKnows(s) /\ queue \in Seq(Slots) /\ stream \in StreamRecord /\ failures \in Nat
<1>1. call[s] \in CallRecord
  BY DEF CallsInv, CallsTyped
<1>2. call[s].amount \in Int
  BY <1>1, CallsAssumption DEF CallRecord
<1>3. /\ call[s].frames \in Nat
      /\ call[s] = [id |-> call[s].id, method |-> call[s].method, amount |-> call[s].amount,
                    task |-> call[s].task, event |-> call[s].event, answer |-> call[s].answer,
                    frames |-> call[s].frames]
  BY <1>1 DEF CallRecord
<1> QED
  BY <1>1, <1>2, <1>3 DEF CallsInv, CallsTyped

\* A call that goes on keeps its id and its place; who leaves the queue is not the one
\* that runs.
LEMMA CallKeeps ==
    ASSUME CallsInv, NEW s \in Slots, NEW r \in CallRecord, call' = [call EXCEPT ![s] = r],
           call[s].task # "none", r.task # "none", r.id = call[s].id,
           r.task \in {"queued", "cancelling"} => r.frames = 0,
           UNCHANGED <<family, tasks>>, loaded' \in BOOLEAN, model' \in BOOLEAN,
           stream' \in StreamRecord, failures' \in Nat,
           queue' = queue \/ queue' = RemoveFirst(queue, s),
           r.task \in {"native", "draining"} => queue' = queue /\ queue # <<>> /\ Head(queue) = s,
           StreamKnown', LoadedKnown'
    PROVE  CallsInv'
<1>1. call'[s] = r /\ (\A t \in Slots : t # s => call'[t] = call[t])
      /\ call' \in [Slots -> CallRecord]
  BY DEF CallsInv, CallsTyped
<1>2. queue' \in Seq(Slots)
  BY QueueLeft DEF CallsInv, CallsTyped
<1>3. CallsTyped'
  BY <1>1, <1>2 DEF CallsInv, CallsTyped
<1>4. ASSUME NEW t \in Slots PROVE CallKnows(t)'
  BY <1>1 DEF CallsInv, CallKnows
<1>5. IdsKnown'
  BY <1>1 DEF CallsInv, IdsKnown, CallsTyped
<1>6. RunsAtHead'
  <2>1. ASSUME NEW t \in Slots, Runs(t)' PROVE queue' # <<>> /\ Head(queue') = t
    <3>1. CASE t = s
      BY <1>1, <2>1, <3>1 DEF Runs
    <3>2. CASE t # s
      <4>1. queue # <<>> /\ Head(queue) = t
        BY <1>1, <2>1, <3>2 DEF Runs, CallsInv, RunsAtHead
      <4>2. queue \in Seq(Slots)
        BY DEF CallsInv, CallsTyped
      <4> QED
        BY <3>2, <4>1, <4>2, QueueLeft
    <3> QED
      BY <3>1, <3>2
  <2> QED
    BY <2>1 DEF RunsAtHead
<1> QED
  BY <1>3, <1>4, <1>5, <1>6 DEF CallsInv

\* Steps that leave the stream and the model alone.
LEMMA CallOnly ==
    ASSUME CallsInv, NEW s \in Slots, NEW r \in CallRecord, call' = [call EXCEPT ![s] = r],
           call[s].task # "none", r.task # "none", r.id = call[s].id, r.method = call[s].method,
           r.task \in {"queued", "cancelling"} => r.frames = 0,
           UNCHANGED <<family, tasks, loaded, model, stream, failures>>,
           queue' = queue \/ queue' = RemoveFirst(queue, s),
           (r.task \in {"native", "draining"} <=> Runs(s)),
           Runs(s) => queue' = queue /\ r.frames = call[s].frames
    PROVE  CallsInv'
<1>1. call'[s] = r /\ \A t \in Slots : t # s => call'[t] = call[t]
  BY DEF CallsInv, CallsTyped
<1>2. \A t \in Slots : /\ Runs(t)' = Runs(t) /\ call'[t].method = call[t].method
                       /\ Runs(t) => call'[t].frames = call[t].frames
  BY <1>1 DEF Runs
<1>3. StreamKnown'
  BY <1>2 DEF CallsInv, StreamKnown
<1>4. LoadedKnown'
  BY <1>2 DEF CallsInv, LoadedKnown
<1>5. loaded' \in BOOLEAN /\ model' \in BOOLEAN /\ stream' \in StreamRecord /\ failures' \in Nat
  BY DEF CallsInv, CallsTyped
<1>6. r.task \in {"native", "draining"} => queue' = queue /\ queue # <<>> /\ Head(queue) = s
  BY DEF CallsInv, RunsAtHead
<1> QED
  BY <1>3, <1>4, <1>5, <1>6, CallKeeps

LEMMA MakeCallGoes ==
    ASSUME CallsInv, NEW s \in Slots, NEW i \in Ids, NEW m \in Methods, NEW n \in 0..(2 * Chunk), MakeCall(s, i, m, n)
    PROVE  CallsInv'
<1>1. UNCHANGED <<family, loaded, model, stream, failures>> /\ call[s] = NoCall
  BY DEF MakeCall
<1>2. CASE UNCHANGED <<call, tasks, queue>>
  BY <1>1, <1>2 DEF CallsInv, CallsTyped, CallKnows, IdsKnown, RunsAtHead, StreamKnown, LoadedKnown, Runs
<1>3. CASE tasks[i] = 0
  <2>1. PICK r : r = [NoCall EXCEPT !.id = i, !.method = m, !.amount = n, !.task = "queued"]
    OBVIOUS
  <2>2. r = [id |-> i, method |-> m, amount |-> n, task |-> "queued", event |-> FALSE, answer |-> "none", frames |-> 0]
    BY <2>1 DEF NoCall
  <2>3. r \in CallRecord /\ r.id = i /\ r.task = "queued" /\ r.frames = 0
    BY <2>2 DEF CallRecord
  <2>4. call' = [call EXCEPT ![s] = r] /\ tasks' = [tasks EXCEPT ![i] = s] /\ queue' = Append(queue, s)
    BY <1>3, <2>1 DEF MakeCall
  <2>5. call'[s] = r /\ (\A t \in Slots : t # s => call'[t] = call[t])
        /\ call' \in [Slots -> CallRecord] /\ tasks' \in [Ids -> Slots \cup {0}]
        /\ tasks'[i] = s /\ (\A j \in Ids : j # i => tasks'[j] = tasks[j])
    BY <2>3, <2>4 DEF CallsInv, CallsTyped
  <2>6. queue \in Seq(Slots) /\ queue' \in Seq(Slots) /\ (queue # <<>> => queue' # <<>> /\ Head(queue') = Head(queue))
    <3>1. queue \in Seq(Slots)
      BY DEF CallsInv, CallsTyped
    <3>2. queue' \in Seq(Slots) /\ Len(queue') = Len(queue) + 1 /\ \A k \in 1..Len(queue) : queue'[k] = queue[k]
      BY <2>4, <3>1, AppendProperties
    <3> QED
      BY <3>1, <3>2
  <2>7. CallsTyped'
    BY <1>1, <2>5, <2>6 DEF CallsInv, CallsTyped
  <2>8. ASSUME NEW t \in Slots PROVE CallKnows(t)'
    <3>1. CASE t = s
      BY <2>3, <2>5, <3>1 DEF CallKnows
    <3>2. CASE t # s
      <4>1. CallKnows(t)
        BY DEF CallsInv
      <4>2. call[t].task # "none" => call[t].id # i
        BY <1>3, <4>1, CallsAssumption DEF CallKnows
      <4> QED
        BY <2>5, <3>2, <4>1, <4>2 DEF CallKnows
    <3> QED
      BY <3>1, <3>2
  <2>9. IdsKnown'
    <3>1. ASSUME NEW j \in Ids, tasks'[j] # 0 PROVE call'[tasks'[j]].id = j /\ call'[tasks'[j]].task # "none"
      <4>1. CASE j = i
        BY <2>3, <2>5, <4>1
      <4>2. CASE j # i
        <5>1. tasks[j] # 0 /\ tasks[j] \in Slots /\ call[tasks[j]].id = j /\ call[tasks[j]].task # "none"
          BY <2>5, <3>1, <4>2 DEF CallsInv, CallsTyped, IdsKnown
        <5>2. tasks[j] # s
          BY <1>1, <5>1 DEF NoCall
        <5> QED
          BY <2>5, <4>2, <5>1, <5>2
      <4> QED
        BY <4>1, <4>2
    <3> QED
      BY <3>1 DEF IdsKnown
  <2>10. \A t \in Slots : Runs(t)' => Runs(t) /\ t # s /\ call'[t] = call[t]
    BY <2>3, <2>5 DEF Runs
  <2>11. \A t \in Slots : Runs(t) => Runs(t)' /\ call'[t] = call[t]
    BY <1>1, <2>5 DEF Runs, NoCall
  <2>12. RunsAtHead'
    BY <2>6, <2>10 DEF CallsInv, RunsAtHead
  <2>13. StreamKnown' /\ LoadedKnown'
    BY <1>1, <2>10, <2>11 DEF CallsInv, StreamKnown, LoadedKnown
  <2> QED
    BY <2>7, <2>8, <2>9, <2>12, <2>13 DEF CallsInv
<1> QED
  BY <1>2, <1>3 DEF MakeCall

\* What cancelling makes of a call, with the answer that it has then.
BrokenWith(s, a) == [Broken(call[s]) EXCEPT !.answer = a]
LEMMA BrokenCall ==
    ASSUME CallsInv, NEW s \in Slots, call[s].task # "none",
           NEW a \in {"none", "ok", "error", "cancelled", "deadline"},
           NEW r, r = BrokenWith(s, a)
    PROVE  /\ r \in CallRecord /\ r.task # "none" /\ r.id = call[s].id /\ r.method = call[s].method
           /\ r.frames = call[s].frames /\ (r.task \in {"native", "draining"} <=> Runs(s))
           /\ r.task \in {"queued", "cancelling"} => r.frames = 0
<1>1. PICK o : o = call[s]
  OBVIOUS
<1>2. PICK task : task = IF o.task = "queued" THEN "cancelling" ELSE IF o.task = "native" THEN "draining" ELSE o.task
  OBVIOUS
<1>3. /\ o = [id |-> o.id, method |-> o.method, amount |-> o.amount, task |-> o.task, event |-> o.event,
              answer |-> o.answer, frames |-> o.frames]
      /\ o \in CallRecord
  BY <1>1, CallTyped
<1>4. Broken(o) = [o EXCEPT !.event = TRUE, !.task = task]
  BY <1>2 DEF Broken
<1>5. r = [id |-> o.id, method |-> o.method, amount |-> o.amount, task |-> task, event |-> TRUE,
           answer |-> a, frames |-> o.frames]
  BY <1>1, <1>3, <1>4 DEF BrokenWith
<1>6. task \in {"none", "queued", "cancelling", "native", "draining"} \cup Ended
  BY <1>2, <1>3 DEF CallRecord
<1>7. r \in CallRecord
  BY <1>3, <1>5, <1>6 DEF CallRecord
<1>8. CallKnows(s)
  BY CallTyped
<1> QED
  BY <1>1, <1>2, <1>5, <1>7, <1>8 DEF Runs, CallKnows

LEMMA CancelGoes ==
    ASSUME CallsInv, NEW i \in Ids, CancelCall(i)
    PROVE  CallsInv'
<1>1. PICK s : s = tasks[i]
  OBVIOUS
<1>2. s \in Slots /\ call[s].task # "none"
  BY <1>1 DEF CancelCall, CallsInv, CallsTyped, IdsKnown
<1>3. PICK r : r = Broken(call[s])
  OBVIOUS
<1>4. call' = [call EXCEPT ![s] = r]
  BY <1>1, <1>2, <1>3, CallTyped DEF CancelCall
<1>5. PICK a : a = call[s].answer
  OBVIOUS
<1>6. a \in {"none", "ok", "error", "cancelled", "deadline"} /\ r = BrokenWith(s, a)
  <2>1. PICK o : o = call[s]
    OBVIOUS
  <2>2. o \in CallRecord
    BY <1>2, <2>1, CallTyped
  <2> QED
    BY <1>3, <1>5, <2>1, <2>2 DEF Broken, BrokenWith, CallRecord
<1>7. UNCHANGED <<family, tasks, loaded, model, stream, failures, queue>>
  BY DEF CancelCall, StillOwned
<1> QED
  BY <1>2, <1>4, <1>6, <1>7, BrokenCall, CallOnly

LEMMA DeadlineGoes ==
    ASSUME CallsInv, NEW s \in Slots, Deadline(s)
    PROVE  CallsInv'
<1>1. PICK r : r = BrokenWith(s, "deadline")
  OBVIOUS
<1>2. call' = [call EXCEPT ![s] = r] /\ call[s].task # "none"
  BY <1>1, CallTyped DEF Deadline, BrokenWith
<1>3. UNCHANGED <<family, tasks, loaded, model, stream, failures, queue>>
  BY DEF Deadline, StillOwned
<1> QED
  BY <1>1, <1>2, <1>3, BrokenCall, CallOnly

LEMMA AnswerGoes ==
    ASSUME CallsInv, NEW s \in Slots, AnswerCall(s)
    PROVE  CallsInv'
<1> DEFINE a == IF call[s].event THEN "cancelled" ELSE IF call[s].task = "done" THEN "ok" ELSE "error"
<1>1. call' = [call EXCEPT ![s].answer = a] /\ a \in {"none", "ok", "error", "cancelled", "deadline"}
  BY DEF AnswerCall
<1>2. (call[s].event \/ call[s].task \in Ended) /\ UNCHANGED <<family, tasks, queue, loaded, model, stream, failures>>
  BY DEF AnswerCall
<1> HIDE DEF a
<1>3. PICK o : o = call[s]
  OBVIOUS
<1>4. PICK r : r = [o EXCEPT !.answer = a]
  OBVIOUS
<1>5. call' = [call EXCEPT ![s] = r]
  BY <1>1, <1>3, <1>4, CallTyped
<1>6. /\ o = [id |-> o.id, method |-> o.method, amount |-> o.amount, task |-> o.task, event |-> o.event,
              answer |-> o.answer, frames |-> o.frames]
      /\ o \in CallRecord
  BY <1>3, CallTyped
<1>7. r = [id |-> o.id, method |-> o.method, amount |-> o.amount, task |-> o.task, event |-> o.event,
           answer |-> a, frames |-> o.frames]
  BY <1>4, <1>6
<1>8. r \in CallRecord
  BY <1>1, <1>6, <1>7 DEF CallRecord
<1>9. call[s].task # "none" /\ CallKnows(s)
  <2>1. CallKnows(s)
    BY CallTyped
  <2>2. CASE call[s].task \in Ended
    BY <2>1, <2>2 DEF Ended
  <2>3. CASE call[s].event
    <3>1. ~NoCall.event
      BY DEF NoCall
    <3> QED
      BY <2>1, <2>3, <3>1 DEF CallKnows
  <2> QED
    BY <1>2, <2>1, <2>2, <2>3
<1> QED
  BY <1>2, <1>3, <1>5, <1>7, <1>8, <1>9, CallOnly DEF Runs, CallKnows

LEMMA RetireGoes ==
    ASSUME CallsInv, NEW s \in Slots, Retire(s)
    PROVE  CallsInv'
<1>1. /\ call[s].task \in Ended /\ tasks' = [i \in Ids |-> IF tasks[i] = s THEN 0 ELSE tasks[i]]
      /\ call' = [call EXCEPT ![s] = NoCall] /\ UNCHANGED <<family, queue, loaded, model, stream, failures>>
  BY DEF Retire
<1>2. NoCall \in CallRecord /\ NoCall.task = "none" /\ NoCall.frames = 0
  BY CallsAssumption DEF NoCall, CallRecord
<1>3. call'[s] = NoCall /\ (\A t \in Slots : t # s => call'[t] = call[t])
      /\ call' \in [Slots -> CallRecord] /\ tasks' \in [Ids -> Slots \cup {0}]
  BY <1>1, <1>2 DEF CallsInv, CallsTyped
<1>4. CallsTyped'
  BY <1>1, <1>3 DEF CallsInv, CallsTyped
<1>5. ASSUME NEW t \in Slots PROVE CallKnows(t)'
  <2>1. CallKnows(t)
    BY DEF CallsInv
  <2> QED
    BY <1>1, <1>2, <1>3, <2>1 DEF CallKnows
<1>6. IdsKnown'
  <2>1. ASSUME NEW i \in Ids, tasks'[i] # 0 PROVE call'[tasks'[i]].id = i /\ call'[tasks'[i]].task # "none"
    <3>1. tasks[i] # s /\ tasks'[i] = tasks[i] /\ tasks[i] \in Slots
      BY <1>1, <2>1 DEF CallsInv, CallsTyped
    <3> QED
      BY <1>3, <2>1, <3>1 DEF CallsInv, IdsKnown
  <2> QED
    BY <2>1 DEF IdsKnown
<1>7. \A t \in Slots : Runs(t)' = Runs(t) /\ (Runs(t) => call'[t] = call[t])
  BY <1>1, <1>2, <1>3 DEF Runs, Ended
<1>8. RunsAtHead' /\ StreamKnown' /\ LoadedKnown'
  <2>1. RunsAtHead'
    BY <1>1, <1>7 DEF CallsInv, RunsAtHead
  <2>2. StreamKnown'
    BY <1>1, <1>7 DEF CallsInv, StreamKnown
  <2>3. LoadedKnown'
    BY <1>1, <1>7 DEF CallsInv, LoadedKnown
  <2> QED
    BY <2>1, <2>2, <2>3
<1> QED
  BY <1>4, <1>5, <1>6, <1>8 DEF CallsInv

LEMMA LeaveGoes ==
    ASSUME CallsInv, NEW s \in Slots, Leave(s)
    PROVE  CallsInv'
<1>1. call[s].task = "cancelling" /\ call' = [call EXCEPT ![s].task = "cancelled"] /\ queue' = RemoveFirst(queue, s)
      /\ UNCHANGED <<family, tasks, loaded, model, stream, failures>>
  BY DEF Leave
<1>2. PICK o : o = call[s]
  OBVIOUS
<1>3. PICK r : r = [o EXCEPT !.task = "cancelled"]
  OBVIOUS
<1>4. call' = [call EXCEPT ![s] = r]
  BY <1>1, <1>2, <1>3, CallTyped
<1>5. /\ o = [id |-> o.id, method |-> o.method, amount |-> o.amount, task |-> o.task, event |-> o.event,
              answer |-> o.answer, frames |-> o.frames]
      /\ o \in CallRecord
  BY <1>2, CallTyped
<1>6. r = [id |-> o.id, method |-> o.method, amount |-> o.amount, task |-> "cancelled", event |-> o.event,
           answer |-> o.answer, frames |-> o.frames]
  BY <1>3, <1>5
<1>7. r \in CallRecord
  BY <1>5, <1>6 DEF CallRecord, Ended
<1>8. ~Runs(s) /\ r.task = "cancelled" /\ r.id = call[s].id /\ r.method = call[s].method
  BY <1>1, <1>2, <1>6 DEF Runs
<1>9. ((r.task \in {"native", "draining"}) <=> Runs(s)) /\ ~(r.task \in {"queued", "cancelling"}) /\ call[s].task # "none" /\ r.task # "none"
  BY <1>1, <1>8
<1> QED
  BY <1>1, <1>4, <1>7, <1>8, <1>9, CallOnly

\* The record of a call whose task goes on.
SetTask(s, task) == [call EXCEPT ![s].task = task]
SetFrames(s, n) == [call EXCEPT ![s].frames = n]
SetBoth(s, n, task) == [call EXCEPT ![s].frames = n, ![s].task = task]
LEMMA TaskSet ==
    ASSUME CallsInv, NEW s \in Slots, NEW task \in {"native"} \cup Ended
    PROVE  /\ \E r \in CallRecord :
                /\ SetTask(s, task) = [call EXCEPT ![s] = r]
                /\ r.task = task /\ r.id = call[s].id /\ r.method = call[s].method /\ r.frames = call[s].frames
           /\ \A n \in Nat : \E r \in CallRecord :
                /\ SetBoth(s, n, task) = [call EXCEPT ![s] = r]
                /\ r.task = task /\ r.id = call[s].id /\ r.method = call[s].method /\ r.frames = n
           /\ \A n \in Nat : \E r \in CallRecord :
                /\ SetFrames(s, n) = [call EXCEPT ![s] = r]
                /\ r.task = call[s].task /\ r.id = call[s].id /\ r.method = call[s].method /\ r.frames = n
<1>1. PICK o : o = call[s]
  OBVIOUS
<1>2. /\ o = [id |-> o.id, method |-> o.method, amount |-> o.amount, task |-> o.task, event |-> o.event,
              answer |-> o.answer, frames |-> o.frames]
      /\ o \in CallRecord
  BY <1>1, CallTyped
<1>3. task \in {"none", "queued", "cancelling", "native", "draining"} \cup Ended
  OBVIOUS
<1>4. \E r \in CallRecord :
        /\ SetTask(s, task) = [call EXCEPT ![s] = r]
        /\ r.task = task /\ r.id = o.id /\ r.method = o.method /\ r.frames = o.frames
  <2>1. PICK r : r = [o EXCEPT !.task = task]
    OBVIOUS
  <2>2. r = [id |-> o.id, method |-> o.method, amount |-> o.amount, task |-> task, event |-> o.event,
             answer |-> o.answer, frames |-> o.frames]
    BY <1>2, <2>1
  <2>3. r \in CallRecord
    BY <1>2, <1>3, <2>2 DEF CallRecord
  <2>4. SetTask(s, task) = [call EXCEPT ![s] = r]
    BY <1>1, <2>1, CallTyped DEF SetTask, SetFrames
  <2> QED
    BY <2>2, <2>3, <2>4
<1>5. ASSUME NEW n \in Nat
      PROVE  \E r \in CallRecord :
                /\ SetBoth(s, n, task) = [call EXCEPT ![s] = r]
                /\ r.task = task /\ r.id = o.id /\ r.method = o.method /\ r.frames = n
  <2>1. PICK r : r = [o EXCEPT !.frames = n, !.task = task]
    OBVIOUS
  <2>2. r = [id |-> o.id, method |-> o.method, amount |-> o.amount, task |-> task, event |-> o.event,
             answer |-> o.answer, frames |-> n]
    BY <1>2, <2>1
  <2>3. r \in CallRecord
    BY <1>2, <1>3, <2>2 DEF CallRecord
  <2>4. SetBoth(s, n, task) = [call EXCEPT ![s] = r]
    BY <1>1, <2>1, CallTyped DEF SetBoth
  <2> QED
    BY <2>2, <2>3, <2>4
<1>6. ASSUME NEW n \in Nat
      PROVE  \E r \in CallRecord :
                /\ SetFrames(s, n) = [call EXCEPT ![s] = r]
                /\ r.task = o.task /\ r.id = o.id /\ r.method = o.method /\ r.frames = n
  <2>1. PICK r : r = [o EXCEPT !.frames = n]
    OBVIOUS
  <2>2. r = [id |-> o.id, method |-> o.method, amount |-> o.amount, task |-> o.task, event |-> o.event,
             answer |-> o.answer, frames |-> n]
    BY <1>2, <2>1
  <2>3. r \in CallRecord
    BY <1>2, <2>2 DEF CallRecord
  <2>4. SetFrames(s, n) = [call EXCEPT ![s] = r]
    BY <1>1, <2>1, CallTyped DEF SetTask, SetFrames
  <2> QED
    BY <2>2, <2>3, <2>4
<1> QED
  BY <1>1, <1>4, <1>5, <1>6

\* The call that had the adapter ends: nobody runs.
LEMMA CallEnds ==
    ASSUME CallsInv, NEW s \in Slots, call[s].task # "none", \A t \in Slots : t # s => ~Runs(t),
           NEW r \in CallRecord, call' = [call EXCEPT ![s] = r], r.task \in Ended, r.id = call[s].id,
           UNCHANGED <<family, tasks>>, queue' = RemoveFirst(queue, s),
           loaded' \in BOOLEAN, model' = loaded', NEW x \in StreamRecord, stream' = x,
           x.received = x.pending + x.taken, failures' \in Nat, failures' = 0 => x.heard = x.taken,
           x.open => loaded' /\ x.cached
    PROVE  CallsInv'
<1>1. call'[s] = r /\ \A t \in Slots : t # s => call'[t] = call[t]
  BY DEF CallsInv, CallsTyped
<1>2. \A t \in Slots : ~Runs(t)'
  BY <1>1 DEF Runs, Ended
<1>3. StreamKnown' /\ LoadedKnown'
  BY <1>2 DEF StreamKnown, LoadedKnown
<1>4. /\ r.task # "none" /\ ~(r.task \in {"queued", "cancelling"}) /\ ~(r.task \in {"native", "draining"})
  BY DEF Ended
<1> QED
  BY <1>3, <1>4, CallKeeps

\* The stream while nobody but one call runs.
LEMMA StreamTyped ==
    ASSUME CallsInv
    PROVE  /\ stream.open \in BOOLEAN /\ stream.cached \in BOOLEAN /\ stream.received \in Int
           /\ stream.pending \in Int /\ stream.taken \in Int /\ stream.heard \in Int /\ stream \in StreamRecord
           /\ stream = [open |-> stream.open, cached |-> stream.cached, received |-> stream.received,
                        pending |-> stream.pending, taken |-> stream.taken, heard |-> stream.heard]
           /\ stream.received = stream.pending + stream.taken /\ loaded = model /\ loaded \in BOOLEAN
           /\ stream.open => loaded
           /\ Chunk \in Nat /\ failures \in Nat
<1>1. stream \in StreamRecord
  BY DEF CallsInv, CallsTyped
<1>2. /\ stream.received = stream.pending + stream.taken /\ loaded = model /\ loaded \in BOOLEAN
      /\ (stream.open => loaded) /\ failures \in Nat
  BY DEF CallsInv, CallsTyped, StreamKnown, LoadedKnown
<1> QED
  BY <1>1, <1>2, CallsAssumption DEF StreamRecord

LEMMA NoStreamTyped ==
    /\ NoStream \in StreamRecord /\ NoStream.received = NoStream.pending + NoStream.taken
    /\ NoStream.heard = NoStream.taken /\ ~NoStream.open
BY DEF NoStream, StreamRecord

LEMMA StartGoes ==
    ASSUME CallsInv, NEW s \in Slots, StartCall(s)
    PROVE  CallsInv'
<1>1. /\ queue # <<>> /\ Head(queue) = s /\ call[s].task = "queued" /\ UNCHANGED <<family, tasks, failures>>
  BY DEF StartCall, Owner
<1>2. \A t \in Slots : ~Runs(t)
  BY <1>1 DEF CallsInv, RunsAtHead, Runs
<1>3. /\ failures = 0 => stream.heard = stream.taken
      /\ stream.open => stream.cached
  BY <1>2 DEF CallsInv, StreamKnown, LoadedKnown
<1>4. call[s].frames = 0
  BY <1>1, CallTyped DEF CallKnows
<1>5. ASSUME NEW task \in {"done", "failed"}, Finish(s, task), NEW x \in StreamRecord, stream' = x,
             x.received = x.pending + x.taken, failures = 0 => x.heard = x.taken,
             x.open => loaded' /\ x.cached, loaded' \in BOOLEAN, model' = loaded'
      PROVE  CallsInv'
  <2>1. task \in {"native"} \cup Ended /\ task \in Ended
    BY DEF Ended
  <2>2. PICK r \in CallRecord :
          /\ SetTask(s, task) = [call EXCEPT ![s] = r]
          /\ r.task = task /\ r.id = call[s].id
    BY <2>1, TaskSet
  <2>3. call' = [call EXCEPT ![s] = r] /\ queue' = RemoveFirst(queue, s)
    BY <1>5, <2>2 DEF Finish, SetTask
  <2>4. failures' \in Nat /\ failures' = failures
    BY <1>1, StreamTyped
  <2> QED
    BY <1>1, <1>2, <1>5, <2>1, <2>2, <2>3, <2>4, CallEnds
<1>6. ASSUME GoNative(s), NEW x \in StreamRecord, stream' = x,
             x.received = x.pending + x.taken, UNCHANGED <<loaded, model>>, x.open => loaded,
             x.open /\ ~x.cached => call[s].method = "open",
             failures = 0 => x.heard = IF call[s].method = "push" /\ family = "asr" THEN x.taken - Chunk ELSE x.taken
      PROVE  CallsInv'
  <2>1. PICK r \in CallRecord :
          /\ SetTask(s, "native") = [call EXCEPT ![s] = r]
          /\ r.task = "native" /\ r.id = call[s].id /\ r.method = call[s].method /\ r.frames = call[s].frames
    BY TaskSet
  <2>2. call' = [call EXCEPT ![s] = r] /\ UNCHANGED queue
    BY <1>6, <2>1 DEF GoNative, SetTask
  <2>3. call'[s] = r /\ \A t \in Slots : t # s => call'[t] = call[t]
    BY <2>2 DEF CallsInv, CallsTyped
  <2>4. Runs(s)' /\ \A t \in Slots : t # s => ~Runs(t)'
    BY <1>2, <2>1, <2>3 DEF Runs
  <2>5. x.taken \in Int /\ x.taken + 0 * Chunk = x.taken
    BY StreamTyped DEF StreamRecord
  <2>6. StreamKnown'
    BY <1>1, <1>4, <1>6, <2>1, <2>3, <2>4, <2>5 DEF StreamKnown
  <2>7. LoadedKnown'
    BY <1>6, <2>1, <2>3, <2>4, StreamTyped DEF LoadedKnown
  <2>8. loaded' \in BOOLEAN /\ model' \in BOOLEAN /\ stream' \in StreamRecord /\ failures' \in Nat
    BY <1>1, <1>6 DEF CallsInv, CallsTyped
  <2> QED
    BY <1>1, <1>6, <2>1, <2>2, <2>6, <2>7, <2>8, CallKeeps
<1>7. CASE StartLoad(s)
  BY <1>3, <1>6, <1>7, StreamTyped DEF StartLoad
<1>8. CASE StartUnload(s)
  BY <1>5, <1>8, NoStreamTyped DEF StartUnload
<1>9. ASSUME Finish(s, "failed"), UNCHANGED <<stream, loaded, model>> PROVE CallsInv'
  BY <1>3, <1>5, <1>9, StreamTyped
<1>10. CASE StartOpen(s)
  <2>1. CASE Finish(s, "failed") /\ UNCHANGED stream
    BY <1>9, <1>10, <2>1 DEF StartOpen
  <2>2. CASE loaded /\ GoNative(s) /\ stream' = [NoStream EXCEPT !.open = TRUE]
    <3>1. PICK x : x = [NoStream EXCEPT !.open = TRUE]
      OBVIOUS
    <3>2. x = [open |-> TRUE, cached |-> FALSE, received |-> 0, pending |-> 0, taken |-> 0, heard |-> 0]
      BY <3>1 DEF NoStream
    <3>3. x \in StreamRecord /\ x.received = x.pending + x.taken /\ x.heard = x.taken
      BY <3>2 DEF StreamRecord
    <3>4. call[s].method = "open" /\ UNCHANGED <<loaded, model>>
      BY <1>10 DEF StartOpen
    <3> QED
      BY <1>6, <2>2, <3>1, <3>3, <3>4
  <2>3. CASE loaded /\ Finish(s, "done") /\ stream' = [NoStream EXCEPT !.open = TRUE, !.cached = TRUE]
    <3>1. PICK x : x = [NoStream EXCEPT !.open = TRUE, !.cached = TRUE]
      OBVIOUS
    <3>2. x = [open |-> TRUE, cached |-> TRUE, received |-> 0, pending |-> 0, taken |-> 0, heard |-> 0]
      BY <3>1 DEF NoStream
    <3>3. x \in StreamRecord /\ x.received = x.pending + x.taken /\ x.heard = x.taken /\ x.cached
      BY <3>2 DEF StreamRecord
    <3>4. UNCHANGED <<loaded, model>>
      BY <1>10 DEF StartOpen
    <3> QED
      BY <1>5, <2>3, <3>1, <3>3, <3>4, StreamTyped
  <2> QED
    BY <1>10, <2>1, <2>2, <2>3 DEF StartOpen
<1>11. CASE StartPush(s)
  <2>1. PICK n : n = call[s].amount
    OBVIOUS
  <2>2. PICK g : g = [stream EXCEPT !.received = @ + n, !.pending = @ + n]
    OBVIOUS
  <2>3. n \in Int
    BY <2>1, CallTyped
  <2>4. g = [open |-> stream.open, cached |-> stream.cached, received |-> stream.received + n,
             pending |-> stream.pending + n, taken |-> stream.taken, heard |-> stream.heard]
    BY <2>2, StreamTyped
  <2>5. g \in StreamRecord /\ g.received = g.pending + g.taken
    BY <2>3, <2>4, StreamTyped DEF StreamRecord
  <2>6. UNCHANGED <<loaded, model>> /\ call[s].method = "push"
    BY <1>11 DEF StartPush
  <2>7. CASE Finish(s, "failed") /\ UNCHANGED stream
    BY <1>9, <2>6, <2>7
  <2>8. CASE loaded /\ stream.open /\ Finish(s, "done") /\ stream' = g
    BY <1>3, <1>5, <2>4, <2>5, <2>6, <2>8, StreamTyped
  <2>9. CASE loaded /\ stream.open /\ GoNative(s) /\ stream' = TakeChunk(g)
    <3>1. CASE family = "asr"
      <4>1. PICK x : x = [g EXCEPT !.pending = @ - Chunk, !.taken = @ + Chunk]
        OBVIOUS
      <4>2. x = [open |-> g.open, cached |-> g.cached, received |-> g.received,
                 pending |-> g.pending - Chunk, taken |-> g.taken + Chunk, heard |-> g.heard]
        BY <2>5, <4>1 DEF StreamRecord
      <4>3. /\ x \in StreamRecord /\ x.received = x.pending + x.taken /\ x.taken - Chunk = g.taken
            /\ x.open = g.open /\ x.cached = g.cached /\ x.heard = g.heard
        BY <2>5, <4>2, StreamTyped DEF StreamRecord
      <4>4. stream' = x
        BY <2>9, <3>1, <4>1 DEF TakeChunk
      <4> QED
        BY <1>3, <1>6, <2>4, <2>6, <2>9, <3>1, <4>3, <4>4, StreamTyped
    <3>2. CASE family # "asr"
      <4>1. stream' = g
        BY <2>9, <3>2 DEF TakeChunk
      <4> QED
        BY <1>3, <1>6, <2>4, <2>5, <2>6, <2>9, <3>2, <4>1, StreamTyped
    <3> QED
      BY <3>1, <3>2
  <2> QED
    BY <1>11, <2>1, <2>2, <2>7, <2>8, <2>9 DEF StartPush
<1>12. CASE StartClose(s)
  <2>1. UNCHANGED <<loaded, model>>
    BY <1>12 DEF StartClose
  <2>2. CASE Finish(s, "failed") /\ UNCHANGED stream
    BY <1>9, <2>1, <2>2
  <2>3. CASE Finish(s, "done") /\ stream' = NoStream
    BY <1>5, <2>1, <2>3, NoStreamTyped, StreamTyped
  <2> QED
    BY <1>12, <2>2, <2>3 DEF StartClose
<1> QED
  BY <1>7, <1>8, <1>10, <1>11, <1>12 DEF StartCall

LEMMA NativeGoes ==
    ASSUME CallsInv, NEW s \in Slots, NEW ok \in BOOLEAN, NativeEnds(s, ok)
    PROVE  CallsInv'
<1>1. Runs(s) /\ call[s].task # "none" /\ UNCHANGED <<family, tasks>>
  BY DEF NativeEnds, Native, Runs
<1>2. queue # <<>> /\ Head(queue) = s /\ \A t \in Slots : t # s => ~Runs(t)
  BY <1>1 DEF CallsInv, RunsAtHead
<1>3. failures' \in Nat /\ (failures' = 0 => ok /\ failures = 0)
  <2>1. failures \in Nat /\ failures' = IF ok THEN failures ELSE failures + 1
    BY StreamTyped DEF NativeEnds
  <2> QED
    BY <2>1
<1>4. PICK out : out = Outcome(s, ok)
  OBVIOUS
<1>5. /\ out \in Ended /\ out \in {"native"} \cup Ended
      /\ out = "done" => ok /\ call[s].task = "native"
  BY <1>1, <1>4 DEF Outcome, Ended, Runs
<1>6. call[s].method # "push" => (failures = 0 => stream.heard = stream.taken)
  BY <1>2 DEF CallsInv, StreamKnown
<1>7. call[s].method # "open" => (stream.open => stream.cached)
  BY <1>2 DEF CallsInv, LoadedKnown
<1>8. ASSUME Finish(s, out), NEW x \in StreamRecord, stream' = x, loaded' \in BOOLEAN, model' = loaded',
             x.received = x.pending + x.taken, failures' = 0 => x.heard = x.taken, x.open => loaded' /\ x.cached
      PROVE  CallsInv'
  <2>1. PICK r \in CallRecord :
          /\ SetTask(s, out) = [call EXCEPT ![s] = r]
          /\ r.task = out /\ r.id = call[s].id
    BY <1>5, TaskSet
  <2>2. call' = [call EXCEPT ![s] = r] /\ queue' = RemoveFirst(queue, s)
    BY <1>8, <2>1 DEF Finish, SetTask
  <2> QED
    BY <1>1, <1>2, <1>3, <1>5, <1>8, <2>1, <2>2, CallEnds
<1>9. CASE EndLoad(s, ok)
  <2>1. /\ call[s].method = "load" /\ Finish(s, out) /\ UNCHANGED stream
        /\ loaded' = (loaded \/ out = "done") /\ model' = (model \/ out = "done")
    BY <1>4, <1>9 DEF EndLoad
  <2>2. loaded' \in BOOLEAN /\ model' = loaded' /\ (loaded => loaded')
    BY <2>1, StreamTyped
  <2>3. stream.open => loaded' /\ stream.cached
    BY <1>7, <2>1, <2>2, StreamTyped
  <2> QED
    BY <1>3, <1>6, <1>8, <2>1, <2>2, <2>3, StreamTyped
<1>10. CASE EndOpen(s, ok)
  <2>1. /\ call[s].method = "open" /\ Finish(s, out) /\ UNCHANGED <<loaded, model>>
        /\ stream' = IF out = "done" THEN [stream EXCEPT !.cached = TRUE] ELSE NoStream
    BY <1>4, <1>10 DEF EndOpen
  <2>2. CASE out = "done"
    <3>1. PICK x : x = [stream EXCEPT !.cached = TRUE]
      OBVIOUS
    <3>2. x = [open |-> stream.open, cached |-> TRUE, received |-> stream.received,
               pending |-> stream.pending, taken |-> stream.taken, heard |-> stream.heard]
      BY <3>1, StreamTyped
    <3>3. x \in StreamRecord
      BY <3>2, StreamTyped DEF StreamRecord
    <3> QED
      BY <1>3, <1>6, <1>8, <2>1, <2>2, <3>1, <3>2, <3>3, StreamTyped
  <2>3. CASE out # "done"
    BY <1>8, <2>1, <2>3, NoStreamTyped, StreamTyped
  <2> QED
    BY <2>2, <2>3
<1>11. CASE EndPush(s, ok)
  <2> DEFINE add == IF ok THEN Chunk ELSE 0
  <2>1. PICK f : f = call[s].frames
    OBVIOUS
  <2>2. PICK n : n = f + (IF ok THEN 1 ELSE 0)
    OBVIOUS
  <2>3. f \in Nat /\ n \in Nat /\ Chunk \in Nat /\ f * Chunk \in Nat /\ n * Chunk \in Nat /\ n * Chunk = f * Chunk + add
    <3>1. f \in Nat /\ Chunk \in Nat
      BY <2>1, CallTyped, StreamTyped
    <3>2. CASE ok
      <4>1. n = f + 1
        BY <2>2, <3>2
      <4>2. (f + 1) * Chunk = f * Chunk + Chunk
        BY <3>1
      <4> QED
        BY <3>1, <3>2, <4>1, <4>2
    <3>3. CASE ~ok
      <4>1. n = f
        BY <2>2, <3>1, <3>3
      <4> QED
        BY <3>1, <3>3, <4>1
    <3> QED
      BY <3>2, <3>3
  <2>4. PICK h : h = [stream EXCEPT !.heard = IF ok THEN @ + Chunk ELSE @]
    OBVIOUS
  <2>5. add \in Nat
    BY <2>3
  <2>6. /\ h \in StreamRecord /\ h.open = stream.open /\ h.cached = stream.cached
        /\ h.received = stream.received /\ h.pending = stream.pending
        /\ h.taken = stream.taken /\ h.heard = stream.heard + add
    <3>1. CASE ok
      <4>1. h = [open |-> stream.open, cached |-> stream.cached, received |-> stream.received,
                 pending |-> stream.pending, taken |-> stream.taken, heard |-> stream.heard + Chunk]
        BY <2>4, <3>1, StreamTyped
      <4> QED
        BY <3>1, <4>1, StreamTyped DEF StreamRecord
    <3>2. CASE ~ok
      <4>1. h = stream
        BY <2>4, <3>2, StreamTyped
      <4> QED
        BY <3>2, <4>1, StreamTyped
    <3> QED
      BY <3>1, <3>2
  <2>7. call[s].method = "push" /\ UNCHANGED <<loaded, model>>
    BY <1>11 DEF EndPush
  <2>8. failures' = 0 => h.heard = IF family = "asr" THEN stream.taken ELSE stream.taken + n * Chunk
    <3> SUFFICES ASSUME failures' = 0 PROVE h.heard = IF family = "asr" THEN stream.taken ELSE stream.taken + n * Chunk
      OBVIOUS
    <3>1. ok /\ failures = 0
      BY <1>3
    <3>2. stream.heard = IF family = "asr" THEN stream.taken - Chunk ELSE stream.taken + f * Chunk
      BY <1>1, <2>1, <2>7, <3>1 DEF CallsInv, StreamKnown
    <3>3. add = Chunk
      BY <3>1
    <3> HIDE DEF add
    <3> QED
      BY <2>3, <2>6, <3>2, <3>3, StreamTyped
  <2> HIDE DEF add
  <2>9. CASE out = "done" /\ call' = [call EXCEPT ![s].frames = n] /\ UNCHANGED queue /\ stream' = TakeChunk(h)
    <3>1. PICK r \in CallRecord :
            /\ SetFrames(s, n) = [call EXCEPT ![s] = r]
            /\ r.task = call[s].task /\ r.id = call[s].id /\ r.method = call[s].method /\ r.frames = n
      BY <1>5, <2>3, TaskSet
    <3>2. call' = [call EXCEPT ![s] = r]
      BY <2>9, <3>1 DEF SetFrames
    <3>3. call'[s] = r /\ \A t \in Slots : t # s => call'[t] = call[t]
      BY <3>2 DEF CallsInv, CallsTyped
    <3>4. Runs(s)' /\ \A t \in Slots : t # s => ~Runs(t)'
      BY <1>1, <1>2, <3>1, <3>3 DEF Runs
    <3>5. PICK x : x = TakeChunk(h)
      OBVIOUS
    <3>6. /\ x \in StreamRecord /\ x.open = stream.open /\ x.cached = stream.cached /\ x.heard = h.heard
          /\ x.received = x.pending + x.taken
          /\ x.taken = IF family = "asr" THEN stream.taken + Chunk ELSE stream.taken
      <4>1. CASE family = "asr"
        <5>1. x = [h EXCEPT !.pending = @ - Chunk, !.taken = @ + Chunk]
          BY <3>5, <4>1 DEF TakeChunk
        <5>2. x = [open |-> h.open, cached |-> h.cached, received |-> h.received,
                   pending |-> h.pending - Chunk, taken |-> h.taken + Chunk, heard |-> h.heard]
          BY <2>6, <5>1 DEF StreamRecord
        <5> QED
          BY <2>6, <4>1, <5>2, StreamTyped DEF StreamRecord
      <4>2. CASE family # "asr"
        BY <2>6, <3>5, <4>2, StreamTyped DEF TakeChunk
      <4> QED
        BY <4>1, <4>2
    <3>7. StreamKnown'
      <4>1. failures' = 0 => x.heard = IF family = "asr" THEN x.taken - Chunk ELSE x.taken + n * Chunk
        BY <2>3, <2>8, <3>6, StreamTyped
      <4> QED
        BY <1>1, <2>7, <2>9, <3>1, <3>3, <3>4, <3>5, <3>6, <4>1 DEF StreamKnown
    <3>8. LoadedKnown'
      BY <1>7, <2>7, <2>9, <3>5, <3>6, StreamTyped DEF LoadedKnown
    <3>9. loaded' \in BOOLEAN /\ model' \in BOOLEAN /\ stream' \in StreamRecord
      BY <2>7, <2>9, <3>5, <3>6 DEF CallsInv, CallsTyped
    <3>10. /\ r.task # "none" /\ ~(r.task \in {"queued", "cancelling"})
      BY <1>1, <3>1 DEF Runs
    <3> QED
      BY <1>1, <1>2, <1>3, <2>9, <3>1, <3>2, <3>7, <3>8, <3>9, <3>10, CallKeeps
  <2>10. CASE /\ call' = [call EXCEPT ![s].frames = n, ![s].task = out]
              /\ queue' = RemoveFirst(queue, s) /\ stream' = Consumed(h, n)
    <3>1. PICK r \in CallRecord :
            /\ SetBoth(s, n, out) = [call EXCEPT ![s] = r]
            /\ r.task = out /\ r.id = call[s].id
      BY <1>5, <2>3, TaskSet
    <3>2. call' = [call EXCEPT ![s] = r]
      BY <2>10, <3>1 DEF SetBoth
    <3>3. PICK x : x = Consumed(h, n)
      OBVIOUS
    <3>4. family \in {"asr", "vad"}
      BY DEF CallsInv, CallsTyped
    <3>5. /\ x \in StreamRecord /\ x.open = stream.open /\ x.cached = stream.cached /\ x.heard = h.heard
          /\ x.received = x.pending + x.taken
          /\ x.taken = IF family = "asr" THEN stream.taken ELSE stream.taken + n * Chunk
      <4>1. CASE family = "vad"
        <5>1. PICK m : m = n * Chunk
          OBVIOUS
        <5>2. m \in Nat
          BY <2>3, <5>1
        <5>3. x = [h EXCEPT !.pending = @ - m, !.taken = @ + m]
          BY <3>3, <4>1, <5>1 DEF Consumed
        <5>4. x = [open |-> h.open, cached |-> h.cached, received |-> h.received,
                   pending |-> h.pending - m, taken |-> h.taken + m, heard |-> h.heard]
          BY <2>6, <5>3 DEF StreamRecord
        <5> QED
          BY <2>6, <4>1, <5>1, <5>2, <5>4, StreamTyped DEF StreamRecord
      <4>2. CASE family = "asr"
        BY <2>6, <3>3, <4>2, StreamTyped DEF Consumed
      <4> QED
        BY <3>4, <4>1, <4>2
    <3>6. failures' = 0 => x.heard = x.taken
      BY <2>8, <3>5
    <3>7. loaded' \in BOOLEAN /\ model' = loaded' /\ (x.open => loaded' /\ x.cached)
      BY <1>7, <2>7, <3>5, StreamTyped
    <3> QED
      BY <1>1, <1>2, <1>3, <1>5, <2>10, <3>1, <3>2, <3>3, <3>5, <3>6, <3>7, CallEnds
  <2> QED
    BY <1>4, <1>11, <2>1, <2>2, <2>4, <2>9, <2>10 DEF EndPush
<1> QED
  BY <1>9, <1>10, <1>11 DEF NativeEnds

LEMMA CallsGo == CallsInv /\ [CallsNext]_callVars => CallsInv'
<1> SUFFICES ASSUME CallsInv, [CallsNext]_callVars PROVE CallsInv'
  OBVIOUS
<1>1. ASSUME UNCHANGED callVars PROVE CallsInv'
  <2>1. UNCHANGED <<family, call, tasks, queue, loaded, model, stream, failures>>
    BY <1>1 DEF callVars
  <2>2. CallsTyped' /\ IdsKnown' /\ RunsAtHead' /\ \A s \in Slots : CallKnows(s)'
    BY <2>1 DEF CallsInv, CallsTyped, IdsKnown, RunsAtHead, CallKnows, Runs
  <2>3. StreamKnown' /\ LoadedKnown'
    BY <2>1 DEF CallsInv, StreamKnown, LoadedKnown, Runs
  <2> QED
    BY <2>2, <2>3 DEF CallsInv
<1> QED
  BY <1>1, MakeCallGoes, CancelGoes, DeadlineGoes, AnswerGoes, RetireGoes, LeaveGoes, StartGoes, NativeGoes
     DEF CallsNext

\* A cancelled call that waits for the adapter does not run next.
LEMMA StaysOut ==
    ASSUME CallsInv, [CallsNext]_callVars, NEW s \in Slots, call[s].task = "cancelling"
    PROVE  s \notin Native'
<1>1. ASSUME NEW t \in Slots, t # s, NEW r, call' = [call EXCEPT ![t] = r] PROVE s \notin Native'
  BY <1>1, CallTyped DEF Native
<1>2. ASSUME NEW t \in Slots, t # s, NEW task, call' = [call EXCEPT ![t].task = task] PROVE s \notin Native'
  BY <1>2, CallTyped DEF Native
<1>3. CASE UNCHANGED call
  BY <1>3 DEF Native
<1>4. ASSUME NEW t \in Slots, NEW i \in Ids, NEW m \in Methods, NEW n \in 0..(2 * Chunk), MakeCall(t, i, m, n)
      PROVE  s \notin Native'
  <2>1. t # s
    BY <1>4 DEF MakeCall, NoCall
  <2> QED
    BY <1>1, <1>3, <1>4, <2>1 DEF MakeCall
<1>5. PICK b : b = Broken(call[s])
  OBVIOUS
<1>6. b.task = "cancelling" /\ [b EXCEPT !.answer = "deadline"].task = "cancelling"
  <2>1. PICK o : o = call[s]
    OBVIOUS
  <2>2. o = [id |-> o.id, method |-> o.method, amount |-> o.amount, task |-> "cancelling", event |-> o.event,
             answer |-> o.answer, frames |-> o.frames]
    BY <2>1, CallTyped
  <2> QED
    BY <1>5, <2>1, <2>2 DEF Broken
<1>7. ASSUME NEW i \in Ids, CancelCall(i) PROVE s \notin Native'
  <2>1. call' = [call EXCEPT ![tasks[i]] = Broken(call[tasks[i]])] /\ tasks[i] \in Slots
    BY <1>7 DEF CancelCall, CallsInv, CallsTyped
  <2>2. CASE tasks[i] = s
    <3>1. call'[s] = b
      BY <1>5, <2>1, <2>2, CallTyped
    <3> QED
      BY <1>6, <3>1 DEF Native
  <2> QED
    BY <1>1, <2>1, <2>2
<1>8. CASE Deadline(s)
  <2>1. PICK r : r = [b EXCEPT !.answer = "deadline"]
    OBVIOUS
  <2>2. call'[s] = r
    BY <1>5, <1>8, <2>1, CallTyped DEF Deadline
  <2> QED
    BY <1>6, <2>1, <2>2 DEF Native
<1>9. ASSUME NEW t \in Slots, t # s, Deadline(t) PROVE s \notin Native'
  BY <1>1, <1>9 DEF Deadline
<1>10. ASSUME NEW t \in Slots, AnswerCall(t) PROVE s \notin Native'
  <2>1. call'[s].task = call[s].task
    BY <1>10, CallTyped DEF AnswerCall
  <2> QED
    BY <2>1 DEF Native
<1>11. ASSUME NEW t \in Slots, Retire(t) PROVE s \notin Native'
  <2>1. t # s
    BY <1>11 DEF Retire, Ended
  <2> QED
    BY <1>1, <1>11, <2>1 DEF Retire
<1>12. ASSUME NEW t \in Slots, Leave(t) PROVE s \notin Native'
  <2>1. CASE t = s
    BY <1>12, <2>1, CallTyped DEF Leave, Native
  <2> QED
    BY <1>2, <1>12, <2>1 DEF Leave
<1>13. ASSUME NEW t \in Slots, StartCall(t) PROVE s \notin Native'
  <2>1. t # s
    BY <1>13 DEF StartCall
  <2>2. \E task : call' = [call EXCEPT ![t].task = task]
    BY <1>13 DEF StartCall, StartLoad, StartUnload, StartOpen, StartPush, StartClose, Finish, GoNative
  <2> QED
    BY <1>2, <2>1, <2>2
<1>14. ASSUME NEW t \in Slots, NEW ok \in BOOLEAN, NativeEnds(t, ok) PROVE s \notin Native'
  <2>1. t # s
    BY <1>14 DEF NativeEnds, Native
  <2>2. call'[s] = call[s]
    BY <1>14, <2>1, CallTyped DEF NativeEnds, EndLoad, EndOpen, EndPush, Finish
  <2> QED
    BY <2>2 DEF Native
<1>15. CASE UNCHANGED callVars
  BY <1>3, <1>15 DEF callVars
<1> QED
  BY <1>4, <1>7, <1>8, <1>9, <1>10, <1>11, <1>12, <1>13, <1>14, <1>15 DEF CallsNext

-----------------------------------------------------------------------------
(* Environments.                                                            *)

Changing == {"moving", "removing"}
Working == {"ensuring", "repairing", "moving", "building", "publishing", "published", "cleaning", "removing"}
Holding == {"leased", "spawning", "running", "stopping"}
Versions == 1..(MaxUpdates + 1)
Directory == [version : Versions, place : {"staging", "target", "backup", "gone"},
              state : {"building", "complete", "damaged", "removing"}]

PublishersTyped ==
    publisher \in [Publishers -> [at : {"idle", "waiting"} \cup Working,
                                  job : {"none", "ensure", "repair", "cleanup"},
                                  dir : Nat, todo : SUBSET Directories]]
WorkersTyped ==
    worker \in [Workers -> [at : {"off", "resolved"} \cup Holding, version : {0} \cup Versions,
                            dir : Nat, cancelled : BOOLEAN]]

\* A publisher changes directories under the lock file of the worker only, and what it
\* changes is locked for it.
PublisherKnows(p) ==
    LET d == publisher[p].dir IN
    /\ publisher[p].at \in Working => publishing = p
    /\ publisher[p].at \in Changing => d \in exclusive
    /\ publisher[p].at = "removing" => directories[d].state = "removing"
    /\ publisher[p].at = "moving" => directories[d].state # "removing"
    /\ publisher[p].at \in {"building", "publishing"} =>
         /\ d \in Directories /\ directories[d].place = "staging"
         /\ directories[d].state = IF publisher[p].at = "building" THEN "building" ELSE "complete"
LockedByPublisher ==
    \A d \in exclusive :
        /\ publishing \in Publishers /\ publisher[publishing].at \in Changing
        /\ publisher[publishing].dir = d /\ ~Pinned(d)
RemovingIsLocked ==
    \A d \in Directories : directories[d].state = "removing" => d \in exclusive \/ directories[d].place = "gone"

\* A process runs from the directory that its worker has pinned.
WorkerKnows(w) ==
    LET d == worker[w].dir IN
    /\ alive[w] # 0 => worker[w].at \in {"running", "stopping"} /\ (w \notin late => alive[w] = d)
    /\ worker[w].at \in Holding /\ w \notin late =>
         /\ d \in Directories /\ <<d, w>> \in shared
         /\ directories[d].place = "target" /\ directories[d].version = worker[w].version
    /\ IF worker[w].at \in Holding THEN worker[w].version \in Versions ELSE w \notin late
LeasesTyped ==
    \A d \in Directories, w \in Workers : <<d, w>> \in shared =>
        worker[w].at \in Holding /\ w \notin late /\ worker[w].dir = d

EnvironmentsInv ==
    /\ directories \in Seq(Directory) /\ Len(directories) <= MaxDirectories
    /\ EnvironmentTypeOK /\ PublishersTyped /\ WorkersTyped
    /\ \A p \in Publishers : PublisherKnows(p)
    /\ LockedByPublisher /\ RemovingIsLocked /\ PublishedOnce
    /\ \A w \in Workers : WorkerKnows(w)
    /\ LeasesTyped

LEMMA EnvironmentsStart == EnvironmentsInit => EnvironmentsInv
<1> SUFFICES ASSUME EnvironmentsInit PROVE EnvironmentsInv
  OBVIOUS
<1>1. PICK d : d = [version |-> 1, place |-> "target", state |-> "complete"]
  OBVIOUS
<1>2. d \in Directory
  BY <1>1, EnvironmentsAssumption DEF Directory, Versions
<1>3. directories = <<d>>
  BY <1>1 DEF EnvironmentsInit
<1>4. directories \in Seq(Directory) /\ Len(directories) = 1 /\ DOMAIN directories = {1} /\ directories[1] = d
  BY <1>2, <1>3
<1>5. EnvironmentTypeOK
  BY <1>2, <1>4, EnvironmentsAssumption DEF EnvironmentsInit, EnvironmentTypeOK, Directory, Versions
<1>6. PublishersTyped /\ WorkersTyped
  BY DEF EnvironmentsInit, PublishersTyped, WorkersTyped, NoJob, NotStarted
<1>7. \A p \in Publishers : PublisherKnows(p)
  BY DEF EnvironmentsInit, PublisherKnows, NoJob, Working, Changing
<1>8. LockedByPublisher /\ RemovingIsLocked /\ PublishedOnce
  BY <1>1, <1>4 DEF EnvironmentsInit, LockedByPublisher, RemovingIsLocked, PublishedOnce, Directories
<1>9. (\A w \in Workers : WorkerKnows(w)) /\ LeasesTyped
  BY DEF EnvironmentsInit, WorkerKnows, LeasesTyped, NotStarted, Holding
<1> QED
  BY <1>4, <1>5, <1>6, <1>7, <1>8, <1>9, EnvironmentsAssumption DEF EnvironmentsInv

LEMMA EnvironmentsHold ==
    EnvironmentsInv => EnvironmentTypeOK /\ LiveEnvironmentStays /\ PublishedOnce /\ PinsEnd
<1> SUFFICES ASSUME EnvironmentsInv PROVE LiveEnvironmentStays /\ PinsEnd
  BY DEF EnvironmentsInv
<1>1. ASSUME NEW w \in Workers, alive[w] # 0, w \notin late
      PROVE  directories[alive[w]].place = "target" /\ directories[alive[w]].state # "removing"
  <2>1. PICK d : d = alive[w]
    OBVIOUS
  <2>2. d \in Directories /\ <<d, w>> \in shared /\ directories[d].place = "target"
    BY <1>1, <2>1 DEF EnvironmentsInv, WorkerKnows, Holding
  <2>3. d \notin exclusive
    BY <2>2 DEF EnvironmentsInv, LockedByPublisher, Pinned
  <2> QED
    BY <2>1, <2>2, <2>3 DEF EnvironmentsInv, RemovingIsLocked
<1>2. ASSUME NEW w \in Workers, worker[w] = NotStarted
      PROVE  alive[w] = 0 /\ Unpinned(w) = shared
  <2>1. worker[w].at = "off"
    BY <1>2 DEF NotStarted
  <2>2. alive[w] = 0
    BY <2>1 DEF EnvironmentsInv, WorkerKnows
  <2>3. \A l \in shared : l[2] # w
    <3>1. shared \subseteq Directories \X Workers
      BY DEF EnvironmentsInv, EnvironmentTypeOK, Directories
    <3>2. \A d \in Directories : <<d, w>> \notin shared
      BY <2>1 DEF EnvironmentsInv, LeasesTyped, Holding
    <3> QED
      BY <3>1, <3>2
  <2> QED
    BY <2>2, <2>3 DEF Unpinned
<1> QED
  BY <1>1, <1>2 DEF LiveEnvironmentStays, PinsEnd

\* Only the publisher that has the lock file is at work, and it locks one directory.
LEMMA AtWork ==
    ASSUME EnvironmentsInv, NEW p \in Publishers
    PROVE  /\ publisher[p].at \in Working =>
                /\ publishing = p /\ \A q \in Publishers : q # p => publisher[q].at \notin Working
                /\ exclusive = IF publisher[p].at \in Changing THEN {publisher[p].dir} ELSE {}
           /\ publishing = Nobody => exclusive = {} /\ \A q \in Publishers : publisher[q].at \notin Working
<1>1. /\ \A q \in Publishers : PublisherKnows(q)
      /\ LockedByPublisher
  BY DEF EnvironmentsInv
<1>2. Nobody \notin Publishers
  BY EnvironmentsAssumption DEF Nobody
<1>3. ASSUME publisher[p].at \in Working
      PROVE  /\ publishing = p /\ \A q \in Publishers : q # p => publisher[q].at \notin Working
             /\ exclusive = IF publisher[p].at \in Changing THEN {publisher[p].dir} ELSE {}
  BY <1>1, <1>3 DEF PublisherKnows, LockedByPublisher
<1>4. ASSUME publishing = Nobody
      PROVE  exclusive = {} /\ \A q \in Publishers : publisher[q].at \notin Working
  BY <1>1, <1>2, <1>4 DEF PublisherKnows, LockedByPublisher
<1> QED
  BY <1>3, <1>4

\* The leases hold while no pinned directory changes.
LEMMA LeasesKept ==
    ASSUME EnvironmentsInv, UNCHANGED processVars,
           \A d \in Directories : d \in Directories' /\ (Pinned(d) => directories'[d] = directories[d])
    PROVE  (\A w \in Workers : WorkerKnows(w)') /\ LeasesTyped' /\ WorkersTyped'
<1>1. UNCHANGED <<shared, worker, alive, late>>
  BY DEF processVars
<1>2. ASSUME NEW w \in Workers PROVE WorkerKnows(w)'
  <2>1. PICK d : d = worker[w].dir
    OBVIOUS
  <2>2. WorkerKnows(w)
    BY DEF EnvironmentsInv
  <2>3. <<d, w>> \in shared => Pinned(d)
    BY DEF Pinned
  <2> QED
    BY <1>1, <2>1, <2>2, <2>3 DEF WorkerKnows
<1>3. LeasesTyped'
  <2>1. shared \subseteq Directories \X Workers
    BY DEF EnvironmentsInv, EnvironmentTypeOK, Directories
  <2> QED
    BY <1>1, <2>1 DEF EnvironmentsInv, LeasesTyped
<1>4. WorkersTyped'
  BY <1>1 DEF EnvironmentsInv, WorkersTyped
<1> QED
  BY <1>2, <1>3, <1>4

\* What a step of a publisher has to keep.
LEMMA PublisherKeeps ==
    ASSUME EnvironmentsInv, NEW p \in Publishers, NEW r, publisher' = [publisher EXCEPT ![p] = r],
           publishing \in {p, Nobody} \/ UNCHANGED <<publishing, directories, exclusive>>,
           publishing' \in Publishers \cup {Nobody}, UNCHANGED <<processVars, source>>, mishaps' \in 0..MaxMishaps,
           r \in [at : {"idle", "waiting"} \cup Working, job : {"none", "ensure", "repair", "cleanup"},
                 dir : Nat, todo : SUBSET Directories'],
           directories' \in Seq(Directory), Len(directories') <= MaxDirectories,
           exclusive' \subseteq Directories',
           \A d \in Directories : d \in Directories' /\ (Pinned(d) => directories'[d] = directories[d]),
           PublisherKnows(p)', LockedByPublisher', RemovingIsLocked', PublishedOnce'
    PROVE  EnvironmentsInv'
<1>1. (\A w \in Workers : WorkerKnows(w)') /\ LeasesTyped' /\ WorkersTyped'
  BY LeasesKept
<1>2. /\ \A q \in Publishers : q # p => publisher'[q] = publisher[q]
      /\ publisher'[p] = r /\ DOMAIN publisher' = Publishers
  BY DEF EnvironmentsInv, PublishersTyped
<1>3. PublishersTyped'
  <2>1. Directories \subseteq Directories'
    OBVIOUS
  <2>2. \A q \in Publishers : q # p =>
           publisher[q] \in [at : {"idle", "waiting"} \cup Working,
                             job : {"none", "ensure", "repair", "cleanup"}, dir : Nat, todo : SUBSET Directories']
    BY <2>1 DEF EnvironmentsInv, PublishersTyped
  <2>3. publisher' = [q \in Publishers |-> publisher'[q]]
    BY DEF EnvironmentsInv, PublishersTyped
  <2> QED
    BY <1>2, <2>2, <2>3 DEF PublishersTyped
<1>4. ASSUME NEW q \in Publishers PROVE PublisherKnows(q)'
  <2>1. CASE q # p /\ publisher[q].at \in Working
    <3>1. publishing = q /\ q # Nobody
      BY <2>1, AtWork, EnvironmentsAssumption DEF Nobody
    <3>2. UNCHANGED <<publishing, directories, exclusive>>
      BY <2>1, <3>1
    <3>3. PublisherKnows(q)
      BY DEF EnvironmentsInv
    <3> QED
      BY <1>2, <2>1, <3>2, <3>3 DEF PublisherKnows, Directories
  <2>2. CASE q # p /\ publisher[q].at \notin Working
    BY <1>2, <2>2 DEF PublisherKnows, Working, Changing
  <2> QED
    BY <2>1, <2>2
<1>5. EnvironmentTypeOK'
  <2>1. /\ source \in 1..(MaxUpdates + 1) /\ shared \subseteq Directories \X Workers
        /\ alive \in [Workers -> 0..MaxDirectories] /\ late \subseteq Workers
    BY DEF EnvironmentsInv, EnvironmentTypeOK, Directories
  <2>2. UNCHANGED <<source, shared, alive, late>>
    BY DEF processVars
  <2>3. \A d \in Directories' : directories'[d] \in Directory
    BY DEF Directories
  <2>4. shared' \subseteq Directories' \X Workers
    BY <2>1, <2>2
  <2> QED
    BY <2>1, <2>2, <2>3, <2>4 DEF EnvironmentTypeOK, Directories, Directory, Versions
<1> QED
  BY <1>1, <1>3, <1>4, <1>5 DEF EnvironmentsInv

LEMMA PublisherTyped ==
    ASSUME EnvironmentsInv, NEW p \in Publishers
    PROVE  /\ publisher[p].at \in {"idle", "waiting"} \cup Working
           /\ publisher[p].job \in {"none", "ensure", "repair", "cleanup"}
           /\ publisher[p].dir \in Nat /\ publisher[p].todo \subseteq Directories
           /\ publisher[p] = [at |-> publisher[p].at, job |-> publisher[p].job,
                              dir |-> publisher[p].dir, todo |-> publisher[p].todo]
           /\ DOMAIN publisher = Publishers
           /\ directories \in Seq(Directory) /\ Len(directories) \in Nat /\ Directories = 1..Len(directories)
           /\ \A d \in Directories : d \in Nat /\ directories[d] \in Directory
           /\ mishaps \in 0..MaxMishaps /\ exclusive \subseteq Directories
           /\ publishing \in Publishers \cup {Nobody}
<1>1. publisher[p] \in [at : {"idle", "waiting"} \cup Working, job : {"none", "ensure", "repair", "cleanup"},
                        dir : Nat, todo : SUBSET Directories]
      /\ DOMAIN publisher = Publishers
  BY DEF EnvironmentsInv, PublishersTyped
<1>2. directories \in Seq(Directory) /\ Len(directories) \in Nat /\ Directories = 1..Len(directories)
  BY DEF EnvironmentsInv, Directories
<1>3. mishaps \in 0..MaxMishaps /\ exclusive \subseteq Directories /\ publishing \in Publishers \cup {Nobody}
  BY DEF EnvironmentsInv, EnvironmentTypeOK, Directories
<1> QED
  BY <1>1, <1>2, <1>3

\* Steps that leave every directory as it is.
LEMMA PublisherWaits ==
    ASSUME EnvironmentsInv, NEW p \in Publishers, NEW r, publisher' = [publisher EXCEPT ![p] = r],
           publishing \in {p, Nobody} \/ UNCHANGED publishing,
           publishing' \in {publishing, p, Nobody}, UNCHANGED <<processVars, source, mishaps, directories, exclusive>>,
           r \in [at : {"idle", "waiting"} \cup Working, job : {"none", "ensure", "repair", "cleanup"},
                 dir : Nat, todo : SUBSET Directories],
           r.at \notin {"moving", "removing", "building", "publishing"},
           r.at \in Working => publishing' = p,
           exclusive # {} => publisher[p].at \notin Working /\ UNCHANGED publishing
    PROVE  EnvironmentsInv'
<1>1. PublisherKnows(p)'
  BY PublisherTyped DEF PublisherKnows, Changing
<1>2. LockedByPublisher'
  BY PublisherTyped DEF LockedByPublisher, EnvironmentsInv, Changing, Working, Pinned, processVars
<1>3. RemovingIsLocked' /\ PublishedOnce' /\ UNCHANGED Directories
  BY DEF EnvironmentsInv, RemovingIsLocked, PublishedOnce, Directories
<1>4. publishing' \in Publishers \cup {Nobody} /\ mishaps' \in 0..MaxMishaps
      /\ exclusive' \subseteq Directories' /\ directories' \in Seq(Directory) /\ Len(directories') <= MaxDirectories
  BY <1>3, PublisherTyped DEF EnvironmentsInv
<1> QED
  BY <1>1, <1>2, <1>3, <1>4, PublisherKeeps

LEMMA EnsureCalled ==
    ASSUME EnvironmentsInv, NEW p \in Publishers, CallEnsure(p) \/ Enter(p) \/ Published(p)
    PROVE  EnvironmentsInv'
<1>1. CASE CallEnsure(p)
  <2>1. PICK job \in {"ensure", "repair", "cleanup"} :
          publisher' = [publisher EXCEPT ![p].at = "waiting", ![p].job = job]
    BY <1>1 DEF CallEnsure
  <2>3. PICK o : o = publisher[p]
    OBVIOUS
  <2>4. PICK r : r = [o EXCEPT !.at = "waiting", !.job = job]
    OBVIOUS
  <2>5. publisher' = [publisher EXCEPT ![p] = r]
    BY <2>1, <2>3, <2>4, PublisherTyped
  <2>6. /\ o = [at |-> o.at, job |-> o.job, dir |-> o.dir, todo |-> o.todo]
        /\ o.job \in {"none", "ensure", "repair", "cleanup"} /\ o.dir \in Nat /\ o.todo \subseteq Directories
    BY <2>3, PublisherTyped
  <2>7. r = [at |-> "waiting", job |-> job, dir |-> o.dir, todo |-> o.todo]
    BY <2>4, <2>6
  <2>8. r \in [at : {"idle", "waiting"} \cup Working, job : {"none", "ensure", "repair", "cleanup"},
                 dir : Nat, todo : SUBSET Directories] /\ r.at = "waiting"
    BY <2>6, <2>7 DEF Working
  <2>9. publisher[p].at \notin Working
    BY <1>1 DEF CallEnsure, NoJob, Working
  <2>10. UNCHANGED <<source, directories, publishing, exclusive, processVars, mishaps>>
    BY <1>1 DEF CallEnsure
  <2> QED
    BY <2>5, <2>8, <2>9, <2>10, PublisherWaits DEF Working
<1>2. CASE Enter(p)
  <2> DEFINE todo == IF publisher[p].job = "cleanup" THEN Obsolete("cleanup") ELSE {}
             where == IF publisher[p].job = "cleanup" THEN "cleaning"
                      ELSE IF publisher[p].job = "repair" THEN "repairing" ELSE "ensuring"
  <2>1. publisher' = [publisher EXCEPT ![p].at = where, ![p].todo = todo]
    BY <1>2 DEF Enter
  <2>2. todo \subseteq Directories /\ where \in {"cleaning", "repairing", "ensuring"}
    BY DEF Obsolete
  <2> HIDE DEF todo, where
  <2>3. PICK o : o = publisher[p]
    OBVIOUS
  <2>4. PICK r : r = [o EXCEPT !.at = where, !.todo = todo]
    OBVIOUS
  <2>5. publisher' = [publisher EXCEPT ![p] = r]
    BY <2>1, <2>3, <2>4, PublisherTyped
  <2>6. /\ o = [at |-> o.at, job |-> o.job, dir |-> o.dir, todo |-> o.todo]
        /\ o.job \in {"none", "ensure", "repair", "cleanup"} /\ o.dir \in Nat /\ o.todo \subseteq Directories
    BY <2>3, PublisherTyped
  <2>7. r = [at |-> where, job |-> o.job, dir |-> o.dir, todo |-> todo]
    BY <2>4, <2>6
  <2>8. r \in [at : {"idle", "waiting"} \cup Working, job : {"none", "ensure", "repair", "cleanup"},
                 dir : Nat, todo : SUBSET Directories] /\ r.at = where
    BY <2>6, <2>7, <2>2 DEF Working
  <2>9. publishing = Nobody /\ publishing' = p /\ exclusive = {}
    BY <1>2, AtWork DEF Enter
  <2>10. UNCHANGED <<source, directories, exclusive, processVars, mishaps>>
    BY <1>2 DEF Enter
  <2> QED
    BY <2>2, <2>5, <2>8, <2>9, <2>10, PublisherWaits
<1>3. CASE Published(p)
  <2>1. publisher' = [publisher EXCEPT ![p].at = "cleaning", ![p].todo = Obsolete("ensure")]
    BY <1>3 DEF Published, Cleaning
  <2>2. Obsolete("ensure") \subseteq Directories
    BY DEF Obsolete
  <2>3. PICK o : o = publisher[p]
    OBVIOUS
  <2>4. PICK r : r = [o EXCEPT !.at = "cleaning", !.todo = Obsolete("ensure")]
    OBVIOUS
  <2>5. publisher' = [publisher EXCEPT ![p] = r]
    BY <2>1, <2>3, <2>4, PublisherTyped
  <2>6. /\ o = [at |-> o.at, job |-> o.job, dir |-> o.dir, todo |-> o.todo]
        /\ o.job \in {"none", "ensure", "repair", "cleanup"} /\ o.dir \in Nat /\ o.todo \subseteq Directories
    BY <2>3, PublisherTyped
  <2>7. r = [at |-> "cleaning", job |-> o.job, dir |-> o.dir, todo |-> Obsolete("ensure")]
    BY <2>4, <2>6
  <2>8. r \in [at : {"idle", "waiting"} \cup Working, job : {"none", "ensure", "repair", "cleanup"},
                 dir : Nat, todo : SUBSET Directories] /\ r.at = "cleaning"
    BY <2>6, <2>7, <2>2 DEF Working
  <2>9. publishing = p /\ exclusive = {}
    BY <1>3, AtWork DEF Published, PublisherAt, Working, Changing
  <2>10. UNCHANGED <<source, directories, publishing, exclusive, processVars, mishaps>>
    BY <1>3 DEF Published
  <2> QED
    BY <2>5, <2>8, <2>9, <2>10, PublisherWaits
<1> QED
  BY <1>1, <1>2, <1>3

LEMMA PublisherLeaves ==
    ASSUME EnvironmentsInv, NEW p \in Publishers, publishing = p, exclusive = {}, PublisherReturns(p),
           UNCHANGED <<processVars, source, mishaps, directories, exclusive>>
    PROVE  EnvironmentsInv'
<1>1. NoJob \in [at : {"idle", "waiting"} \cup Working, job : {"none", "ensure", "repair", "cleanup"},
                 dir : Nat, todo : SUBSET Directories] /\ NoJob.at = "idle"
  BY DEF NoJob
<1> QED
  BY <1>1, PublisherWaits DEF PublisherReturns, Working

\* One directory changes.
LEMMA DirectoryChanges ==
    ASSUME EnvironmentsInv, NEW d \in Directories, NEW x \in Directory,
           directories' = [directories EXCEPT ![d] = x]
    PROVE  /\ directories' \in Seq(Directory) /\ Len(directories') <= MaxDirectories
           /\ UNCHANGED Directories
           /\ directories'[d] = x /\ \A e \in Directories : e # d => directories'[e] = directories[e]
           /\ (x.place = "target" => x.state # "building" /\ TargetOf(x.version) \subseteq {d}) => PublishedOnce'
<1>1. /\ directories \in Seq(Directory) /\ Len(directories) \in Nat /\ Directories = 1..Len(directories)
      /\ Len(directories) <= MaxDirectories
  BY DEF EnvironmentsInv, Directories
<1>2. directories' \in Seq(Directory) /\ Len(directories') = Len(directories)
  BY <1>1
<1>3. UNCHANGED Directories
  BY <1>1, <1>2 DEF Directories
<1>4. directories'[d] = x /\ \A e \in Directories : e # d => directories'[e] = directories[e]
  BY <1>1 DEF Directories
<1>5. ASSUME x.place = "target" => x.state # "building" /\ TargetOf(x.version) \subseteq {d}
      PROVE  PublishedOnce'
  <2>1. ASSUME NEW e \in Directories, NEW f \in Directories, directories'[e].place = "target"
        PROVE  /\ directories'[e].state # "building"
               /\ (directories'[f].place = "target" /\ directories'[f].version = directories'[e].version) => e = f
    <3>1. PublishedOnce
      BY DEF EnvironmentsInv
    <3>2. CASE e # d /\ f # d
      BY <1>4, <2>1, <3>1, <3>2 DEF PublishedOnce
    <3>3. CASE e = d
      BY <1>4, <1>5, <2>1, <3>3 DEF TargetOf
    <3>4. CASE f = d /\ e # d
      BY <1>4, <1>5, <2>1, <3>1, <3>4 DEF TargetOf, PublishedOnce
    <3> QED
      BY <3>2, <3>3, <3>4
  <2> QED
    BY <1>3, <2>1 DEF PublishedOnce
<1> QED
  BY <1>1, <1>2, <1>3, <1>4, <1>5

LEMMA RepairGoes ==
    ASSUME EnvironmentsInv, NEW p \in Publishers, Repair(p)
    PROVE  EnvironmentsInv'
<1>1. publishing = p /\ exclusive = {} /\ publisher[p].at = "repairing"
  BY AtWork DEF Repair, PublisherAt, Working, Changing
<1>2. UNCHANGED <<source, directories, processVars, mishaps>>
  BY DEF Repair
<1>3. CASE PublisherReturns(p) /\ UNCHANGED exclusive
  BY <1>1, <1>2, <1>3, PublisherLeaves
<1>4. CASE PublisherGoes(p, "ensuring") /\ UNCHANGED <<publishing, exclusive>>
  <2>1. publisher' = [publisher EXCEPT ![p].at = "ensuring"]
    BY <1>4 DEF PublisherGoes
  <2>2. PICK o : o = publisher[p]
    OBVIOUS
  <2>3. PICK r : r = [o EXCEPT !.at = "ensuring"]
    OBVIOUS
  <2>4. publisher' = [publisher EXCEPT ![p] = r]
    BY <2>1, <2>2, <2>3, PublisherTyped
  <2>5. /\ o = [at |-> o.at, job |-> o.job, dir |-> o.dir, todo |-> o.todo]
        /\ o.job \in {"none", "ensure", "repair", "cleanup"} /\ o.dir \in Nat /\ o.todo \subseteq Directories
    BY <2>2, PublisherTyped
  <2>6. r = [at |-> "ensuring", job |-> o.job, dir |-> o.dir, todo |-> o.todo]
    BY <2>3, <2>5
  <2>7. r \in [at : {"idle", "waiting"} \cup Working, job : {"none", "ensure", "repair", "cleanup"},
                 dir : Nat, todo : SUBSET Directories] /\ r.at = "ensuring" /\ r.dir = o.dir
    BY <2>5, <2>6 DEF Working
  <2> QED
    BY <1>1, <1>2, <1>4, <2>4, <2>7, PublisherWaits
<1>5. ASSUME NEW d \in TargetOf(source), directories[d].state # "complete", Available(d),
             exclusive' = exclusive \cup {d}, UNCHANGED publishing,
             publisher' = [publisher EXCEPT ![p].at = "moving", ![p].dir = d]
      PROVE  EnvironmentsInv'
  <2>1. d \in Directories /\ d \in Nat /\ directories[d].place = "target"
    BY PublisherTyped DEF TargetOf
  <2>2. PICK o : o = publisher[p]
    OBVIOUS
  <2>3. PICK r : r = [o EXCEPT !.at = "moving", !.dir = d]
    OBVIOUS
  <2>4. publisher' = [publisher EXCEPT ![p] = r]
    BY <1>5, <2>2, <2>3, PublisherTyped
  <2>5. /\ o = [at |-> o.at, job |-> o.job, dir |-> o.dir, todo |-> o.todo]
        /\ o.job \in {"none", "ensure", "repair", "cleanup"} /\ o.dir \in Nat /\ o.todo \subseteq Directories
    BY <2>2, PublisherTyped
  <2>6. r = [at |-> "moving", job |-> o.job, dir |-> d, todo |-> o.todo]
    BY <2>3, <2>5
  <2>7. r \in [at : {"idle", "waiting"} \cup Working, job : {"none", "ensure", "repair", "cleanup"},
                 dir : Nat, todo : SUBSET Directories] /\ r.at = "moving" /\ r.dir = d
    BY <2>5, <2>6, <2>1 DEF Working
  <2>8. publisher'[p] = r /\ exclusive' = {d} /\ UNCHANGED directories
    BY <1>1, <1>2, <1>5, <2>4, PublisherTyped
  <2>9. directories[d].state # "removing"
    BY <1>1, <2>1 DEF EnvironmentsInv, RemovingIsLocked
  <2>10. PublisherKnows(p)'
    BY <1>1, <1>5, <2>7, <2>8, <2>9 DEF PublisherKnows, Changing, Working
  <2>11. LockedByPublisher'
    BY <1>1, <1>2, <1>5, <2>7, <2>8 DEF LockedByPublisher, Changing, Pinned, Available, processVars
  <2>12. RemovingIsLocked' /\ PublishedOnce' /\ UNCHANGED Directories
    BY <1>5, <2>8 DEF EnvironmentsInv, RemovingIsLocked, PublishedOnce, Directories
  <2>13. /\ publishing' \in Publishers \cup {Nobody} /\ mishaps' \in 0..MaxMishaps /\ exclusive' \subseteq Directories'
         /\ directories' \in Seq(Directory) /\ Len(directories') <= MaxDirectories
    BY <1>2, <1>5, <2>1, <2>8, <2>12, PublisherTyped DEF EnvironmentsInv
  <2>14. \A e \in Directories : e \in Directories' /\ directories'[e] = directories[e]
    BY <1>2, <2>12
  <2> QED
    BY <1>1, <1>2, <2>4, <2>7, <2>10, <2>11, <2>12, <2>13, <2>14, PublisherKeeps
<1> QED
  BY <1>3, <1>4, <1>5 DEF Repair

LEMMA MoveGoes ==
    ASSUME EnvironmentsInv, NEW p \in Publishers, Move(p) \/ Removed(p)
    PROVE  EnvironmentsInv'
<1> DEFINE next == IF publisher[p].at = "moving" THEN "ensuring" ELSE "cleaning"
           place == IF publisher[p].at = "moving" THEN "backup" ELSE "gone"
<1>1. PICK d : d = publisher[p].dir
  OBVIOUS
<1>2. /\ publisher[p].at \in Changing /\ publishing = p /\ exclusive = {d} /\ d \in Directories
      /\ publisher[p].at = "moving" => directories[d].state # "removing"
      /\ ~Pinned(d)
  <2>1. publisher[p].at \in Changing /\ publisher[p].at \in Working
    BY DEF Move, Removed, PublisherAt, Changing, Working
  <2>2. publishing = p /\ exclusive = {d}
    BY <1>1, <2>1, AtWork
  <2>3. d \in Directories
    BY <2>2, PublisherTyped
  <2>4. PublisherKnows(p) /\ LockedByPublisher
    BY DEF EnvironmentsInv
  <2> QED
    BY <1>1, <2>1, <2>2, <2>3, <2>4 DEF PublisherKnows, LockedByPublisher
<1>3. UNCHANGED <<source, publishing, processVars, mishaps>> /\ exclusive' = {}
  BY <1>1, <1>2 DEF Move, Removed
<1>4. directories' = [directories EXCEPT ![d].place = place] /\ publisher' = [publisher EXCEPT ![p].at = next]
  BY <1>1 DEF Move, Removed, PublisherGoes, PublisherAt
<1>5. next \in {"ensuring", "cleaning"} /\ place \in {"backup", "gone"} /\ (place = "backup" => directories[d].state # "removing")
  BY <1>2
<1> HIDE DEF next, place
<1>6. EnvironmentsInv'
  <2>1. PICK o : o = publisher[p]
    OBVIOUS
  <2>2. PICK r : r = [o EXCEPT !.at = next]
    OBVIOUS
  <2>3. publisher' = [publisher EXCEPT ![p] = r]
    BY <1>4, <2>1, <2>2, PublisherTyped
  <2>4. /\ o = [at |-> o.at, job |-> o.job, dir |-> o.dir, todo |-> o.todo]
        /\ o.job \in {"none", "ensure", "repair", "cleanup"} /\ o.dir \in Nat /\ o.todo \subseteq Directories
    BY <2>1, PublisherTyped
  <2>5. r = [at |-> next, job |-> o.job, dir |-> o.dir, todo |-> o.todo]
    BY <2>2, <2>4
  <2>6. r \in [at : {"idle", "waiting"} \cup Working, job : {"none", "ensure", "repair", "cleanup"},
                 dir : Nat, todo : SUBSET Directories] /\ r.at = next /\ r.dir = o.dir
    BY <2>4, <2>5, <1>5 DEF Working
  <2>7. PICK b : b = directories[d]
    OBVIOUS
  <2>8. PICK x : x = [b EXCEPT !.place = place]
    OBVIOUS
  <2>9. b \in Directory
    BY <1>2, <2>7, PublisherTyped
  <2>10. x \in Directory /\ x.place = place /\ x.state = b.state
    BY <1>5, <2>8, <2>9 DEF Directory
  <2>11. directories' = [directories EXCEPT ![d] = x]
    BY <1>2, <1>4, <2>7, <2>8, PublisherTyped
  <2>12. /\ directories' \in Seq(Directory) /\ Len(directories') <= MaxDirectories /\ UNCHANGED Directories
         /\ directories'[d] = x /\ \A e \in Directories : e # d => directories'[e] = directories[e]
         /\ PublishedOnce'
    BY <1>2, <1>5, <2>10, <2>11, DirectoryChanges
  <2>13. RemovingIsLocked'
    BY <1>2, <1>3, <1>5, <2>7, <2>10, <2>12 DEF RemovingIsLocked, EnvironmentsInv
  <2>14. LockedByPublisher'
    BY <1>3 DEF LockedByPublisher
  <2>15. PublisherKnows(p)'
    BY <1>2, <1>3, <1>5, <2>3, <2>6, PublisherTyped DEF PublisherKnows, Changing
  <2>16. \A e \in Directories : e \in Directories' /\ (Pinned(e) => directories'[e] = directories[e])
    BY <1>2, <2>12
  <2>17. r \in [at : {"idle", "waiting"} \cup Working, job : {"none", "ensure", "repair", "cleanup"},
                 dir : Nat, todo : SUBSET Directories']
    BY <2>6, <2>12
  <2>18. publishing' \in Publishers \cup {Nobody} /\ exclusive' \subseteq Directories' /\ mishaps' \in 0..MaxMishaps
    BY <1>2, <1>3, PublisherTyped
  <2> QED
    BY <1>2, <1>3, <2>3, <2>12, <2>13, <2>14, <2>15, <2>16, <2>17, <2>18, PublisherKeeps
<1> QED
  BY <1>6

LEMMA PublishGoes ==
    ASSUME EnvironmentsInv, NEW p \in Publishers, PublishDirectory(p) \/ Build(p)
    PROVE  EnvironmentsInv'
<1>1. PICK d : d = publisher[p].dir
  OBVIOUS
<1>2. PICK b : b = directories[d]
  OBVIOUS
<1>3. /\ publisher[p].at \in {"building", "publishing"} /\ publishing = p /\ exclusive = {} /\ d \in Directories
      /\ b \in Directory /\ b.place = "staging"
      /\ b.state = IF publisher[p].at = "building" THEN "building" ELSE "complete"
  <2>1. publisher[p].at \in {"building", "publishing"}
    BY DEF PublishDirectory, Build, PublisherAt
  <2>2. publishing = p /\ exclusive = {}
    BY <2>1, AtWork DEF Changing, Working
  <2>3. PublisherKnows(p)
    BY DEF EnvironmentsInv
  <2>4. d \in Directories /\ b.place = "staging" /\ b.state = IF publisher[p].at = "building" THEN "building" ELSE "complete"
    BY <1>1, <1>2, <2>1, <2>3 DEF PublisherKnows
  <2> QED
    BY <1>2, <2>1, <2>2, <2>4, PublisherTyped
<1>4. ~Pinned(d)
  <2>1. ASSUME NEW w \in Workers PROVE <<d, w>> \notin shared
    <3>1. WorkerKnows(w) /\ LeasesTyped
      BY DEF EnvironmentsInv
    <3> QED
      BY <1>2, <1>3, <3>1 DEF WorkerKnows, LeasesTyped
  <2> QED
    BY <2>1 DEF Pinned
<1>5. UNCHANGED <<source, exclusive, processVars>>
  BY DEF PublishDirectory, Build
<1>6. ASSUME NEW x, directories' = [directories EXCEPT ![d] = x], x \in Directory, x.state # "removing",
             x.place = "target" => x.state # "building" /\ TargetOf(x.version) \subseteq {d},
             NEW r, publisher' = [publisher EXCEPT ![p] = r],
             r \in [at : {"idle", "waiting"} \cup Working, job : {"none", "ensure", "repair", "cleanup"},
                    dir : Nat, todo : SUBSET Directories],
             publishing' \in {p, Nobody}, mishaps' \in 0..MaxMishaps,
             \/ r.at = "idle"
             \/ r.at = "published" /\ publishing' = p
             \/ r.at = "publishing" /\ publishing' = p /\ r.dir = d /\ x.place = "staging" /\ x.state = "complete"
      PROVE  EnvironmentsInv'
  <2>1. /\ directories' \in Seq(Directory) /\ Len(directories') <= MaxDirectories /\ UNCHANGED Directories
        /\ directories'[d] = x /\ \A e \in Directories : e # d => directories'[e] = directories[e]
        /\ PublishedOnce'
    BY <1>3, <1>6, DirectoryChanges
  <2>2. RemovingIsLocked' /\ LockedByPublisher'
    BY <1>3, <1>5, <1>6, <2>1 DEF RemovingIsLocked, LockedByPublisher, EnvironmentsInv
  <2>3. publisher'[p] = r
    BY <1>6, PublisherTyped
  <2>4. PublisherKnows(p)'
    BY <1>3, <1>6, <2>1, <2>3 DEF PublisherKnows, Changing, Working
  <2>5. \A e \in Directories : e \in Directories' /\ (Pinned(e) => directories'[e] = directories[e])
    BY <1>4, <2>1
  <2>6. r \in [at : {"idle", "waiting"} \cup Working, job : {"none", "ensure", "repair", "cleanup"},
               dir : Nat, todo : SUBSET Directories']
    BY <1>6, <2>1
  <2>7. publishing' \in Publishers \cup {Nobody} /\ exclusive' \subseteq Directories'
    BY <1>3, <1>5, <1>6
  <2> QED
    BY <1>3, <1>5, <1>6, <2>1, <2>2, <2>4, <2>5, <2>6, <2>7, PublisherKeeps
<1>7. NoJob \in [at : {"idle", "waiting"} \cup Working, job : {"none", "ensure", "repair", "cleanup"},
                 dir : Nat, todo : SUBSET Directories] /\ NoJob.at = "idle"
  BY DEF NoJob
<1>8. ASSUME directories' = [directories EXCEPT ![d].place = "gone"], PublisherReturns(p), mishaps' \in 0..MaxMishaps
      PROVE  EnvironmentsInv'
  <2>1. PICK x : x = [b EXCEPT !.place = "gone"]
    OBVIOUS
  <2>2. x \in Directory /\ x.place = "gone" /\ x.state # "removing"
    BY <1>3, <2>1 DEF Directory
  <2>3. directories' = [directories EXCEPT ![d] = x]
    BY <1>2, <1>3, <1>8, <2>1, PublisherTyped
  <2> QED
    BY <1>6, <1>7, <1>8, <2>2, <2>3 DEF PublisherReturns
<1>9. ASSUME NEW next \in {"publishing", "published"}, PublisherGoes(p, next), UNCHANGED <<publishing, mishaps>>,
             NEW x, directories' = [directories EXCEPT ![d] = x], x \in Directory, x.state = "complete",
             IF next = "publishing" THEN x.place = "staging" ELSE TargetOf(x.version) = {}
      PROVE  EnvironmentsInv'
  <2>1. publisher' = [publisher EXCEPT ![p].at = next]
    BY <1>9 DEF PublisherGoes
  <2>2. PICK o : o = publisher[p]
    OBVIOUS
  <2>3. PICK r : r = [o EXCEPT !.at = next]
    OBVIOUS
  <2>4. publisher' = [publisher EXCEPT ![p] = r]
    BY <2>1, <2>2, <2>3, PublisherTyped
  <2>5. /\ o = [at |-> o.at, job |-> o.job, dir |-> o.dir, todo |-> o.todo]
        /\ o.job \in {"none", "ensure", "repair", "cleanup"} /\ o.dir \in Nat /\ o.todo \subseteq Directories
    BY <2>2, PublisherTyped
  <2>6. r = [at |-> next, job |-> o.job, dir |-> o.dir, todo |-> o.todo]
    BY <2>3, <2>5
  <2>7. r \in [at : {"idle", "waiting"} \cup Working, job : {"none", "ensure", "repair", "cleanup"},
                 dir : Nat, todo : SUBSET Directories] /\ r.at = next /\ r.dir = o.dir
    BY <2>5, <2>6, <1>9 DEF Working
  <2>8. publishing' \in {p, Nobody} /\ publishing' = p /\ mishaps' \in 0..MaxMishaps /\ r.dir = d
    BY <1>1, <1>3, <1>9, <2>2, <2>7, PublisherTyped
  <2> QED
    BY <1>6, <1>9, <2>4, <2>7, <2>8
<1>10. CASE Build(p)
  <2>1. CASE /\ directories' = [directories EXCEPT ![d].state = "complete"]
             /\ PublisherGoes(p, "publishing") /\ UNCHANGED <<publishing, mishaps>>
    <3>1. PICK x : x = [b EXCEPT !.state = "complete"]
      OBVIOUS
    <3>2. x \in Directory /\ x.place = "staging" /\ x.state = "complete"
      BY <1>3, <3>1 DEF Directory
    <3>3. directories' = [directories EXCEPT ![d] = x]
      BY <1>2, <1>3, <2>1, <3>1, PublisherTyped
    <3> QED
      BY <1>9, <2>1, <3>2, <3>3
  <2>2. CASE Mishap /\ directories' = [directories EXCEPT ![d].place = "gone"] /\ PublisherReturns(p)
    <3>1. mishaps' \in 0..MaxMishaps
      <4>1. mishaps \in 0..MaxMishaps /\ MaxMishaps \in Nat
        BY PublisherTyped, EnvironmentsAssumption
      <4>2. mishaps > 0 /\ mishaps' = mishaps - 1
        BY <2>2 DEF Mishap
      <4> QED
        BY <4>1, <4>2
    <3> QED
      BY <1>8, <2>2, <3>1
  <2> QED
    BY <1>1, <1>10, <2>1, <2>2 DEF Build
<1>11. CASE PublishDirectory(p)
  <2>1. CASE TargetOf(b.version) = {}
    <3>1. PICK x : x = [b EXCEPT !.place = "target"]
      OBVIOUS
    <3>2. x \in Directory /\ x.version = b.version /\ x.state = "complete"
      <4>1. publisher[p].at = "publishing"
        BY <1>11 DEF PublishDirectory, PublisherAt
      <4> QED
        BY <1>3, <3>1, <4>1 DEF Directory
    <3>3. directories' = [directories EXCEPT ![d].place = "target"] /\ PublisherGoes(p, "published") /\ UNCHANGED <<publishing, mishaps>>
      BY <1>1, <1>2, <1>11, <2>1 DEF PublishDirectory
    <3>4. directories' = [directories EXCEPT ![d] = x]
      BY <1>2, <1>3, <3>1, <3>3, PublisherTyped
    <3> QED
      BY <1>9, <2>1, <3>2, <3>3, <3>4
  <2>2. CASE TargetOf(b.version) # {}
    <3>1. directories' = [directories EXCEPT ![d].place = "gone"] /\ PublisherReturns(p) /\ UNCHANGED mishaps
      BY <1>1, <1>2, <1>11, <2>2 DEF PublishDirectory
    <3>2. mishaps' \in 0..MaxMishaps
      BY <3>1, PublisherTyped
    <3> QED
      BY <1>8, <3>1, <3>2
  <2> QED
    BY <2>1, <2>2
<1> QED
  BY <1>10, <1>11

LEMMA EnsureGoes ==
    ASSUME EnvironmentsInv, NEW p \in Publishers, Ensure(p)
    PROVE  EnvironmentsInv'
<1>1. publishing = p /\ exclusive = {} /\ publisher[p].at = "ensuring"
  BY AtWork DEF Ensure, PublisherAt, Working, Changing
<1>2. UNCHANGED <<source, exclusive, processVars, mishaps>>
  BY DEF Ensure
<1>3. CASE PublisherReturns(p) /\ UNCHANGED directories
  BY <1>1, <1>2, <1>3, PublisherLeaves
<1>4. CASE Cleaning(p) /\ UNCHANGED <<publishing, directories>>
  <2>1. publisher' = [publisher EXCEPT ![p].at = "cleaning", ![p].todo = Obsolete("ensure")]
    BY <1>4 DEF Cleaning
  <2>2. Obsolete("ensure") \subseteq Directories
    BY DEF Obsolete
  <2>3. PICK o : o = publisher[p]
    OBVIOUS
  <2>4. PICK r : r = [o EXCEPT !.at = "cleaning", !.todo = Obsolete("ensure")]
    OBVIOUS
  <2>5. publisher' = [publisher EXCEPT ![p] = r]
    BY <2>1, <2>3, <2>4, PublisherTyped
  <2>6. /\ o = [at |-> o.at, job |-> o.job, dir |-> o.dir, todo |-> o.todo]
        /\ o.job \in {"none", "ensure", "repair", "cleanup"} /\ o.dir \in Nat /\ o.todo \subseteq Directories
    BY <2>3, PublisherTyped
  <2>7. r = [at |-> "cleaning", job |-> o.job, dir |-> o.dir, todo |-> Obsolete("ensure")]
    BY <2>4, <2>6
  <2>8. r \in [at : {"idle", "waiting"} \cup Working, job : {"none", "ensure", "repair", "cleanup"},
                 dir : Nat, todo : SUBSET Directories] /\ r.at = "cleaning" /\ r.dir = o.dir
    BY <2>6, <2>7, <2>2 DEF Working
  <2> QED
    BY <1>1, <1>2, <1>4, <2>5, <2>8, PublisherWaits
<1>5. ASSUME NEW x, x = [version |-> source, place |-> "staging", state |-> "building"],
             Len(directories) < MaxDirectories, directories' = Append(directories, x), UNCHANGED publishing,
             publisher' = [publisher EXCEPT ![p].at = "building", ![p].dir = Len(directories) + 1]
      PROVE  EnvironmentsInv'
  <2>1. PICK d : d = Len(directories) + 1
    OBVIOUS
  <2>2. /\ directories \in Seq(Directory) /\ Len(directories) \in Nat /\ Directories = 1..Len(directories)
        /\ d \in Nat /\ d \notin Directories
    <3>1. directories \in Seq(Directory) /\ Len(directories) \in Nat /\ Directories = 1..Len(directories)
      BY PublisherTyped
    <3> QED
      BY <2>1, <3>1
  <2>3. x \in Directory /\ x.place = "staging" /\ x.state = "building"
    <3>1. source \in Versions
      BY DEF EnvironmentsInv, EnvironmentTypeOK, Versions
    <3> QED
      BY <1>5, <3>1 DEF Directory
  <2>4. directories' \in Seq(Directory) /\ Len(directories') = d /\ directories'[d] = x
    BY <1>5, <2>1, <2>2, <2>3, AppendProperties
  <2>5. \A e \in Directories : directories'[e] = directories[e]
    BY <1>5, <2>2, <2>3, AppendProperties
  <2>6. Directories' = Directories \cup {d} /\ Len(directories') <= MaxDirectories
    <3>1. Directories' = 1..d /\ d <= MaxDirectories
      BY <1>5, <2>1, <2>2, <2>4, EnvironmentsAssumption DEF Directories
    <3> QED
      BY <2>1, <2>2, <2>4, <3>1
  <2>7. PICK o : o = publisher[p]
    OBVIOUS
  <2>8. PICK r : r = [o EXCEPT !.at = "building", !.dir = d]
    OBVIOUS
  <2>9. publisher' = [publisher EXCEPT ![p] = r]
    BY <1>5, <2>1, <2>7, <2>8, PublisherTyped
  <2>10. /\ o = [at |-> o.at, job |-> o.job, dir |-> o.dir, todo |-> o.todo]
        /\ o.job \in {"none", "ensure", "repair", "cleanup"} /\ o.dir \in Nat /\ o.todo \subseteq Directories
    BY <2>7, PublisherTyped
  <2>11. r = [at |-> "building", job |-> o.job, dir |-> d, todo |-> o.todo]
    BY <2>8, <2>10
  <2>12. r \in [at : {"idle", "waiting"} \cup Working, job : {"none", "ensure", "repair", "cleanup"},
                 dir : Nat, todo : SUBSET Directories] /\ r.at = "building" /\ r.dir = d
    BY <2>10, <2>11, <2>2 DEF Working
  <2>13. RemovingIsLocked'
    BY <1>2, <2>3, <2>4, <2>5, <2>6 DEF RemovingIsLocked, EnvironmentsInv
  <2>14. LockedByPublisher'
    BY <1>1, <1>2 DEF LockedByPublisher
  <2>15. PublishedOnce'
    <3>1. ASSUME NEW e \in Directories', NEW f \in Directories', directories'[e].place = "target"
          PROVE  /\ directories'[e].state # "building"
                 /\ (directories'[f].place = "target" /\ directories'[f].version = directories'[e].version) => e = f
      <4>1. e \in Directories
        BY <2>3, <2>4, <2>6, <3>1
      <4>2. directories'[f].place = "target" => f \in Directories
        BY <2>3, <2>4, <2>6
      <4>3. PublishedOnce
        BY DEF EnvironmentsInv
      <4> QED
        BY <2>5, <3>1, <4>1, <4>2, <4>3 DEF PublishedOnce
    <3> QED
      BY <3>1 DEF PublishedOnce
  <2>16. publisher'[p] = r
    BY <2>9, PublisherTyped
  <2>17. PublisherKnows(p)'
    BY <1>1, <1>5, <2>3, <2>4, <2>6, <2>12, <2>16 DEF PublisherKnows, Changing
  <2>18. \A e \in Directories : e \in Directories' /\ (Pinned(e) => directories'[e] = directories[e])
    BY <2>5, <2>6
  <2>19. r \in [at : {"idle", "waiting"} \cup Working, job : {"none", "ensure", "repair", "cleanup"},
                 dir : Nat, todo : SUBSET Directories']
    BY <2>6, <2>12
  <2>20. publishing' \in Publishers \cup {Nobody} /\ exclusive' \subseteq Directories' /\ mishaps' \in 0..MaxMishaps
    BY <1>1, <1>2, <1>5, <2>6, PublisherTyped
  <2> QED
    BY <1>1, <1>2, <2>4, <2>6, <2>9, <2>13, <2>14, <2>15, <2>17, <2>18, <2>19, <2>20, PublisherKeeps
<1> QED
  BY <1>3, <1>4, <1>5 DEF Ensure

LEMMA CleanGoes ==
    ASSUME EnvironmentsInv, NEW p \in Publishers, Clean(p)
    PROVE  EnvironmentsInv'
<1>1. publishing = p /\ exclusive = {} /\ publisher[p].at = "cleaning"
  BY AtWork DEF Clean, PublisherAt, Working, Changing
<1>2. UNCHANGED <<source, processVars, mishaps>>
  BY DEF Clean
<1>3. CASE PublisherReturns(p) /\ UNCHANGED <<exclusive, directories>>
  BY <1>1, <1>2, <1>3, PublisherLeaves
<1>4. ASSUME NEW d \in publisher[p].todo, publisher' = [publisher EXCEPT ![p].todo = @ \ {d}],
             UNCHANGED <<publishing, exclusive, directories>>
      PROVE  EnvironmentsInv'
  <2>1. PICK o : o = publisher[p]
    OBVIOUS
  <2>2. PICK r : r = [o EXCEPT !.todo = @ \ {d}]
    OBVIOUS
  <2>3. publisher' = [publisher EXCEPT ![p] = r]
    BY <1>4, <2>1, <2>2, PublisherTyped
  <2>4. /\ o = [at |-> o.at, job |-> o.job, dir |-> o.dir, todo |-> o.todo]
        /\ o.at = "cleaning" /\ o.job \in {"none", "ensure", "repair", "cleanup"} /\ o.dir \in Nat /\ o.todo \subseteq Directories
    BY <1>1, <2>1, PublisherTyped
  <2>5. r = [at |-> o.at, job |-> o.job, dir |-> o.dir, todo |-> (o.todo \ {d})]
    BY <2>2, <2>4
  <2>6. r \in [at : {"idle", "waiting"} \cup Working, job : {"none", "ensure", "repair", "cleanup"},
                 dir : Nat, todo : SUBSET Directories] /\ r.at = o.at /\ r.dir = o.dir
    BY <2>4, <2>5, <1>1 DEF Working
  <2> QED
    BY <1>1, <1>2, <1>4, <2>3, <2>4, <2>6, PublisherWaits DEF Working
<1>5. ASSUME NEW d \in publisher[p].todo, Available(d), exclusive' = exclusive \cup {d}, UNCHANGED publishing,
             directories' = [directories EXCEPT ![d].state = "removing"],
             publisher' = [publisher EXCEPT ![p].at = "removing", ![p].dir = d, ![p].todo = @ \ {d}]
      PROVE  EnvironmentsInv'
  <2>1. d \in Directories /\ d \in Nat /\ ~Pinned(d)
    BY <1>5, PublisherTyped DEF Available
  <2>2. PICK o : o = publisher[p]
    OBVIOUS
  <2>3. PICK r : r = [o EXCEPT !.at = "removing", !.dir = d, !.todo = @ \ {d}]
    OBVIOUS
  <2>4. publisher' = [publisher EXCEPT ![p] = r]
    BY <1>5, <2>2, <2>3, PublisherTyped
  <2>5. /\ o = [at |-> o.at, job |-> o.job, dir |-> o.dir, todo |-> o.todo]
        /\ o.job \in {"none", "ensure", "repair", "cleanup"} /\ o.dir \in Nat /\ o.todo \subseteq Directories
    BY <2>2, PublisherTyped
  <2>6. r = [at |-> "removing", job |-> o.job, dir |-> d, todo |-> (o.todo \ {d})]
    BY <2>3, <2>5
  <2>7. r \in [at : {"idle", "waiting"} \cup Working, job : {"none", "ensure", "repair", "cleanup"},
                 dir : Nat, todo : SUBSET Directories] /\ r.at = "removing" /\ r.dir = d
    BY <2>5, <2>6, <2>1 DEF Working
  <2>8. PICK b : b = directories[d]
    OBVIOUS
  <2>9. PICK x : x = [b EXCEPT !.state = "removing"]
    OBVIOUS
  <2>10. b \in Directory
    BY <2>1, <2>8, PublisherTyped
  <2>11. x \in Directory /\ x.place = b.place /\ x.state = "removing" /\ x.version = b.version
    BY <2>9, <2>10 DEF Directory
  <2>12. directories' = [directories EXCEPT ![d] = x]
    BY <1>5, <2>1, <2>8, <2>9, PublisherTyped
  <2>13. x.place = "target" => x.state # "building" /\ TargetOf(x.version) \subseteq {d}
    <3>1. PublishedOnce
      BY DEF EnvironmentsInv
    <3> QED
      BY <2>1, <2>8, <2>11, <3>1 DEF PublishedOnce, TargetOf
  <2>14. /\ directories' \in Seq(Directory) /\ Len(directories') <= MaxDirectories /\ UNCHANGED Directories
         /\ directories'[d] = x /\ \A e \in Directories : e # d => directories'[e] = directories[e]
         /\ PublishedOnce'
    BY <2>1, <2>11, <2>12, <2>13, DirectoryChanges
  <2>15. exclusive' = {d} /\ publisher'[p] = r
    BY <1>1, <1>5, <2>4, PublisherTyped
  <2>16. RemovingIsLocked'
    BY <1>1, <2>14, <2>15 DEF RemovingIsLocked, EnvironmentsInv
  <2>17. LockedByPublisher'
    BY <1>1, <1>2, <1>5, <2>1, <2>7, <2>15 DEF LockedByPublisher, Changing, Pinned, processVars
  <2>18. PublisherKnows(p)'
    BY <1>1, <1>5, <2>7, <2>11, <2>14, <2>15 DEF PublisherKnows, Changing
  <2>19. \A e \in Directories : e \in Directories' /\ (Pinned(e) => directories'[e] = directories[e])
    BY <2>1, <2>14
  <2>20. r \in [at : {"idle", "waiting"} \cup Working, job : {"none", "ensure", "repair", "cleanup"},
                 dir : Nat, todo : SUBSET Directories']
    BY <2>7, <2>14
  <2>21. publishing' \in Publishers \cup {Nobody} /\ exclusive' \subseteq Directories' /\ mishaps' \in 0..MaxMishaps
    BY <1>1, <1>2, <1>5, <2>1, <2>14, <2>15, PublisherTyped
  <2> QED
    BY <1>1, <1>2, <2>4, <2>14, <2>16, <2>17, <2>18, <2>19, <2>20, <2>21, PublisherKeeps
<1> QED
  BY <1>3, <1>4, <1>5 DEF Clean

\* What a step of a worker has to keep.
LEMMA WorkerKeeps ==
    ASSUME EnvironmentsInv, UNCHANGED others, NEW w \in Workers, NEW r, worker' = [worker EXCEPT ![w] = r],
           r \in [at : {"off", "resolved"} \cup Holding, version : {0} \cup Versions,
                    dir : Nat, cancelled : BOOLEAN],
           NEW a \in 0..MaxDirectories, alive' = [alive EXCEPT ![w] = a],
           late' \subseteq Workers, \A v \in Workers : v # w => (v \in late' <=> v \in late),
           shared' \subseteq Directories \X Workers,
           \A d \in Directories, v \in Workers : v # w => (<<d, v>> \in shared' <=> <<d, v>> \in shared),
           \A d \in Directories : <<d, w>> \in shared' =>
               r.at \in Holding /\ w \notin late' /\ r.dir = d /\ d \notin exclusive,
           WorkerKnows(w)'
    PROVE  EnvironmentsInv'
<1>1. UNCHANGED <<source, directories, publishing, publisher, exclusive, mishaps>> /\ UNCHANGED Directories
  BY DEF others, Directories
<1>2. /\ worker'[w] = r /\ alive'[w] = a
      /\ \A v \in Workers : v # w => worker'[v] = worker[v] /\ alive'[v] = alive[v]
      /\ alive' \in [Workers -> 0..MaxDirectories]
  BY DEF EnvironmentsInv, WorkersTyped, EnvironmentTypeOK
<1>3. WorkersTyped'
  BY DEF EnvironmentsInv, WorkersTyped
<1>4. ASSUME NEW v \in Workers PROVE WorkerKnows(v)'
  <2>1. CASE v # w
    <3>1. WorkerKnows(v)
      BY DEF EnvironmentsInv
    <3> QED
      BY <1>1, <1>2, <2>1, <3>1 DEF WorkerKnows
  <2> QED
    BY <2>1
<1>5. LeasesTyped'
  BY <1>1, <1>2 DEF EnvironmentsInv, LeasesTyped
<1>6. LockedByPublisher'
  <2>1. ASSUME NEW d \in exclusive, NEW v \in Workers PROVE <<d, v>> \notin shared'
    <3>1. d \in Directories /\ <<d, v>> \notin shared
      BY DEF EnvironmentsInv, EnvironmentTypeOK, Directories, LockedByPublisher, Pinned
    <3> QED
      BY <3>1
  <2> QED
    BY <1>1, <2>1 DEF EnvironmentsInv, LockedByPublisher, Pinned
<1>7. EnvironmentTypeOK'
  BY <1>1, <1>2 DEF EnvironmentsInv, EnvironmentTypeOK, Directories
<1>8. (\A p \in Publishers : PublisherKnows(p)') /\ RemovingIsLocked' /\ PublishedOnce' /\ PublishersTyped'
  BY <1>1 DEF EnvironmentsInv, PublisherKnows, RemovingIsLocked, PublishedOnce, PublishersTyped
<1> QED
  BY <1>1, <1>3, <1>4, <1>5, <1>6, <1>7, <1>8 DEF EnvironmentsInv

LEMMA WorkerTyped ==
    ASSUME EnvironmentsInv, NEW w \in Workers
    PROVE  /\ worker[w].at \in {"off", "resolved"} \cup Holding /\ worker[w].version \in {0} \cup Versions
           /\ worker[w].dir \in Nat /\ worker[w].cancelled \in BOOLEAN
           /\ worker[w] = [at |-> worker[w].at, version |-> worker[w].version,
                           dir |-> worker[w].dir, cancelled |-> worker[w].cancelled]
           /\ DOMAIN worker = Workers /\ DOMAIN alive = Workers
           /\ alive[w] \in 0..MaxDirectories /\ 0 \in 0..MaxDirectories /\ late \subseteq Workers
           /\ alive = [alive EXCEPT ![w] = alive[w]]
           /\ shared \subseteq Directories \X Workers
           /\ WorkerKnows(w) /\ \A d \in Directories : <<d, w>> \in shared =>
                worker[w].at \in Holding /\ w \notin late /\ worker[w].dir = d /\ d \notin exclusive
           /\ \A d \in Directories : d \in Nat /\ d \in 0..MaxDirectories /\ directories[d].version \in Versions
<1>1. worker[w] \in [at : {"off", "resolved"} \cup Holding, version : {0} \cup Versions,
                  dir : Nat, cancelled : BOOLEAN] /\ DOMAIN worker = Workers
  BY DEF EnvironmentsInv, WorkersTyped
<1>2. /\ DOMAIN alive = Workers /\ alive[w] \in 0..MaxDirectories /\ late \subseteq Workers
      /\ shared \subseteq Directories \X Workers /\ alive = [alive EXCEPT ![w] = alive[w]]
  BY DEF EnvironmentsInv, EnvironmentTypeOK, Directories
<1>3. WorkerKnows(w) /\ \A d \in Directories : <<d, w>> \in shared =>
          worker[w].at \in Holding /\ w \notin late /\ worker[w].dir = d /\ d \notin exclusive
  <2>1. LeasesTyped /\ LockedByPublisher /\ WorkerKnows(w)
    BY DEF EnvironmentsInv
  <2> QED
    BY <2>1 DEF LeasesTyped, LockedByPublisher, Pinned
<1>4. /\ directories \in Seq(Directory) /\ Len(directories) \in Nat /\ Directories = 1..Len(directories)
      /\ Len(directories) <= MaxDirectories
  BY DEF EnvironmentsInv, Directories
<1>5. MaxDirectories \in Nat \ {0}
  BY EnvironmentsAssumption
<1>6. ASSUME NEW d \in Directories PROVE d \in Nat /\ d \in 0..MaxDirectories /\ directories[d].version \in Versions
  <2>1. directories[d] \in Directory
    BY <1>4
  <2>2. directories[d].version \in Versions
    BY <2>1 DEF Directory
  <2> QED
    BY <1>4, <1>5, <2>2
<1> QED
  BY <1>1, <1>2, <1>3, <1>5, <1>6

\* A start or a stop ends: the worker pins nothing.
LEMMA WorkerEnds ==
    ASSUME EnvironmentsInv, UNCHANGED others, NEW w \in Workers, StartEnds(w),
           NEW a \in {0}, alive' = [alive EXCEPT ![w] = a], shared' = Unpinned(w), late' = late \ {w}
    PROVE  EnvironmentsInv'
<1>1. worker' = [worker EXCEPT ![w] = NotStarted]
  BY DEF StartEnds
<1>2. NotStarted \in [at : {"off", "resolved"} \cup Holding, version : {0} \cup Versions,
                  dir : Nat, cancelled : BOOLEAN] /\ NotStarted.at = "off"
  BY DEF NotStarted
<1>3. worker'[w] = NotStarted /\ alive'[w] = 0
  BY <1>1, WorkerTyped
<1>4. WorkerKnows(w)'
  BY <1>2, <1>3 DEF WorkerKnows, Holding
<1>5. shared' \subseteq Directories \X Workers /\ late' \subseteq Workers
  BY WorkerTyped DEF Unpinned
<1>6. \A d \in Directories, v \in Workers : <<d, v>> \in shared' <=> (<<d, v>> \in shared /\ v # w)
  BY DEF Unpinned
<1>7. a \in 0..MaxDirectories
  BY WorkerTyped
<1> QED
  BY <1>1, <1>2, <1>4, <1>5, <1>6, <1>7, WorkerKeeps

LEMMA ResolveGoes ==
    ASSUME EnvironmentsInv, NEW w \in Workers, Resolve(w)
    PROVE  EnvironmentsInv'
<1>1. PICK o : o = worker[w]
  OBVIOUS
<1>2. o.at = "off" /\ source \in Versions /\ UNCHANGED <<others, shared, alive, late>>
  BY <1>1 DEF Resolve, NotStarted, EnvironmentsInv, EnvironmentTypeOK, Versions
<1>3. worker' = [worker EXCEPT ![w].at = "resolved", ![w].version = source]
  BY DEF Resolve
<1>4. PICK r : r = [o EXCEPT !.at = "resolved", !.version = source]
  OBVIOUS
<1>5. worker' = [worker EXCEPT ![w] = r]
  BY <1>3, <1>1, <1>4, WorkerTyped
<1>6. r = [at |-> "resolved", version |-> source, dir |-> o.dir, cancelled |-> o.cancelled]
  <2>1. o = [at |-> o.at, version |-> o.version, dir |-> o.dir, cancelled |-> o.cancelled]
    BY <1>1, WorkerTyped
  <2> QED
    BY <1>4, <2>1
<1>7. r \in [at : {"off", "resolved"} \cup Holding, version : {0} \cup Versions,
                  dir : Nat, cancelled : BOOLEAN]
  BY <1>1, <1>6, WorkerTyped, <1>2 DEF Holding
<1>8. r.at = "resolved" /\ r.version = source /\ r.dir = o.dir
  BY <1>6
<1>9. worker'[w] = r /\ alive[w] = 0 /\ w \notin late /\ \A d \in Directories : <<d, w>> \notin shared
  BY <1>1, <1>2, <1>5, WorkerTyped DEF WorkerKnows, Holding
<1>10. WorkerKnows(w)'
  BY <1>2, <1>8, <1>9 DEF WorkerKnows, Holding
<1>11. alive' = [alive EXCEPT ![w] = alive[w]]
  BY <1>2, WorkerTyped
<1> QED
  BY <1>2, <1>5, <1>7, <1>9, <1>10, <1>11, WorkerKeeps, WorkerTyped

LEMMA LeaseGoes ==
    ASSUME EnvironmentsInv, NEW w \in Workers, Lease(w)
    PROVE  EnvironmentsInv'
<1>1. PICK o : o = worker[w]
  OBVIOUS
<1>2. o.at = "resolved" /\ UNCHANGED <<others, alive>>
  BY <1>1 DEF Lease, Worker
<1>3. alive[w] = 0 /\ w \notin late /\ \A d \in Directories : <<d, w>> \notin shared
  BY <1>1, <1>2, WorkerTyped DEF WorkerKnows, Holding
<1>4. alive' = [alive EXCEPT ![w] = 0]
  BY <1>2, <1>3, WorkerTyped
<1>5. CASE StartEnds(w) /\ UNCHANGED <<shared, late>>
  <2>1. shared' = Unpinned(w) /\ late' = late \ {w}
    <3>1. shared \subseteq Directories \X Workers
      BY WorkerTyped
    <3>2. \A l \in shared : l[2] # w
      BY <1>3, <3>1
    <3> QED
      BY <1>3, <1>5, <3>2 DEF Unpinned
  <2> QED
    BY <1>2, <1>4, <1>5, <2>1, WorkerEnds
<1>6. ASSUME NEW d \in TargetOf(worker[w].version), worker' = [worker EXCEPT ![w].at = "leased", ![w].dir = d],
             \/ d \notin exclusive /\ UNCHANGED late /\ shared' = shared \cup {<<d, w>>}
             \/ late' = late \cup {w} /\ UNCHANGED shared
      PROVE  EnvironmentsInv'
  <2>1. d \in Directories /\ d \in Nat /\ directories[d].place = "target" /\ directories[d].version = o.version /\ o.version \in Versions
    BY <1>1, WorkerTyped DEF TargetOf
  <2>2. PICK r : r = [o EXCEPT !.at = "leased", !.dir = d]
    OBVIOUS
  <2>3. worker' = [worker EXCEPT ![w] = r]
    BY <1>6, <1>1, <2>2, WorkerTyped
  <2>4. r = [at |-> "leased", version |-> o.version, dir |-> d, cancelled |-> o.cancelled]
    <3>1. o = [at |-> o.at, version |-> o.version, dir |-> o.dir, cancelled |-> o.cancelled]
      BY <1>1, WorkerTyped
    <3> QED
      BY <2>2, <3>1
  <2>5. r \in [at : {"off", "resolved"} \cup Holding, version : {0} \cup Versions,
                  dir : Nat, cancelled : BOOLEAN]
    BY <1>1, <2>4, WorkerTyped, <2>1 DEF Holding
  <2>6. r.at = "leased" /\ r.version = o.version /\ r.dir = d
    BY <2>4
  <2>7. worker'[w] = r /\ UNCHANGED <<Directories, directories, exclusive>> /\ alive'[w] = 0
    BY <1>2, <1>3, <2>3, WorkerTyped DEF others, Directories
  <2>8. /\ shared' \subseteq Directories \X Workers /\ late' \subseteq Workers
        /\ \A v \in Workers : v # w => (v \in late' <=> v \in late)
        /\ \A e \in Directories, v \in Workers : v # w => (<<e, v>> \in shared' <=> <<e, v>> \in shared)
    <3>1. shared \subseteq Directories \X Workers /\ late \subseteq Workers
      BY WorkerTyped
    <3> QED
      BY <1>6, <2>1, <3>1
  <2>9. \A e \in Directories : <<e, w>> \in shared' => w \notin late' /\ e = d /\ d \notin exclusive
    BY <1>3, <1>6
  <2>10. w \notin late' => <<d, w>> \in shared'
    BY <1>6
  <2>11. WorkerKnows(w)'
    BY <2>1, <2>6, <2>7, <2>10 DEF WorkerKnows, Holding
  <2>12. \A e \in Directories : <<e, w>> \in shared' =>
            r.at \in Holding /\ w \notin late' /\ r.dir = e /\ e \notin exclusive
    BY <2>6, <2>9 DEF Holding
  <2>13. 0 \in 0..MaxDirectories
    BY WorkerTyped
  <2> QED
    BY <1>2, <1>4, <2>3, <2>5, <2>8, <2>11, <2>12, <2>13, WorkerKeeps
<1> QED
  BY <1>2, <1>5, <1>6 DEF Lease

\* The worker goes on with what it has pinned.
LEMMA WorkerGoesOn ==
    ASSUME EnvironmentsInv, UNCHANGED <<others, shared, late>>, NEW w \in Workers,
           worker[w].at \in Holding,
           NEW r, worker' = [worker EXCEPT ![w] = r],
           r \in [at : {"off", "resolved"} \cup Holding, version : {0} \cup Versions,
                    dir : Nat, cancelled : BOOLEAN],
           r.at \in Holding, r.version = worker[w].version, r.dir = worker[w].dir,
           NEW a \in 0..MaxDirectories, alive' = [alive EXCEPT ![w] = a],
           a # 0 => r.at \in {"running", "stopping"} /\ (w \notin late => a = r.dir)
    PROVE  EnvironmentsInv'
<1>1. worker'[w] = r /\ alive'[w] = a
  BY WorkerTyped
<1>2. UNCHANGED <<directories, Directories, exclusive>>
  BY DEF others, Directories
<1>3. WorkerKnows(w)'
  <2>1. WorkerKnows(w)
    BY DEF EnvironmentsInv
  <2> QED
    BY <1>1, <1>2, <2>1 DEF WorkerKnows
<1>4. /\ \A d \in Directories : <<d, w>> \in shared' => r.at \in Holding /\ w \notin late' /\ r.dir = d /\ d \notin exclusive
      /\ shared' \subseteq Directories \X Workers /\ late' \subseteq Workers
  BY WorkerTyped
<1>5. UNCHANGED others /\ UNCHANGED <<shared, late>>
  OBVIOUS
<1> QED
  BY <1>3, <1>4, <1>5, WorkerKeeps

LEMMA WorkerStepGoes ==
    ASSUME EnvironmentsInv, NEW w \in Workers, WorkerStep(w)
    PROVE  EnvironmentsInv'
<1>1. PICK o : o = worker[w]
  OBVIOUS
<1>2. alive = [alive EXCEPT ![w] = alive[w]] /\ alive[w] \in 0..MaxDirectories
  BY WorkerTyped
<1>3. CASE Verify(w)
  <2>1. o.at = "leased" /\ alive[w] = 0 /\ UNCHANGED <<alive, others>>
    BY <1>1, <1>3, WorkerTyped DEF Verify, Worker, WorkerKnows
  <2>2. CASE Becomes(w, "spawning") /\ UNCHANGED <<shared, late>>
    <3>1. worker' = [worker EXCEPT ![w].at = "spawning"]
      BY <2>2 DEF Becomes
    <3>2. PICK r : r = [o EXCEPT !.at = "spawning"]
      OBVIOUS
    <3>3. worker' = [worker EXCEPT ![w] = r]
      BY <3>1, <1>1, <3>2, WorkerTyped
    <3>4. r = [at |-> "spawning", version |-> o.version, dir |-> o.dir, cancelled |-> o.cancelled]
      <4>1. o = [at |-> o.at, version |-> o.version, dir |-> o.dir, cancelled |-> o.cancelled]
        BY <1>1, WorkerTyped
      <4> QED
        BY <3>2, <4>1
    <3>5. r \in [at : {"off", "resolved"} \cup Holding, version : {0} \cup Versions,
                  dir : Nat, cancelled : BOOLEAN]
      BY <1>1, <3>4, WorkerTyped DEF Holding
    <3>6. r.at = "spawning" /\ r.version = o.version /\ r.dir = o.dir
      BY <3>4
    <3> QED
      BY <1>1, <1>2, <2>1, <2>2, <3>3, <3>5, <3>6, WorkerGoesOn DEF Holding
  <2>3. CASE StartEnds(w) /\ shared' = Unpinned(w) /\ late' = late \ {w}
    BY <1>2, <2>1, <2>3, WorkerEnds
  <2> QED
    BY <1>3, <2>2, <2>3 DEF Verify
<1>4. CASE CancelStart(w)
  <2>1. UNCHANGED <<shared, alive, late, others>>
    BY <1>4 DEF CancelStart
  <2>2. CASE o.at = "spawning" /\ worker' = [worker EXCEPT ![w].cancelled = TRUE]
    <3>1. PICK r : r = [o EXCEPT !.cancelled = TRUE]
      OBVIOUS
    <3>2. worker' = [worker EXCEPT ![w] = r]
      BY <2>2, <1>1, <3>1, WorkerTyped
    <3>3. r = [at |-> o.at, version |-> o.version, dir |-> o.dir, cancelled |-> TRUE]
      <4>1. o = [at |-> o.at, version |-> o.version, dir |-> o.dir, cancelled |-> o.cancelled]
        BY <1>1, WorkerTyped
      <4> QED
        BY <3>1, <4>1
    <3>4. r \in [at : {"off", "resolved"} \cup Holding, version : {0} \cup Versions,
                  dir : Nat, cancelled : BOOLEAN]
      BY <1>1, <3>3, WorkerTyped DEF Holding
    <3>5. r.at = o.at /\ r.version = o.version /\ r.dir = o.dir
      BY <3>3
    <3>6. alive[w] = 0
      BY <1>1, <2>2, WorkerTyped DEF WorkerKnows
    <3> QED
      BY <1>1, <1>2, <2>1, <2>2, <3>2, <3>4, <3>5, <3>6, WorkerGoesOn DEF Holding
  <2>3. CASE o.at = "running" /\ Becomes(w, "stopping")
    <3>1. worker' = [worker EXCEPT ![w].at = "stopping"]
      BY <2>3 DEF Becomes
    <3>2. PICK r : r = [o EXCEPT !.at = "stopping"]
      OBVIOUS
    <3>3. worker' = [worker EXCEPT ![w] = r]
      BY <3>1, <1>1, <3>2, WorkerTyped
    <3>4. r = [at |-> "stopping", version |-> o.version, dir |-> o.dir, cancelled |-> o.cancelled]
      <4>1. o = [at |-> o.at, version |-> o.version, dir |-> o.dir, cancelled |-> o.cancelled]
        BY <1>1, WorkerTyped
      <4> QED
        BY <3>2, <4>1
    <3>5. r \in [at : {"off", "resolved"} \cup Holding, version : {0} \cup Versions,
                  dir : Nat, cancelled : BOOLEAN]
      BY <1>1, <3>4, WorkerTyped DEF Holding
    <3>6. r.at = "stopping" /\ r.version = o.version /\ r.dir = o.dir
      BY <3>4
    <3>7. alive[w] # 0 => (w \notin late => alive[w] = o.dir)
      BY <1>1, WorkerTyped DEF WorkerKnows
    <3> QED
      BY <1>1, <1>2, <2>1, <2>3, <3>3, <3>5, <3>6, <3>7, WorkerGoesOn DEF Holding
  <2> QED
    BY <1>1, <1>4, <2>2, <2>3 DEF CancelStart, Worker
<1>5. CASE Spawn(w)
  <2>1. o.at = "spawning" /\ UNCHANGED others /\ alive[w] = 0
    BY <1>1, <1>5, WorkerTyped DEF Spawn, Worker, WorkerKnows
  <2>2. ASSUME NEW d \in TargetOf(worker[w].version), alive' = [alive EXCEPT ![w] = d],
               Becomes(w, IF worker[w].cancelled THEN "stopping" ELSE "running"), UNCHANGED <<shared, late>>
        PROVE  EnvironmentsInv'
    <3> DEFINE next == IF o.cancelled THEN "stopping" ELSE "running"
    <3>1. worker' = [worker EXCEPT ![w].at = next] /\ next \in {"running", "stopping"}
      BY <1>1, <2>2 DEF Becomes
    <3> HIDE DEF next
    <3>2. PICK r : r = [o EXCEPT !.at = next]
      OBVIOUS
    <3>3. worker' = [worker EXCEPT ![w] = r]
      BY <3>1, <1>1, <3>2, WorkerTyped
    <3>4. r = [at |-> next, version |-> o.version, dir |-> o.dir, cancelled |-> o.cancelled]
      <4>1. o = [at |-> o.at, version |-> o.version, dir |-> o.dir, cancelled |-> o.cancelled]
        BY <1>1, WorkerTyped
      <4> QED
        BY <3>2, <4>1
    <3>5. r \in [at : {"off", "resolved"} \cup Holding, version : {0} \cup Versions,
                  dir : Nat, cancelled : BOOLEAN]
      BY <1>1, <3>4, WorkerTyped, <3>1 DEF Holding
    <3>6. r.at = next /\ r.version = o.version /\ r.dir = o.dir
      BY <3>4
    <3>7. d \in Directories /\ d \in 0..MaxDirectories
      BY WorkerTyped DEF TargetOf
    <3>8. w \notin late => d = o.dir
      <4>1. PublishedOnce /\ WorkerKnows(w)
        BY DEF EnvironmentsInv
      <4> QED
        BY <1>1, <2>1, <2>2, <4>1 DEF PublishedOnce, WorkerKnows, Holding, TargetOf
    <3>9. /\ worker[w].at \in Holding /\ r.at \in Holding /\ r.at \in {"running", "stopping"}
          /\ r.version = worker[w].version /\ r.dir = worker[w].dir
      BY <1>1, <2>1, <3>1, <3>6 DEF Holding
    <3>10. w \notin late => d = r.dir
      BY <3>6, <3>8
    <3>11. UNCHANGED <<others, shared, late>>
      BY <2>1, <2>2
    <3>12. alive' = [alive EXCEPT ![w] = d]
      BY <2>2
    <3> QED
      BY <3>3, <3>5, <3>7, <3>9, <3>10, <3>11, <3>12, WorkerGoesOn
  <2>3. CASE StartEnds(w) /\ shared' = Unpinned(w) /\ late' = late \ {w} /\ UNCHANGED alive
    BY <1>2, <2>1, <2>3, WorkerEnds
  <2> QED
    BY <1>5, <2>2, <2>3 DEF Spawn
<1>6. CASE Exits(w)
  <2>1. alive[w] # 0 /\ alive' = [alive EXCEPT ![w] = 0] /\ UNCHANGED <<shared, worker, late, others>>
    BY <1>6 DEF Exits
  <2>2. o.at \in Holding
    BY <1>1, <2>1, WorkerTyped DEF WorkerKnows, Holding
  <2>3. worker' = [worker EXCEPT ![w] = o] /\ 0 \in 0..MaxDirectories
    <3>1. o = worker[w] /\ UNCHANGED worker /\ DOMAIN worker = Workers
      BY <1>1, <2>1, WorkerTyped
    <3>2. worker = [worker EXCEPT ![w] = worker[w]]
      BY DEF EnvironmentsInv, WorkersTyped
    <3> QED
      BY <3>1, <3>2, EnvironmentsAssumption
  <2>4. o \in [at : {"off", "resolved"} \cup Holding, version : {0} \cup Versions,
                  dir : Nat, cancelled : BOOLEAN]
    BY <1>1 DEF EnvironmentsInv, WorkersTyped
  <2> QED
    BY <1>1, <2>1, <2>2, <2>3, <2>4, WorkerGoesOn
<1>7. CASE Stopped(w)
  BY <1>7, WorkerEnds DEF Stopped
<1> QED
  BY <1>3, <1>4, <1>5, <1>6, <1>7, ResolveGoes, LeaseGoes DEF WorkerStep

LEMMA SourcesGo ==
    ASSUME EnvironmentsInv, UpdateSources
    PROVE  EnvironmentsInv'
<1>1. source \in 1..(MaxUpdates + 1) /\ source <= MaxUpdates /\ source' = source + 1 /\ MaxUpdates \in Nat
  BY EnvironmentsAssumption DEF UpdateSources, EnvironmentsInv, EnvironmentTypeOK
<1>2. source' \in 1..(MaxUpdates + 1)
  BY <1>1
<1>3. UNCHANGED <<directories, publishing, publisher, exclusive, shared, worker, alive, late, mishaps>>
  BY DEF UpdateSources, processVars
<1>4. EnvironmentTypeOK'
  BY <1>2, <1>3 DEF EnvironmentsInv, EnvironmentTypeOK
<1>5. PublishersTyped' /\ WorkersTyped' /\ PublishedOnce' /\ RemovingIsLocked' /\ LockedByPublisher' /\ LeasesTyped'
  <2>1. Directories' = Directories
    BY <1>3 DEF Directories
  <2>2. PublishersTyped' /\ WorkersTyped'
    BY <1>3, <2>1 DEF EnvironmentsInv, PublishersTyped, WorkersTyped
  <2>3. PublishedOnce' /\ RemovingIsLocked'
    BY <1>3, <2>1 DEF EnvironmentsInv, PublishedOnce, RemovingIsLocked
  <2>4. LockedByPublisher' /\ LeasesTyped'
    BY <1>3, <2>1 DEF EnvironmentsInv, LockedByPublisher, LeasesTyped, Pinned
  <2> QED
    BY <2>2, <2>3, <2>4
<1>6. (\A p \in Publishers : PublisherKnows(p)') /\ (\A w \in Workers : WorkerKnows(w)')
  BY <1>3 DEF EnvironmentsInv, PublisherKnows, WorkerKnows, Directories
<1> QED
  BY <1>3, <1>4, <1>5, <1>6 DEF EnvironmentsInv

\* What is left of a mishap is a number still.
LEMMA MishapsTyped ==
    ASSUME EnvironmentsInv, Mishap
    PROVE  mishaps' \in 0..MaxMishaps
<1>1. mishaps \in 0..MaxMishaps /\ MaxMishaps \in Nat
  BY EnvironmentsAssumption DEF EnvironmentsInv, EnvironmentTypeOK
<1>2. mishaps > 0 /\ mishaps' = mishaps - 1
  BY DEF Mishap
<1> QED
  BY <1>1, <1>2

LEMMA DamageGoes ==
    ASSUME EnvironmentsInv, NEW d \in Directories, Damage(d)
    PROVE  EnvironmentsInv'
<1>1. PICK b : b = directories[d]
  OBVIOUS
<1>2. PICK x : x = [b EXCEPT !.state = "damaged"]
  OBVIOUS
<1>3. /\ directories \in Seq(Directory) /\ Directories = 1..Len(directories) /\ Len(directories) \in Nat
      /\ b \in Directory
  BY <1>1 DEF EnvironmentsInv, Directories
<1>4. b.place = "target" /\ b.state = "complete" /\ directories' = [directories EXCEPT ![d].state = "damaged"]
  BY <1>1 DEF Damage
<1>5. x \in Directory /\ x.place = b.place /\ x.version = b.version /\ x.state = "damaged"
  BY <1>2, <1>3 DEF Directory
<1>6. directories' = [directories EXCEPT ![d] = x]
  BY <1>1, <1>2, <1>3, <1>4
<1>7. TargetOf(x.version) \subseteq {d}
  <2>1. PublishedOnce
    BY DEF EnvironmentsInv
  <2> QED
    BY <1>1, <1>4, <1>5, <2>1 DEF PublishedOnce, TargetOf
<1>8. /\ directories' \in Seq(Directory) /\ Len(directories') <= MaxDirectories /\ UNCHANGED Directories
      /\ directories'[d] = x /\ \A e \in Directories : e # d => directories'[e] = directories[e]
      /\ PublishedOnce'
  BY <1>5, <1>6, <1>7, DirectoryChanges
<1>9. UNCHANGED <<source, publishing, publisher, exclusive, shared, worker, alive, late>>
  BY DEF Damage, processVars
<1>10. EnvironmentTypeOK'
  <2>1. \A e \in DOMAIN directories' : directories'[e] \in Directory
    BY <1>8
  <2> QED
    BY <1>8, <1>9, <2>1, MishapsTyped DEF Damage, EnvironmentsInv, EnvironmentTypeOK, Directory, Versions, Directories
<1>11. PublishersTyped' /\ WorkersTyped' /\ LockedByPublisher' /\ LeasesTyped'
  BY <1>8, <1>9 DEF EnvironmentsInv, PublishersTyped, WorkersTyped, LockedByPublisher, LeasesTyped, Pinned
<1>12. RemovingIsLocked'
  BY <1>5, <1>8, <1>9 DEF EnvironmentsInv, RemovingIsLocked
<1>13. ASSUME NEW p \in Publishers PROVE PublisherKnows(p)'
  <2>1. PublisherKnows(p) /\ (publisher[p].at = "removing" => publisher[p].dir \in Directories)
    BY DEF EnvironmentsInv, PublisherKnows, EnvironmentTypeOK, Directories, Changing
  <2>2. CASE publisher[p].at = "removing"
    BY <1>1, <1>4, <1>8, <1>9, <2>1, <2>2 DEF PublisherKnows, Changing
  <2>3. CASE publisher[p].at = "moving"
    <3>1. publisher[p].dir \in Directories
      BY <2>1, <2>3 DEF EnvironmentsInv, PublisherKnows, EnvironmentTypeOK, Directories, Changing
    <3> QED
      BY <1>5, <1>8, <1>9, <2>1, <2>3, <3>1 DEF PublisherKnows, Changing
  <2>4. CASE publisher[p].at \notin {"removing", "moving"}
    BY <1>1, <1>4, <1>8, <1>9, <2>1, <2>4 DEF PublisherKnows, Changing
  <2> QED
    BY <2>2, <2>3, <2>4
<1>14. ASSUME NEW w \in Workers PROVE WorkerKnows(w)'
  <2>1. WorkerKnows(w)
    BY DEF EnvironmentsInv
  <2> QED
    BY <1>1, <1>5, <1>8, <1>9, <2>1 DEF WorkerKnows
<1> QED
  BY <1>8, <1>10, <1>11, <1>12, <1>13, <1>14 DEF EnvironmentsInv

LEMMA CrashGoes ==
    ASSUME EnvironmentsInv, Crash
    PROVE  EnvironmentsInv'
<1> DEFINE After(d) == IF directories[d].state = "removing" THEN [directories[d] EXCEPT !.state = "damaged"]
                       ELSE directories[d]
<1>1. /\ directories \in Seq(Directory) /\ Len(directories) \in Nat /\ Directories = 1..Len(directories)
      /\ Len(directories) <= MaxDirectories
  BY DEF EnvironmentsInv, Directories
<1>2. directories' = [d \in Directories |-> After(d)]
  BY DEF Crash
<1>3. ASSUME NEW d \in Directories
      PROVE  /\ After(d) \in Directory /\ After(d).place = directories[d].place
             /\ After(d).version = directories[d].version /\ After(d).state # "removing"
             /\ After(d).state = "building" => directories[d].state = "building"
  <2>1. PICK b : b = directories[d]
    OBVIOUS
  <2>2. b \in Directory
    BY <1>1, <2>1
  <2>3. PICK x : x = [b EXCEPT !.state = "damaged"]
    OBVIOUS
  <2>4. x \in Directory /\ x.place = b.place /\ x.version = b.version /\ x.state = "damaged"
    BY <2>2, <2>3 DEF Directory
  <2>5. After(d) = IF b.state = "removing" THEN x ELSE b
    BY <2>1, <2>3
  <2> QED
    BY <2>1, <2>2, <2>4, <2>5
<1> HIDE DEF After
<1>4. directories' \in Seq(Directory) /\ Len(directories') = Len(directories)
  <2>1. directories' = [d \in 1..Len(directories) |-> After(d)]
    BY <1>1, <1>2
  <2> QED
    BY <1>1, <1>3, <2>1
<1>5. UNCHANGED Directories /\ \A d \in Directories : directories'[d] = After(d)
  BY <1>1, <1>2, <1>4 DEF Directories
<1>6. /\ publishing' = Nobody /\ publisher' = [p \in Publishers |-> NoJob]
      /\ exclusive' = {} /\ shared' = {} /\ late' = {}
      /\ worker' = [w \in Workers |-> NotStarted] /\ alive' = [w \in Workers |-> 0] /\ UNCHANGED source
  BY DEF Crash
<1>7. EnvironmentTypeOK'
  <2>1. source' \in 1..(MaxUpdates + 1) /\ mishaps' \in 0..MaxMishaps
    BY <1>6, MishapsTyped DEF Crash, EnvironmentsInv, EnvironmentTypeOK
  <2>2. alive' \in [Workers -> 0..MaxDirectories]
    BY <1>6, EnvironmentsAssumption
  <2>3. \A d \in DOMAIN directories' : directories'[d] \in Directory
    BY <1>3, <1>5 DEF Directories
  <2> QED
    BY <1>6, <2>1, <2>2, <2>3 DEF EnvironmentTypeOK, Directory, Versions
<1>8. PublishersTyped' /\ WorkersTyped'
  BY <1>6 DEF PublishersTyped, WorkersTyped, NoJob, NotStarted
<1>9. \A p \in Publishers : PublisherKnows(p)'
  BY <1>6 DEF PublisherKnows, NoJob, Working, Changing
<1>10. LockedByPublisher' /\ LeasesTyped' /\ (\A w \in Workers : WorkerKnows(w)')
  BY <1>6 DEF LockedByPublisher, LeasesTyped, WorkerKnows, NotStarted, Holding
<1>11. RemovingIsLocked'
  BY <1>3, <1>5 DEF RemovingIsLocked
<1>12. PublishedOnce'
  <2>1. PublishedOnce
    BY DEF EnvironmentsInv
  <2> QED
    BY <1>3, <1>5, <2>1 DEF PublishedOnce
<1> QED
  BY <1>1, <1>4, <1>7, <1>8, <1>9, <1>10, <1>11, <1>12 DEF EnvironmentsInv

LEMMA EnvironmentsGo == EnvironmentsInv /\ [EnvironmentsNext]_environmentVars => EnvironmentsInv'
<1> SUFFICES ASSUME EnvironmentsInv, [EnvironmentsNext]_environmentVars PROVE EnvironmentsInv'
  OBVIOUS
<1>1. ASSUME NEW p \in Publishers, PublisherStep(p) PROVE EnvironmentsInv'
  BY <1>1, EnsureCalled, RepairGoes, MoveGoes, EnsureGoes, PublishGoes, CleanGoes DEF PublisherStep
<1>2. ASSUME UNCHANGED environmentVars PROVE EnvironmentsInv'
  <2>1. UNCHANGED <<source, directories, publishing, publisher, exclusive, shared, worker, alive, late, mishaps>>
    BY <1>2 DEF environmentVars
  <2>2. EnvironmentTypeOK' /\ PublishersTyped' /\ WorkersTyped' /\ PublishedOnce' /\ RemovingIsLocked'
        /\ LockedByPublisher' /\ LeasesTyped'
    <3>1. EnvironmentTypeOK'
      BY <2>1 DEF EnvironmentsInv, EnvironmentTypeOK
    <3>2. PublishersTyped' /\ WorkersTyped' /\ PublishedOnce'
      BY <2>1 DEF EnvironmentsInv, PublishersTyped, WorkersTyped, PublishedOnce, Directories
    <3>3. RemovingIsLocked' /\ LockedByPublisher' /\ LeasesTyped'
      BY <2>1 DEF EnvironmentsInv, RemovingIsLocked, LockedByPublisher, LeasesTyped, Directories, Pinned
    <3> QED
      BY <3>1, <3>2, <3>3
  <2>3. (\A p \in Publishers : PublisherKnows(p)') /\ (\A w \in Workers : WorkerKnows(w)')
    BY <2>1 DEF EnvironmentsInv, PublisherKnows, WorkerKnows, Directories
  <2> QED
    BY <2>1, <2>2, <2>3 DEF EnvironmentsInv
<1> QED
  BY <1>1, <1>2, WorkerStepGoes, SourcesGo, CrashGoes, DamageGoes DEF EnvironmentsNext
=============================================================================
