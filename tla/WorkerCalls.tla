---------------------------- MODULE WorkerCalls ----------------------------
(***************************************************************************)
(* The RPC server of a model worker and the stream of its adapter: every     *)
(* call is a task of its own, one task at a time owns the adapter, and a     *)
(* native call that was cancelled runs on in its thread until it ends.  A    *)
(* step is what a task does between two awaits.  The native libraries are    *)
(* outside the repository: a native call ends, well or not, at any time.     *)
(***************************************************************************)
EXTENDS Integers, FiniteSets, Sequences, SequencesExt

CONSTANTS
    Ids,        \* request ids; a retry may use the id of the call before
    Slots,      \* connections open at once, not 0
    Chunk,      \* what the adapter passes to the model at once, in steps of its stream
    VadWindow,     \* what the VAD must have received for that: its frames overlap
    MaxCalls, MaxFailures   \* bounds: calls made, native calls that fail

ASSUME CallsAssumption ==
    /\ 0 \notin Slots /\ "none" \notin Ids
    /\ Chunk \in Nat \ {0} /\ VadWindow \in Nat /\ MaxCalls \in Nat /\ MaxFailures \in Nat

VARIABLES
    family,     \* the adapter: "asr" (nemotron) or "vad" (firered)
    call,       \* of each slot: the request, its task, its answer
    tasks,      \* RPCServer._tasks: the slot that holds an id, or 0
    queue,      \* the adapter lock: its owner, then those that wait
    loaded,     \* _loaded_path of the adapter
    model,      \* _model of the adapter
    stream,     \* the stream: whether it is open, and what was received of it, waits,
                \* was taken for the model and was heard by the model
    made, failures
callVars == <<family, call, tasks, queue, loaded, model, stream, made, failures>>

Methods == {"load", "unload", "open", "push", "close"}
NoCall == [id |-> "none", method |-> "none", amount |-> 0, task |-> "none", event |-> FALSE, answer |-> "none",
           frames |-> 0]
NoStream == [open |-> FALSE, cached |-> FALSE, received |-> 0, pending |-> 0, taken |-> 0, heard |-> 0]
Ended == {"done", "failed", "cancelled"}
Native == {s \in Slots : call[s].task \in {"native", "draining"}}

CallsTypeOK ==
    /\ family \in {"asr", "vad"} /\ loaded \in BOOLEAN /\ model \in BOOLEAN
    /\ tasks \in [Ids -> Slots \cup {0}] /\ queue \in Seq(Slots)
    /\ \A s \in Slots :
          /\ call[s].task \in {"none", "queued", "cancelling", "native", "draining"} \cup Ended
          /\ call[s].answer \in {"none", "ok", "error", "cancelled", "deadline"}

CallsInit ==
    /\ family \in {"asr", "vad"}
    /\ call = [s \in Slots |-> NoCall] /\ tasks = [i \in Ids |-> 0] /\ queue = <<>>
    /\ loaded = FALSE /\ model = FALSE /\ stream = NoStream
    /\ made = 0 /\ failures = 0

-----------------------------------------------------------------------------
(* Requests.                                                                *)

\* A request starts a task, unless its id is still active.
MakeCall(s, id, method, amount) ==
    /\ call[s] = NoCall /\ made < MaxCalls
    /\ method = "push" \/ amount = 0
    /\ made' = made + 1
    /\ IF tasks[id] # 0
       THEN UNCHANGED <<call, tasks, queue>>
       ELSE /\ call' = [call EXCEPT ![s] = [NoCall EXCEPT !.id = id, !.method = method,
                                                             !.amount = amount, !.task = "queued"]]
            /\ tasks' = [tasks EXCEPT ![id] = s]
            /\ queue' = Append(queue, s)
    /\ UNCHANGED <<family, loaded, model, stream, failures>>

\* What cancelling does to a task: one that waits for the lock ends without it, one
\* whose native call runs keeps the lock until that call ends.
Broken(record) ==
    [record EXCEPT !.event = TRUE,
                   !.task = IF @ = "queued" THEN "cancelling" ELSE IF @ = "native" THEN "draining" ELSE @]

\* Mutant: the cancelled call gives the adapter back at once, as if run_blocking did not wait.
GivenBack(s) == RemoveFirst(queue, s)

StillOwned(s) == queue

CancelCall(id) ==
    /\ tasks[id] # 0 /\ made < MaxCalls
    /\ made' = made + 1
    /\ call' = [call EXCEPT ![tasks[id]] = Broken(@)]
    /\ queue' = StillOwned(tasks[id])
    /\ UNCHANGED <<family, tasks, loaded, model, stream, failures>>

\* The deadline passes: the call is answered now, whatever its task still does.
Deadline(s) ==
    /\ call[s].task # "none" /\ call[s].answer = "none"
    /\ call' = [call EXCEPT ![s] = [Broken(@) EXCEPT !.answer = "deadline"]]
    /\ queue' = StillOwned(s)
    /\ UNCHANGED <<family, tasks, loaded, model, stream, made, failures>>

\* The task ended or was cancelled.
AnswerCall(s) ==
    /\ call[s].answer = "none" /\ (call[s].event \/ call[s].task \in Ended)
    /\ call' = [call EXCEPT ![s].answer =
                    IF call[s].event THEN "cancelled" ELSE IF call[s].task = "done" THEN "ok" ELSE "error"]
    /\ UNCHANGED <<family, tasks, queue, loaded, model, stream, made, failures>>

\* The id is free once the task has ended and its call is answered.
Retire(s) ==
    /\ call[s].task \in Ended /\ call[s].answer # "none"
    /\ tasks' = [i \in Ids |-> IF tasks[i] = s THEN 0 ELSE tasks[i]]
    /\ call' = [call EXCEPT ![s] = NoCall]
    /\ UNCHANGED <<family, queue, loaded, model, stream, made, failures>>

\* A cancelled task stops waiting for the lock.
Leave(s) ==
    /\ call[s].task = "cancelling"
    /\ call' = [call EXCEPT ![s].task = "cancelled"]
    /\ queue' = RemoveFirst(queue, s)
    /\ UNCHANGED <<family, tasks, loaded, model, stream, made, failures>>

-----------------------------------------------------------------------------
(* The adapter: Start is what its owner does before the first native call.  *)

Owner(s) == queue # <<>> /\ Head(queue) = s
Finish(s, outcome) ==
    /\ call' = [call EXCEPT ![s].task = outcome]
    /\ queue' = RemoveFirst(queue, s)
GoNative(s) == call' = [call EXCEPT ![s].task = "native"] /\ UNCHANGED queue

\* Whether a stream holds enough for the model after some of it was passed in this push.
Enough(pending, frames) == pending - frames * Chunk >= IF family = "asr" THEN Chunk ELSE VadWindow
\* The streaming model takes its chunk out of the stream before the call, the VAD keeps its
\* frames there until the push ends.
TakeChunk(state) ==
    IF family = "asr" THEN [state EXCEPT !.pending = @ - Chunk, !.taken = @ + Chunk] ELSE state

StartLoad(s) == call[s].method = "load" /\ GoNative(s) /\ UNCHANGED <<loaded, model, stream>>
StartUnload(s) ==
    /\ call[s].method = "unload" /\ Finish(s, "done")
    /\ loaded' = FALSE /\ model' = FALSE /\ stream' = NoStream
StartOpen(s) ==
    /\ call[s].method = "open"
    /\ IF ~loaded \/ stream.open THEN Finish(s, "failed") /\ UNCHANGED stream
       ELSE IF family = "asr" THEN GoNative(s) /\ stream' = [NoStream EXCEPT !.open = TRUE]
       ELSE Finish(s, "done") /\ stream' = [NoStream EXCEPT !.open = TRUE, !.cached = TRUE]
    /\ UNCHANGED <<loaded, model>>
StartPush(s) ==
    LET grown == [stream EXCEPT !.received = @ + call[s].amount, !.pending = @ + call[s].amount] IN
    /\ call[s].method = "push"
    /\ IF ~loaded \/ ~stream.open THEN Finish(s, "failed") /\ UNCHANGED stream
       ELSE IF Enough(grown.pending, 0) THEN GoNative(s) /\ stream' = TakeChunk(grown)
       ELSE Finish(s, "done") /\ stream' = grown
    /\ UNCHANGED <<loaded, model>>
StartClose(s) ==
    /\ call[s].method = "close"
    /\ IF ~loaded \/ ~stream.open THEN Finish(s, "failed") /\ UNCHANGED stream
       ELSE Finish(s, "done") /\ stream' = NoStream
    /\ UNCHANGED <<loaded, model>>

StartCall(s) ==
    /\ Owner(s) /\ call[s].task = "queued"
    /\ StartLoad(s) \/ StartUnload(s) \/ StartOpen(s) \/ StartPush(s) \/ StartClose(s)
    /\ UNCHANGED <<family, tasks, made, failures>>

-----------------------------------------------------------------------------
(* A native call ends: well or not, wanted or not.                          *)

Outcome(s, ok) == IF ~ok THEN "failed" ELSE IF call[s].task = "draining" THEN "cancelled" ELSE "done"

\* A model that was loaded for a cancelled call is dropped.
EndLoad(s, ok) ==
    /\ call[s].method = "load" /\ Finish(s, Outcome(s, ok))
    /\ loaded' = (loaded \/ Outcome(s, ok) = "done") /\ model' = (model \/ Outcome(s, ok) = "done")
    /\ UNCHANGED stream
\* A stream whose cache could not be made is taken back.
EndOpen(s, ok) ==
    /\ call[s].method = "open" /\ Finish(s, Outcome(s, ok))
    /\ stream' = IF Outcome(s, ok) = "done" THEN [stream EXCEPT !.cached = TRUE] ELSE NoStream
    /\ UNCHANGED <<loaded, model>>

\* What the model passed over in this push leaves the stream of the VAD when it ends.
Consumed(state, frames) ==
    IF family = "vad" THEN [state EXCEPT !.pending = @ - frames * Chunk, !.taken = @ + frames * Chunk] ELSE state
EndPush(s, ok) ==
    LET outcome == Outcome(s, ok)
        frames == call[s].frames + (IF ok THEN 1 ELSE 0)
        heard == [stream EXCEPT !.heard = IF ok THEN @ + Chunk ELSE @]
        more == Enough(stream.pending, IF family = "vad" THEN frames ELSE 0)
    IN
    /\ call[s].method = "push"
    /\ IF outcome = "done" /\ more
       THEN /\ call' = [call EXCEPT ![s].frames = frames] /\ UNCHANGED queue
            /\ stream' = TakeChunk(heard)
       ELSE /\ call' = [call EXCEPT ![s].frames = frames, ![s].task = outcome]
            /\ queue' = RemoveFirst(queue, s)
            /\ stream' = Consumed(heard, frames)
    /\ UNCHANGED <<loaded, model>>

NativeEnds(s, ok) ==
    /\ s \in Native /\ (~ok => failures < MaxFailures)
    /\ failures' = IF ok THEN failures ELSE failures + 1
    /\ EndLoad(s, ok) \/ EndOpen(s, ok) \/ EndPush(s, ok)
    /\ UNCHANGED <<family, tasks, made>>

CallsNext ==
    \/ \E s \in Slots, id \in Ids, m \in Methods, n \in 0..(2 * Chunk) : MakeCall(s, id, m, n)
    \/ \E id \in Ids : CancelCall(id)
    \/ \E s \in Slots : Deadline(s) \/ AnswerCall(s) \/ Retire(s) \/ Leave(s) \/ StartCall(s)
    \/ \E s \in Slots, ok \in BOOLEAN : NativeEnds(s, ok)
CallsSpec == CallsInit /\ [][CallsNext]_callVars

-----------------------------------------------------------------------------
\* A worker runs one native call at a time, also while a cancelled one runs on.
NativeAlone == Cardinality(Native) <= 1 /\ \A s \in Native : Owner(s)

\* An id belongs to one call until its task has ended: a retry under the same id cannot
\* run beside the call it repeats.
IdsOwned ==
    /\ \A s \in Slots : call[s].task # "none" => tasks[call[s].id] = s
    /\ \A s, t \in Slots : call[s].id = call[t].id /\ call[s].task # "none" => s = t

\* What was taken from the stream is what the model heard, and the rest still waits: a
\* cancelled push loses no audio and passes none twice.
StreamWhole ==
    stream.open /\ (\A s \in Slots : call[s].method # "push" \/ s \notin Native) =>
        /\ stream.received = stream.pending + stream.taken
        /\ failures = 0 => stream.heard = stream.taken

\* A model is there when the adapter says it is loaded, and a stream has its cache: a
\* load or an open that failed or was cancelled leaves nothing behind.
NothingHalfMade ==
    /\ loaded = model /\ (stream.open => loaded)
    /\ stream.open /\ ~stream.cached => \E s \in Native : call[s].method = "open"

\* A call that was cancelled before it had the adapter never reaches the model.
CancelledStaysOut == [][\A s \in Slots : call[s].task = "cancelling" => s \notin Native']_callVars
=============================================================================
