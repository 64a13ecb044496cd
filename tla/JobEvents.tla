----------------------------- MODULE JobEvents -----------------------------
(***************************************************************************)
(* How a page follows one job: the executor and the controls of the API      *)
(* publish events to the replay log of the process (PipelineEventBroker), a  *)
(* stream sends them to the page (routes.job_events, streamJobEvents), and   *)
(* the page reads a snapshot of the job when an event tells it to, on a      *)
(* timer and when its window gets the focus (JobPage).                       *)
(* A status is committed first and published after; the page sees neither at *)
(* once.  One step is a section under the broker's lock, a transaction, or a *)
(* message between the stream and the page.                                  *)
(***************************************************************************)
EXTENDS Integers, Sequences

CONSTANTS Retained,      \* events the log keeps of a job (512)
          MaxSequence,   \* bound: events published by one process
          MaxRuns,       \* bound: checkpoints started
          MaxMishaps     \* bound: controls, restarts, lost connections and returns to the window

ASSUME EventsAssumption ==
    Retained \in Nat \ {0} /\ MaxSequence \in Nat /\ MaxRuns \in Nat /\ MaxMishaps \in Nat

VARIABLES status,     \* of the job, as committed
          executor,   \* [run, phase, events]: the run_next under way, what it has to publish yet
          calls,      \* controls whose transaction ended: the events they publish next
          log, sequence, activity, owner,   \* the broker: numbers of its events, the last one, the run
                      \* whose activity is shown, and _runs
          stream,     \* the response of /events: [at, cursor, empty]
          wire,       \* what it sent and the page has not read
          seen, shown, refresh, fetch, answer,   \* the page
          told,       \* numbers of this process that the page has received
          foreign,    \* `seen' is a number of an earlier process
          skipped,    \* the highest such number from which a stream of this process went on
          budget
brokerVars == <<log, sequence, activity, owner>>
toldVars == <<told, foreign, skipped>>
pageVars == <<seen, shown, refresh, fetch, answer, toldVars>>
followVars == <<status, executor, calls, brokerVars, stream, wire, pageVars, budget>>

Terminal == {"completed", "cancelled", "failed"}
NoRun == 0
NoStream == [at |-> "closed", cursor |-> 0, empty |-> TRUE]
Reset == 0
Closing == {"checkpoint_completed", "checkpoint_failed", "checkpoint_yielded", "job_completed",
            "job_cancelled", "job_paused", "job_cancelling", "job_deferred", "job_shutdown_yield"}
Idle == [run |-> NoRun, phase |-> "idle", events |-> <<>>]

JobEventsInit ==
    /\ status = "pending" /\ executor = Idle /\ calls = {}
    /\ log = <<>> /\ sequence = 0 /\ activity = NoRun /\ owner = NoRun
    /\ stream = NoStream /\ wire = <<>>
    /\ seen = 0 /\ shown = "pending" /\ refresh = FALSE /\ fetch = "none" /\ answer = "none"
    /\ told = {} /\ foreign = FALSE /\ skipped = 0
    /\ budget = [runs |-> MaxRuns, mishaps |-> MaxMishaps]

LastNumber == IF log = <<>> THEN 0 ELSE log[Len(log)]
\* Numbers increase: the events after one are the end of the log.
After(cursor) ==
    LET later == {i \in DOMAIN log : log[i] > cursor}
    IN  IF later = {} THEN <<>>
        ELSE SubSeq(log, CHOOSE i \in later : \A j \in later : i <= j, Len(log))

-----------------------------------------------------------------------------
(* PipelineEventBroker.publish.                                             *)

\* Mutant: the activity of any run is taken.
SupersededEnd(kind, run) == kind \in {"checkpoint_completed", "checkpoint_failed"} /\ owner \notin {NoRun, run}

\* An activity is taken of the current run only; the end of another run is not
\* published; what ends, pauses or cancels a run leaves no activity behind.
Superseded(kind, run) ==
    \/ kind = "activity" /\ run # owner
    \/ kind \in {"checkpoint_completed", "checkpoint_failed"} /\ owner \notin {NoRun, run}

Kept(events) == SubSeq(events, IF Len(events) > Retained THEN 2 ELSE 1, Len(events))
Publish(kind, run) ==
    IF Superseded(kind, run) THEN UNCHANGED brokerVars
    ELSE /\ sequence < MaxSequence
         /\ sequence' = sequence + 1
         /\ log' = Kept(Append(log, sequence + 1))
         /\ owner' = IF kind = "checkpoint_started" THEN run ELSE IF kind \in Closing THEN NoRun ELSE owner
         /\ activity' = IF kind = "activity" THEN run
                        ELSE IF kind = "checkpoint_started" \/ kind \in Closing THEN NoRun ELSE activity

-----------------------------------------------------------------------------
(* The executor (run_next).  A refusal publishes before its transaction ends. *)

serverOnly == <<stream, wire, pageVars>>
StartRun ==
    /\ executor = Idle /\ status \in {"pending", "running"} /\ budget.runs > 0
    /\ status' = "running"
    /\ budget' = [budget EXCEPT !.runs = @ - 1]
    /\ executor' = [run |-> MaxRuns - budget.runs + 1, phase |-> "starts", events |-> <<"checkpoint_started">>]
    /\ UNCHANGED <<calls, brokerVars, serverOnly>>

\* run_next turns back: a job that is cancelled is, a process that ends or a paused
\* queue lets its job wait, dictation pauses one that runs and defers one that waits.
Refusals == [job_cancelled |-> "cancelled", job_shutdown_yield |-> "pending", job_paused |-> "paused"]
Refuse(kind) ==
    /\ executor = Idle /\ status \notin Terminal
    /\ kind = "job_cancelled" <=> status = "cancelling"
    /\ kind = "job_paused" => status \in {"running", "paused"}
    /\ kind = "job_deferred" => status = "pending"
    /\ Publish(kind, NoRun)
    /\ executor' = IF status \in {"cancelling", "running"} THEN [Idle EXCEPT !.phase = Refusals[kind]] ELSE Idle
    /\ UNCHANGED <<status, calls, serverOnly, budget>>
CommitRefusal ==
    /\ executor.phase \in {"cancelled", "pending", "paused"}
    /\ status' = executor.phase /\ executor' = Idle
    /\ UNCHANGED <<calls, brokerVars, serverOnly, budget>>

\* The stage reports; so does a thread of an earlier run that has not ended yet.
Report(run) ==
    /\ run = executor.run => executor.phase = "runs"
    /\ run \in 1..(MaxRuns - budget.runs)
    /\ Publish("activity", run)
    /\ UNCHANGED <<status, executor, calls, serverOnly, budget>>

\* The transaction of the checkpoint ends: what it commits is published afterwards.
\* The last checkpoint ends the job whatever its status; a failure leaves it to be
\* retried, failed, or, where the failure itself could not be stored, as it was.
Committed(outcome, last) ==
    CASE outcome = "completed" /\ last ->
           IF status \in {"cancelling", "cancelled"} THEN {"cancelled"} ELSE {"completed"}
      [] outcome = "failed" /\ status \notin Terminal ->
           {status} \cup (IF status = "cancelling" THEN {"cancelled"}
                          ELSE IF status = "paused" THEN {"failed"} ELSE {"pending", "failed"})
      [] OTHER -> {status}
Ended(outcome) ==
    <<[completed |-> "checkpoint_completed", failed |-> "checkpoint_failed",
       yielded |-> "checkpoint_yielded"][outcome]>>
    \o (IF outcome = "completed" /\ status' = "cancelled" THEN <<"job_cancelled">>
        ELSE IF outcome = "completed" /\ status' = "completed" THEN <<"job_completed">> ELSE <<>>)
FinishRun(outcome, last) ==
    /\ executor.phase = "runs"
    /\ status' \in Committed(outcome, last)
    /\ executor' = [executor EXCEPT !.phase = "ends", !.events = Ended(outcome)]
    /\ UNCHANGED <<calls, brokerVars, serverOnly, budget>>

\* The storage fails where run_next does not expect it, before the checkpoint starts or
\* behind its completion: the job has failed, and what was not published never is.
BreakOff ==
    /\ budget.mishaps > 0 /\ budget' = [budget EXCEPT !.mishaps = @ - 1]
    /\ \/ executor.phase \in {"idle", "cancelled", "pending", "paused"} /\ status \notin Terminal
       \/ executor.phase = "ends" /\ Head(executor.events) = "checkpoint_completed"
    /\ status' = "failed" /\ executor' = Idle
    /\ calls' = calls \cup {[kind |-> "job_failed", own |-> FALSE, number |-> budget.mishaps]}
    /\ UNCHANGED <<brokerVars, serverOnly>>

PublishNext ==
    /\ executor.events # <<>>
    /\ Publish(Head(executor.events), executor.run)
    /\ executor' = IF Len(executor.events) > 1 THEN [executor EXCEPT !.events = Tail(@)]
                   ELSE IF executor.phase = "starts" THEN [executor EXCEPT !.phase = "runs", !.events = <<>>]
                   ELSE Idle
    /\ UNCHANGED <<status, calls, serverOnly, budget>>

-----------------------------------------------------------------------------
(* Controls: of this page (own), or of another window or program.           *)

Controlled(action) ==
    CASE action = "pause" /\ status \in {"pending", "running"} -> "paused"
      [] action = "resume" /\ status = "paused" -> "pending"
      [] action = "cancel" /\ status = "running" -> "cancelling"
      [] action = "cancel" /\ status \in {"pending", "paused", "failed"} -> "cancelled"
      [] action = "retry" /\ status = "failed" -> "pending"
      [] OTHER -> "refused"
\* A retry publishes nothing.
Announces == [pause |-> "job_paused", resume |-> "job_resumed", cancel |-> "job_cancelling", retry |-> "none"]

Control(action, own) ==
    /\ budget.mishaps > 0 /\ Controlled(action) # "refused"
    /\ own => answer = "none"
    /\ status' = Controlled(action)
    /\ calls' = calls \cup {[kind |-> Announces[action], own |-> own, number |-> budget.mishaps]}
    /\ answer' = IF own THEN "asked" ELSE answer
    /\ budget' = [budget EXCEPT !.mishaps = @ - 1]
    /\ UNCHANGED <<executor, brokerVars, stream, wire, seen, shown, refresh, fetch, toldVars>>

\* The control publishes and answers its own page with a snapshot; so is a job that
\* broke off announced.
Announce(call) ==
    /\ call \in calls /\ calls' = calls \ {call}
    /\ IF call.kind = "none" THEN UNCHANGED brokerVars ELSE Publish(call.kind, NoRun)
    /\ answer' = IF call.own THEN status ELSE answer
    /\ UNCHANGED <<status, executor, stream, wire, seen, shown, refresh, fetch, toldVars, budget>>

\* The process starts anew: the log is empty, numbers start again, and the job is
\* taken up where its checkpoints are.
Restart ==
    /\ budget.mishaps > 0 /\ budget' = [budget EXCEPT !.mishaps = @ - 1]
    /\ status' = IF status = "running" THEN "pending" ELSE IF status = "cancelling" THEN "cancelled" ELSE status
    /\ executor' = Idle /\ calls' = {}
    /\ log' = <<>> /\ sequence' = 0 /\ activity' = NoRun /\ owner' = NoRun
    /\ stream' = NoStream /\ wire' = <<>> /\ fetch' = "none"
    /\ answer' = IF answer = "asked" THEN "none" ELSE answer
    /\ told' = {} /\ foreign' = (seen # 0) /\ skipped' = 0
    /\ UNCHANGED <<seen, shown, refresh>>

-----------------------------------------------------------------------------
(* The stream.                                                              *)

Following == shown \notin Terminal

\* A cursor this process has not reached is of another one: the page starts over.  A
\* number of an earlier process that this one has reached is taken for its own.
FirstCursor == IF seen > LastNumber THEN 0 ELSE seen
Connect ==
    /\ Following /\ stream.at = "closed" /\ wire = <<>>
    /\ stream' = [at |-> "reads", cursor |-> FirstCursor, empty |-> TRUE]
    /\ wire' = IF FirstCursor # seen THEN <<Reset>> ELSE <<>>
    /\ skipped' = IF foreign /\ FirstCursor = seen /\ seen > skipped THEN seen ELSE skipped
    /\ UNCHANGED <<status, executor, calls, brokerVars, seen, shown, refresh, fetch, answer, told, foreign,
                   budget>>
ReadLog ==
    /\ stream.at = "reads" /\ Len(wire) <= Retained
    /\ wire' = wire \o After(stream.cursor)
    /\ stream' = [at |-> "checks", empty |-> After(stream.cursor) = <<>>,
                  cursor |-> IF After(stream.cursor) = <<>> THEN stream.cursor ELSE LastNumber]
    /\ UNCHANGED <<status, executor, calls, brokerVars, pageVars, budget>>
\* A job that has ended and has nothing new closes the stream.
CheckEnd ==
    /\ stream.at = "checks"
    /\ stream' = IF status \in Terminal /\ stream.empty THEN NoStream ELSE [stream EXCEPT !.at = "reads"]
    /\ UNCHANGED <<status, executor, calls, brokerVars, wire, pageVars, budget>>
Drop ==
    /\ budget.mishaps > 0 /\ budget' = [budget EXCEPT !.mishaps = @ - 1]
    /\ stream # NoStream /\ stream' = NoStream /\ wire' = <<>>
    /\ UNCHANGED <<status, executor, calls, brokerVars, pageVars>>

-----------------------------------------------------------------------------
(* The page.                                                                *)

\* What the page does with a status it is given: one that ended stops the stream
\* and the timers, one that did not starts the stream from the beginning.
Shows(new) ==
    /\ shown' = new
    /\ IF new \in Terminal THEN stream' = NoStream /\ wire' = <<>> /\ refresh' = FALSE
       ELSE UNCHANGED <<stream, wire, refresh>>
    /\ IF shown \in Terminal \/ new \in Terminal THEN seen' = 0 /\ foreign' = FALSE
       ELSE UNCHANGED <<seen, foreign>>
    /\ UNCHANGED <<told, skipped>>
serverKept == <<status, executor, calls, brokerVars>>

Receive ==
    /\ Following /\ wire # <<>> /\ wire' = Tail(wire)
    /\ IF Head(wire) # Reset /\ Head(wire) <= seen THEN UNCHANGED <<seen, refresh, told, foreign>>
       ELSE /\ seen' = Head(wire) /\ refresh' = TRUE /\ foreign' = FALSE
            /\ told' = IF Head(wire) = Reset THEN told ELSE told \cup {Head(wire)}
    /\ UNCHANGED <<serverKept, stream, shown, fetch, answer, skipped, budget>>

\* A refresh replaces the request under way; the timer and the focus do not.
Refresh ==
    /\ refresh /\ refresh' = FALSE /\ fetch' = "asked"
    /\ UNCHANGED <<serverKept, stream, wire, seen, shown, answer, toldVars, budget>>
Poll ==
    /\ Following /\ fetch = "none" /\ fetch' = "asked"
    /\ UNCHANGED <<serverKept, stream, wire, seen, shown, refresh, answer, toldVars, budget>>
Focus ==
    /\ budget.mishaps > 0 /\ fetch = "none" /\ fetch' = "asked"
    /\ budget' = [budget EXCEPT !.mishaps = @ - 1]
    /\ UNCHANGED <<serverKept, stream, wire, seen, shown, refresh, answer, toldVars>>
ReadSnapshot ==
    /\ fetch = "asked" /\ fetch' = status
    /\ UNCHANGED <<serverKept, stream, wire, seen, shown, refresh, answer, toldVars, budget>>
Arrive ==
    /\ fetch \notin {"none", "asked"} /\ fetch' = "none"
    /\ Shows(fetch)
    /\ UNCHANGED <<serverKept, answer, budget>>
Answered ==
    /\ answer \notin {"none", "asked"} /\ answer' = "none"
    /\ Shows(answer)
    /\ UNCHANGED <<serverKept, fetch, budget>>

-----------------------------------------------------------------------------
Refused == {"job_cancelled", "job_shutdown_yield", "job_paused", "job_deferred"}
Executes ==
    \/ StartRun \/ CommitRefusal \/ PublishNext \/ BreakOff
    \/ \E kind \in Refused : Refuse(kind)
    \/ \E outcome \in {"completed", "failed", "yielded"}, last \in BOOLEAN : FinishRun(outcome, last)
    \/ \E call \in calls : Announce(call)
Follows == Connect \/ ReadLog \/ CheckEnd \/ Receive \/ Refresh \/ Poll \/ ReadSnapshot \/ Arrive \/ Answered
JobEventsNext ==
    \/ Executes \/ Follows \/ Focus \/ Drop \/ Restart
    \/ \E run \in 1..MaxRuns : Report(run)
    \/ \E action \in {"pause", "resume", "cancel", "retry"}, own \in BOOLEAN : Control(action, own)

\* The page's requests end, and its timer fires.
Asks == Refresh \/ Poll
JobEventsFairness == WF_followVars(ReadSnapshot) /\ WF_followVars(Arrive) /\ WF_followVars(Answered)
                     /\ WF_followVars(Asks)
JobEventsSpec == JobEventsInit /\ [][JobEventsNext]_followVars /\ JobEventsFairness

\* While a checkpoint is under way, the activity shown is its own, however late a thread
\* of an earlier one reports.
ActivityIsCurrent ==
    executor.phase \in {"runs", "ends"} /\ activity # NoRun => activity = executor.run

\* Every event in the log was received by the page, is on its way to it, or follows the
\* cursor of the open stream: over lost connections, restarts of the process and of the
\* page's count, and events that fall out of the log meanwhile.  Passed over are only
\* those up to a number that the page kept of an earlier process (routes.py:223).
NothingMissed ==
    stream # NoStream =>
        \A i \in DOMAIN log : \/ log[i] \in told \/ log[i] > stream.cursor
                              \/ \E k \in DOMAIN wire : wire[k] = log[i]
                              \/ log[i] <= skipped

\* What the page reads of a stream is in the order in which it was published: nothing
\* that is still in the log lies between one number and the next.
NothingPassedOver ==
    [][stream' = stream /\ stream # NoStream /\ seen' > seen /\ seen <= sequence =>
         \A i \in DOMAIN log : ~(seen < log[i] /\ log[i] < seen')]_followVars

\* A page is told of the events of its job in their order, all those behind the number
\* it kept, and is shown the activity of the checkpoint under way.
EventsFollowed == [](ActivityIsCurrent /\ NothingMissed) /\ NothingPassedOver

\* Known to fail: a page is told of every event in the log.  A number it kept of the
\* process before is taken for one of this process as soon as that has published as
\* many, and the events up to it are not sent; the snapshots show the status anyway.
AllTold ==
    stream # NoStream =>
        \A i \in DOMAIN log : \/ log[i] \in told \/ log[i] > stream.cursor
                              \/ \E k \in DOMAIN wire : wire[k] = log[i]

\* A page whose job ended for good stops showing it as going on.
EndIsShown == status \in Terminal ~> (shown \in Terminal \/ status \notin Terminal)
=============================================================================
