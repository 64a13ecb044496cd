--------------------------- MODULE DeliveryProofs ---------------------------
(***************************************************************************)
(* What the program delivers, it delivers once and to whom it is due, for    *)
(* every bound: the paid request of the online job, and the text of a        *)
(* dictation in the window it was spoken for.                               *)
(*                                                                          *)
(* The refinement of PaidRequest rests on what the job's thread may assume   *)
(* at each of its places: until the upload nothing has been received and the *)
(* latest attempt has not been sent; once a response file exists it belongs  *)
(* to the latest attempt, which was sent and was not refused; and while the  *)
(* thread is inside a request the job is not failed, so that no retry can    *)
(* replace the attempt under it.                                            *)
(*                                                                          *)
(* What is written to a window is right because of what an engine that       *)
(* follows the daemon's events has in common with it (Follows): it has the   *)
(* focus, it has heard all that is written, and it has kept the focus since  *)
(* each session it has not heard of was armed.                              *)
(***************************************************************************)
EXTENDS MaiRequests, MCDictationText,
        FiniteSetTheorems, SequenceTheorems, WellFoundedInduction, TLAPS

-----------------------------------------------------------------------------
(* Requests.                                                                *)

LEMMA MarkTyped ==
    ASSUME attempts \in Seq(Attempt), Latest > 0, NEW st \in AttemptStatus, Mark(st)
    PROVE  /\ attempts' \in Seq(Attempt)
           /\ Len(attempts') = Latest
           /\ attempts'[Latest].st = st
           /\ \A n \in 1..Latest : attempts'[n].fp = attempts[n].fp
<1> DEFINE new == [attempts[Latest] EXCEPT !.st = st]
<1>1. Latest \in 1..Len(attempts) /\ Latest \in Nat
  BY LenProperties DEF Latest
<1>2. attempts[Latest] \in Attempt
  BY <1>1, ElementOfSeq
<1>3. new \in Attempt /\ new.st = st /\ new.fp = attempts[Latest].fp
  BY <1>2 DEF Attempt
<1>4. attempts' = [attempts EXCEPT ![Latest] = new]
  BY DEF Mark
<1> HIDE DEF new
<1> QED BY <1>1, <1>3, <1>4, ExceptSeq DEF Latest

LEMMA AppendTyped ==
    ASSUME attempts \in Seq(Attempt), NEW a \in Attempt, attempts' = Append(attempts, a)
    PROVE  /\ attempts' \in Seq(Attempt)
           /\ Len(attempts') = Latest + 1
           /\ attempts'[Latest + 1] = a
           /\ \A n \in 1..Latest : attempts'[n] = attempts[n]
BY DEF Latest, Attempt

-----------------------------------------------------------------------------
(* The invariant.                                                           *)

PTypes ==
    /\ attempts \in Seq(Attempt)
    /\ saved \subseteq Nat
    /\ sends \in Seq([n : Nat, fp : 1..MaxInputs])
    /\ local \in 1..MaxInputs /\ inputs \in 1..MaxInputs

\* Requests belong to attempts, a response to the latest one.
Evidence ==
    /\ \A i \in 1..Len(sends) : sends[i].n \in 1..Latest
    /\ saved = {} \/ saved = {Latest}
    /\ saved # {} => Sent(Latest) /\ LatestIs({"sending", "uncertain", "responded", "imported"})
    /\ LatestIs({"prepared"}) => ~Sent(Latest)

\* What holds at the places of the thread inside a request.
Places ==
    /\ pc \in {"read", "prepare", "encode", "intent", "record", "connect", "upload",
               "wait", "save", "refused"} => saved = {}
    /\ pc \in {"encode", "intent"} => LatestIs({"prepared"})
    /\ pc \in {"record", "connect", "upload"} => LatestIs({"sending"}) /\ ~Sent(Latest)
    /\ pc \in {"wait", "save", "refused", "respond"} => LatestIs({"sending"}) /\ Sent(Latest)
    /\ pc = "respond" => saved = {Latest}
    /\ pc = "unknown" => LatestIs({"sending"})
    /\ pc # "idle" => status # "failed"

Recorded ==
    /\ \A i \in 1..Len(sends) : sends[i].fp = attempts[sends[i].n].fp
    /\ pc \in {"encode", "intent", "record", "connect", "upload"} =>
           attempts[Latest].fp = local

MInv == PTypes /\ Evidence /\ Places /\ Recorded

LEMMA MInitial == Init => MInv
BY MaiAssumption
   DEF Init, MInv, PTypes, Evidence, Places, Recorded, Latest, LatestIs, Sent

\* A new status of the latest attempt disturbs nothing else.
LEMMA MarkKeeps ==
    ASSUME MInv, Latest > 0, NEW st \in AttemptStatus \ {"prepared"}, Mark(st),
           UNCHANGED <<saved, sends, local, inputs>>,
           saved # {} => st \in {"sending", "uncertain", "responded", "imported"}
    PROVE  /\ PTypes' /\ Evidence'
           /\ Latest' = Latest /\ LatestIs({st})'
           /\ Sent(Latest)' <=> Sent(Latest)
           /\ \A n \in 1..Latest : attempts'[n].fp = attempts[n].fp
           /\ \A i \in 1..Len(sends) : sends[i].fp = attempts'[sends[i].n].fp
<1>1. /\ attempts' \in Seq(Attempt)
      /\ Len(attempts') = Latest
      /\ attempts'[Latest].st = st
      /\ \A n \in 1..Latest : attempts'[n].fp = attempts[n].fp
  BY MarkTyped DEF MInv, PTypes
<1>2. Latest' = Latest
  BY <1>1 DEF Latest
<1>3. LatestIs({st})'
  BY <1>1, <1>2 DEF LatestIs
<1>4. Sent(Latest)' <=> Sent(Latest)
  BY <1>2 DEF Sent
<1>5. PTypes'
  BY <1>1 DEF MInv, PTypes
<1>6. Evidence'
  BY <1>2, <1>3, <1>4 DEF MInv, Evidence, LatestIs
<1>7. \A i \in 1..Len(sends) : sends[i].fp = attempts'[sends[i].n].fp
  BY <1>1 DEF MInv, Recorded, Evidence
<1> QED BY <1>1, <1>2, <1>3, <1>4, <1>5, <1>6, <1>7

\* Every step keeps the invariant.
LEMMA MStep == MInv /\ [Next]_vars => MInv'
<1> SUFFICES ASSUME MInv, [Next]_vars PROVE MInv'
  OBVIOUS
<1> USE DEF MInv, PTypes, Evidence, Places, Recorded, Latest, LatestIs, Sent, Goto, job, page
<1>1. CASE Dispatch
  BY <1>1 DEF Dispatch
<1>2. CASE NextEnded
  BY <1>2 DEF NextEnded
<1>3. CASE NextCheckpoint
  BY <1>3 DEF NextCheckpoint
<1>4. CASE Begin
  BY <1>4 DEF Begin
<1>5. CASE Recover
  <2>1. CASE Recoverable
    <3> DEFINE st == IF LatestIs({"imported"}) THEN "imported" ELSE "responded"
    <3>1. /\ Latest > 0 /\ Mark(st) /\ st \in AttemptStatus \ {"prepared"}
          /\ st \in {"sending", "uncertain", "responded", "imported"}
      BY <1>5, <2>1 DEF Recover, Recoverable, AttemptStatus
    <3>2. UNCHANGED <<saved, sends, local, inputs, status>> /\ pc' = "complete" /\ pc = "recover"
      BY <1>5, <2>1 DEF Recover
    <3> HIDE DEF st
    <3>3. PTypes' /\ Evidence' /\ \A i \in 1..Len(sends) : sends[i].fp = attempts'[sends[i].n].fp
      BY <3>1, <3>2, MarkKeeps
    <3> QED BY <3>2, <3>3
  <2>2. CASE ~Recoverable
    <3>1. saved = {}
      BY <2>2 DEF Recoverable
    <3> QED BY <1>5, <2>2, <3>1 DEF Recover
  <2> QED BY <2>1, <2>2
<1>6. CASE ReadInputs
  BY <1>6 DEF ReadInputs
<1>7. CASE Prepare
  <2>1. CASE Latest = 0
    <3> DEFINE a == [st |-> "prepared", fp |-> local]
    <3>1. attempts' = Append(attempts, a) /\ a \in Attempt /\ sends = <<>>
      <4>1. Len(sends) = 0
        <5>1. Len(sends) \in Nat
          BY LenProperties
        <5>2. ASSUME Len(sends) # 0 PROVE FALSE
          <6>1. 1 \in 1..Len(sends)
            BY <5>1, <5>2
          <6>2. sends[1].n \in 1..0
            BY <2>1, <6>1
          <6> QED BY <6>2
        <5> QED BY <5>2
      <4> QED BY <1>7, <2>1, <4>1 DEF Prepare, Attempt, AttemptStatus
    <3>2. Len(attempts') = 1 /\ attempts'[1] = a /\ attempts' \in Seq(Attempt)
      BY <2>1, <3>1, AppendTyped
    <3> QED BY <1>7, <2>1, <3>1, <3>2 DEF Prepare
  <2>2. CASE Latest # 0
    BY <1>7, <2>2 DEF Prepare
  <2> QED BY <2>1, <2>2
<1>8. CASE Encode
  BY <1>8 DEF Encode
<1>9. CASE CommitIntent
  <2>1. /\ Latest > 0 /\ Mark("sending") /\ "sending" \in AttemptStatus \ {"prepared"}
        /\ UNCHANGED <<saved, sends, local, inputs>>
    BY <1>9 DEF CommitIntent, AttemptStatus
  <2>2. /\ PTypes' /\ Evidence' /\ LatestIs({"sending"})' /\ Latest' = Latest
        /\ Sent(Latest)' <=> Sent(Latest)
        /\ \A n \in 1..Latest : attempts'[n].fp = attempts[n].fp
        /\ \A i \in 1..Len(sends) : sends[i].fp = attempts'[sends[i].n].fp
    <3> HIDE DEF PTypes, Evidence, LatestIs, Sent, Latest
    <3> QED BY <1>9, <2>1, MarkKeeps
  <2> QED BY <1>9, <2>1, <2>2 DEF CommitIntent
<1>10. CASE RecordRequest
  BY <1>10 DEF RecordRequest
<1>11. CASE Connect
  BY <1>11 DEF Connect
<1>12. CASE Upload
  <2> DEFINE send == [n |-> Latest, fp |-> local]
  <2>1. Latest \in Nat \ {0} /\ LatestIs({"sending"}) /\ saved = {}
    BY <1>12, LenProperties DEF Upload
  <2>2. /\ sends' = Append(sends, send) /\ pc' = "wait" /\ pc = "upload"
        /\ UNCHANGED <<attempts, saved, local, inputs, status>>
    BY <1>12 DEF Upload
  <2>3. send \in [n : Nat, fp : 1..MaxInputs] /\ send.n = Latest /\ send.fp = local
    BY <2>1
  <2> HIDE DEF send
  <2>4. /\ sends' \in Seq([n : Nat, fp : 1..MaxInputs])
        /\ Len(sends') = Len(sends) + 1
        /\ sends'[Len(sends) + 1] = send
        /\ \A i \in 1..Len(sends) : sends'[i] = sends[i]
    BY <2>2, <2>3, AppendProperties
  <2>5. Len(sends) \in Nat
    BY LenProperties
  <2>6. Sent(Latest)'
    BY <2>2, <2>3, <2>4, <2>5
  <2>7. \A i \in 1..Len(sends') : \/ i \in 1..Len(sends) /\ sends'[i] = sends[i]
                                  \/ sends'[i] = send
    <3> SUFFICES ASSUME NEW i \in 1..(Len(sends) + 1)
                 PROVE  (i \in 1..Len(sends) /\ sends'[i] = sends[i]) \/ sends'[i] = send
      BY <2>4
    <3>1. CASE i = Len(sends) + 1
      BY <2>4, <3>1
    <3>2. CASE i \in 1..Len(sends)
      BY <2>4, <3>2
    <3> QED BY <2>5, <3>1, <3>2
  <2>8. PTypes'
    BY <2>2, <2>4
  <2>9. Evidence'
    <3>1. \A i \in 1..Len(sends') : sends'[i].n \in 1..Latest
      BY <2>1, <2>3, <2>7
    <3> QED BY <2>1, <2>2, <3>1
  <2>10. Places'
    <3> HIDE DEF Sent
    <3> QED BY <2>1, <2>2, <2>6
  <2>11. Recorded'
    <3>1. \A i \in 1..Len(sends') : sends'[i].fp = attempts[sends'[i].n].fp
      BY <2>2, <2>3, <2>7
    <3> QED BY <2>2, <3>1
  <2> QED BY <2>8, <2>9, <2>10, <2>11
<1>13. CASE Refused
  BY <1>13 DEF Refused
<1>14. CASE Received
  BY <1>14 DEF Received
<1>15. CASE SaveResponse
  <2>1. Latest \in Nat /\ saved' = {Latest}
    BY <1>15, LenProperties DEF SaveResponse
  <2> QED BY <1>15, <2>1 DEF SaveResponse
<1>16. CASE CommitResponse
  <2>1. /\ Latest > 0 /\ Mark("responded") /\ "responded" \in AttemptStatus \ {"prepared"}
        /\ UNCHANGED <<saved, sends, local, inputs>>
    BY <1>16 DEF CommitResponse, AttemptStatus
  <2>2. /\ PTypes' /\ Evidence' /\ LatestIs({"responded"})' /\ Latest' = Latest
        /\ Sent(Latest)' <=> Sent(Latest)
        /\ \A n \in 1..Latest : attempts'[n].fp = attempts[n].fp
        /\ \A i \in 1..Len(sends) : sends[i].fp = attempts'[sends[i].n].fp
    <3> HIDE DEF PTypes, Evidence, LatestIs, Sent, Latest
    <3> QED BY <1>16, <2>1, MarkKeeps
  <2> QED BY <1>16, <2>1, <2>2 DEF CommitResponse
<1>17. CASE ResultUnknown
  BY <1>17 DEF ResultUnknown, Uncertain
<1>18. CASE RecordOutcome
  <2> DEFINE st == IF pc = "refused" THEN "failed" ELSE "uncertain"
  <2>1. /\ Latest > 0 /\ Mark(st) /\ st \in AttemptStatus \ {"prepared"}
        /\ saved # {} => st = "uncertain"
        /\ UNCHANGED <<saved, sends, local, inputs, status>> /\ pc' = "fail" /\ pc # "idle"
    BY <1>18 DEF RecordOutcome, AttemptStatus
  <2> HIDE DEF st
  <2>2. PTypes' /\ Evidence' /\ \A i \in 1..Len(sends) : sends[i].fp = attempts'[sends[i].n].fp
    BY <2>1, MarkKeeps
  <2> QED BY <2>1, <2>2
<1>19. CASE CompleteRequest
  BY <1>19 DEF CompleteRequest, CompletedStatus
<1>20. CASE ImportResponse
  <2>1. /\ Latest > 0 /\ Mark("imported") /\ "imported" \in AttemptStatus \ {"prepared"}
        /\ UNCHANGED <<saved, sends, local, inputs>>
    BY <1>20 DEF ImportResponse, AttemptStatus
  <2>2. /\ PTypes' /\ Evidence' /\ LatestIs({"imported"})' /\ Latest' = Latest
        /\ Sent(Latest)' <=> Sent(Latest)
        /\ \A n \in 1..Latest : attempts'[n].fp = attempts[n].fp
        /\ \A i \in 1..Len(sends) : sends[i].fp = attempts'[sends[i].n].fp
    <3> HIDE DEF PTypes, Evidence, LatestIs, Sent, Latest
    <3> QED BY <1>20, <2>1, MarkKeeps
  <2> QED BY <1>20, <2>1, <2>2 DEF ImportResponse
<1>21. CASE StageFails
  BY <1>21 DEF StageFails, Stoppable
<1>22. CASE FailCheckpoint
  BY <1>22 DEF FailCheckpoint
<1>23. CASE Cancel
  BY <1>23 DEF Cancel, CancelResult, Cancellable
<1>24. CASE OpenPage
  BY <1>24 DEF OpenPage
<1>25. CASE CoolDown
  BY <1>25 DEF CoolDown
<1>26. CASE ChangeInputs
  BY <1>26, MaiAssumption DEF ChangeInputs
<1>27. CASE Crash
  BY <1>27, MaiAssumption DEF Crash
<1>28. ASSUME NEW confirm \in BOOLEAN, NEW expected \in {0, seen}, Retry(confirm, expected)
       PROVE MInv'
  <2>1. UNCHANGED <<saved, pc, local, inputs, sends>> /\ pc = "idle"
    BY <1>28 DEF Retry
  <2>2. CASE UNCHANGED attempts
    BY <2>1, <2>2
  <2>3. CASE NeedsConfirmation /\ attempts' # attempts
    <3> DEFINE a == [attempts[Latest] EXCEPT !.st = "prepared"]
    <3>1. Latest \in Nat \ {0} /\ attempts[Latest] \in Attempt
      BY <2>3, LenProperties, ElementOfSeq DEF NeedsConfirmation
    <3>2. a \in Attempt /\ a.st = "prepared"
      BY <3>1 DEF Attempt, AttemptStatus
    <3>3. attempts' = Append(attempts, a)
      BY <1>28, <2>3 DEF Retry
    <3> HIDE DEF a
    <3>4. /\ attempts' \in Seq(Attempt)
          /\ Latest' = Latest + 1
          /\ attempts'[Latest + 1] = a
          /\ \A n \in 1..Latest : attempts'[n] = attempts[n]
      BY <3>2, <3>3, AppendTyped
    <3>5. saved = {}
      BY <2>3 DEF NeedsConfirmation, Recoverable
    <3>6. \A i \in 1..Len(sends) : sends[i].n \in 1..Latest
      OBVIOUS
    <3>7. Evidence'
      BY <2>1, <3>1, <3>4, <3>5, <3>6
    <3>8. Recorded'
      BY <2>1, <3>4, <3>6
    <3> QED BY <2>1, <3>4, <3>5, <3>7, <3>8
  <2> QED BY <1>28, <2>2, <2>3 DEF Retry
<1>29. CASE UNCHANGED vars
  BY <1>29 DEF vars
<1> QED
  BY <1>1, <1>2, <1>3, <1>4, <1>5, <1>6, <1>7, <1>8, <1>9, <1>10, <1>11, <1>12, <1>13, <1>14, <1>15, <1>16, <1>17, <1>18, <1>19, <1>20, <1>21, <1>22, <1>23, <1>24, <1>25, <1>26, <1>27, <1>28, <1>29 DEF Next, ExecutorStep

-----------------------------------------------------------------------------
(* The theorems.                                                            *)

LEMMA MInvariant == Spec => []MInv
BY MInitial, MStep, PTL DEF Spec

\* Whatever the inputs do while a request is prepared or retried, what the
\* service receives is what the attempt has on record.
THEOREM RecordedAsSent == Spec => []SentAsRecorded
<1>1. MInv => SentAsRecorded
  BY DEF MInv, Recorded, SentAsRecorded
<1> QED BY MInvariant, <1>1, PTL

\* The mapping sees the response file, the requests and the latest attempt.
LEMMA PromiseStutters ==
    ASSUME UNCHANGED <<saved, sends>>, Sent(Latest)' <=> Sent(Latest)
    PROVE  UNCHANGED Promise!paid
BY DEF Promise!paid, Sent

LEMMA PromiseInitial == Init => Promise!Init
BY DEF Init, Promise!Init, Sent, Latest

\* The upload is the send the user has authorized.
LEMMA UploadSends == MInv /\ MInv' /\ Upload => Promise!Send
<1> SUFFICES ASSUME MInv, MInv', Upload PROVE Promise!Send
  OBVIOUS
<1>1. saved = {} /\ ~Sent(Latest) /\ saved' = {}
  BY DEF Upload, MInv, Places
<1>2. Sent(Latest)'
  BY DEF Upload, Goto, MInv, Places
<1>3. Len(sends') = Len(sends) + 1
  BY AppendProperties, LenProperties DEF Upload, MInv, PTypes
<1> QED BY <1>1, <1>2, <1>3 DEF Promise!Send

LEMMA ResponseSaves == MInv /\ SaveResponse => Promise!Save
BY DEF SaveResponse, MInv, Places, Promise!Save, Sent

\* A confirmed retry authorizes another send, if the last attempt was sent;
\* if it was not, its authorization is only taken over.
LEMMA RetryAuthorizes ==
    ASSUME MInv, MInv', NEW confirm \in BOOLEAN, NEW expected \in {0, seen},
           Retry(confirm, expected)
    PROVE  Promise!Authorize \/ UNCHANGED Promise!paid
<1>1. CASE UNCHANGED attempts
  <2>1. Sent(Latest)' <=> Sent(Latest)
    BY <1>1 DEF Retry, Sent, Latest
  <2> QED BY <2>1, PromiseStutters DEF Retry
<1>2. CASE ~UNCHANGED attempts
  <2>1. NeedsConfirmation /\ attempts' = Append(attempts, [attempts[Latest] EXCEPT !.st = "prepared"])
    BY <1>2 DEF Retry
  <2>2. Latest \in 1..Len(attempts) /\ Latest \in Nat
    BY <2>1, LenProperties DEF Latest, LatestIs, NeedsConfirmation, MInv, PTypes
  <2>3. attempts[Latest] \in Attempt
    BY <2>2, ElementOfSeq DEF MInv, PTypes
  <2>4. [attempts[Latest] EXCEPT !.st = "prepared"] \in Attempt
    BY <2>3 DEF Attempt, AttemptStatus
  <2>5. Latest' = Latest + 1
    BY <2>1, <2>4, AppendTyped DEF Latest, MInv, PTypes
  <2>6. saved = {} /\ UNCHANGED <<saved, sends>>
    BY <2>1 DEF Retry, NeedsConfirmation, Recoverable, MInv, Evidence
  <2>7. ~Sent(Latest)'
    BY <2>2, <2>5, <2>6 DEF Sent, MInv, Evidence
  <2> QED BY <2>6, <2>7 DEF Promise!Authorize, Promise!paid
<1> QED BY <1>1, <1>2

\* Only a confirmed retry follows an attempt with another one.
LEMMA LatestGrows ==
    ASSUME MInv, [Next]_vars,
           ~ \E confirm \in BOOLEAN, expected \in {0, seen} : Retry(confirm, expected)
    PROVE  Latest' = Latest \/ Latest = 0
<1>1. ASSUME NEW st, Mark(st) PROVE Latest' = Latest
  BY <1>1, ExceptSeq, LenProperties DEF Mark, Latest, MInv, PTypes
<1>2. CASE UNCHANGED attempts
  BY <1>2 DEF Latest
<1>3. CASE Prepare
  BY <1>3 DEF Prepare, Latest
<1>4. CASE Recover \/ CommitIntent \/ CommitResponse \/ RecordOutcome \/ ImportResponse
  BY <1>1, <1>2, <1>4
     DEF Recover, CommitIntent, CommitResponse, RecordOutcome, ImportResponse
<1> QED BY <1>2, <1>3, <1>4
    DEF Next, ExecutorStep, vars, page, job, Dispatch, NextEnded, NextCheckpoint, Begin,
        ReadInputs, Encode, RecordRequest, Connect, Upload, Refused, Received, SaveResponse,
        ResultUnknown, CompleteRequest, StageFails, FailCheckpoint, Cancel, OpenPage, CoolDown,
        ChangeInputs, Crash

\* Every other step leaves the promise where it is.
LEMMA OthersStutter ==
    ASSUME MInv, MInv', [Next]_vars, ~Upload, ~SaveResponse,
           ~ \E confirm \in BOOLEAN, expected \in {0, seen} : Retry(confirm, expected)
    PROVE  UNCHANGED Promise!paid
<1>1. UNCHANGED <<saved, sends>>
  BY DEF Next, ExecutorStep, vars, page, job, Dispatch, NextEnded, NextCheckpoint, Begin,
         Recover, ReadInputs, Prepare, Encode, CommitIntent, RecordRequest, Connect, Refused,
         Received, CommitResponse, ResultUnknown, RecordOutcome, CompleteRequest,
         ImportResponse, StageFails, FailCheckpoint, Cancel, OpenPage, CoolDown,
         ChangeInputs, Crash
<1>2. CASE Latest' = Latest
  BY <1>1, <1>2, PromiseStutters DEF Sent
<1>3. CASE Latest' # Latest
  <2>1. Latest = 0
    BY <1>3, LatestGrows
  <2>2. Len(sends) = 0
    <3>1. Len(sends) \in Nat
      BY LenProperties DEF MInv, PTypes
    <3>2. ASSUME Len(sends) # 0 PROVE FALSE
      <4>1. 1 \in 1..Len(sends)
        BY <3>1, <3>2
      <4>2. sends[1].n \in 1..0
        BY <2>1, <4>1 DEF MInv, Evidence
      <4> QED BY <4>2
    <3> QED BY <3>2
  <2>3. ~Sent(Latest) /\ ~Sent(Latest)'
    BY <1>1, <2>2 DEF Sent
  <2> QED BY <1>1, <2>3, PromiseStutters
<1> QED BY <1>2, <1>3

\* The job implements the promise of PaidRequest: no crash, failure, cancel or
\* retry sends a paid request that was not authorized, or one after a response.
THEOREM KeepsPromise == Spec => PaidOnce
<1>1. MInv /\ MInv' /\ [Next]_vars => [Promise!Next]_Promise!paid
  BY UploadSends, ResponseSaves, RetryAuthorizes, OthersStutter DEF Promise!Next
<1> QED BY PromiseInitial, MInvariant, <1>1, PTL DEF Spec, PaidOnce, Promise!Spec

\* A further request takes a page that shows the very attempt it repeats, and is
\* refused while the provider throttles: whatever fails or crashes in between, an
\* old page or a second click pays for nothing (authorize_retry and retry_policy of
\* classroom/online_attempts.py).
THEOREM PaidAsSeen == Spec => ConfirmedAsSeen
<1>1. MInv /\ [Next]_vars => [Latest > 0 /\ Latest' > Latest => seen = Latest /\ ~throttled]_vars
  <2> SUFFICES ASSUME MInv, [Next]_vars, Latest > 0, Latest' > Latest
               PROVE  seen = Latest /\ ~throttled
    OBVIOUS
  <2>1. Latest \in Nat
    BY LenProperties DEF Latest, MInv, PTypes
  <2>2. PICK confirm \in BOOLEAN, expected \in {0, seen} : Retry(confirm, expected)
    BY <2>1, LatestGrows
  <2>3. attempts' # attempts
    BY <2>1 DEF Latest
  <2>4. NeedsConfirmation /\ Authorized(confirm, expected)
    BY <2>2, <2>3 DEF Retry
  <2> QED BY <2>1, <2>4 DEF Authorized
<1> QED BY MInvariant, <1>1, PTL DEF Spec, ConfirmedAsSeen

-----------------------------------------------------------------------------
(* Numbers in order.                                                        *)

LEMMA LeastNumber ==
    ASSUME NEW S \in SUBSET Nat, S # {}
    PROVE  \E x \in S : \A y \in S : x <= y
<1> DEFINE R == {ss \in Nat \X Nat : ss[1] < ss[2]}
<1>1. IsWellFoundedOn(R, Nat)
  BY NatLessThanWellFounded DEF OpToRel
<1> HIDE DEF R
<1>2. PICK x \in S : \A y \in S : ~(<<y, x>> \in R)
  BY <1>1, WFMin
<1>3. ASSUME NEW y \in S PROVE x <= y
  <2>1. ~(<<y, x>> \in R)
    BY <1>2
  <2>2. x \in Nat /\ y \in Nat /\ (y < x => <<y, x>> \in R)
    BY DEF R
  <2> QED
    BY <2>1, <2>2
<1> QED
  BY <1>3

LEMMA LargestNumber ==
    ASSUME NEW n \in Nat, NEW S \in SUBSET (1..n), S # {}
    PROVE  Max(S) \in S /\ \A y \in S : y <= Max(S)
<1> DEFINE T == {n - x : x \in S}
<1>1. T \in SUBSET Nat /\ T # {}
  <2>1. \A x \in S : n - x \in Nat
    OBVIOUS
  <2> QED
    BY <2>1
<1> HIDE DEF T
<1>2. PICK t \in T : \A u \in T : t <= u
  BY <1>1, LeastNumber
<1>3. PICK x \in S : t = n - x
  BY <1>2 DEF T
<1>4. ASSUME NEW y \in S PROVE x >= y /\ y <= x
  <2>1. n - y \in T
    BY DEF T
  <2> QED
    BY <1>2, <1>3, <2>1
<1>5. \E z \in S : \A y \in S : z >= y
  BY <1>4
<1>6. Max(S) \in S /\ \A y \in S : Max(S) >= y
  BY <1>5 DEF Max
<1> QED
  BY <1>6

LEMMA Ascends ==
    ASSUME NEW n \in Nat, NEW S \in SUBSET (1..n)
    PROVE  /\ Cardinality(S) \in Nat /\ Ascending(S) \in [1..Cardinality(S) -> S]
           /\ \A i, j \in 1..Cardinality(S) : i < j => Ascending(S)[i] < Ascending(S)[j]
<1> DEFINE Part(m) == S \cap (1..m)
           Good(m) == \E s \in [1..Cardinality(Part(m)) -> Part(m)] :
                          \A i, j \in 1..Cardinality(Part(m)) : i < j => s[i] < s[j]
           Bad == {m \in 0..n : ~Good(m)}
<1>1. \A m \in 0..n : IsFiniteSet(Part(m)) /\ Cardinality(Part(m)) \in Nat
  <2> TAKE m \in 0..n
  <2>1. IsFiniteSet(1..m)
    BY FS_Interval
  <2> QED
    BY <2>1, FS_Subset, FS_CardinalityType
<1>2. Good(0)
  <2>1. Part(0) = {}
    OBVIOUS
  <2>2. Cardinality(Part(0)) = 0
    BY <2>1, FS_EmptySet
  <2>3. [i \in 1..0 |-> i] \in [1..0 -> {}]
    OBVIOUS
  <2> HIDE DEF Part
  <2> QED
    BY <2>1, <2>2, <2>3
<1>3. ASSUME NEW m \in 1..n, Good(m - 1) PROVE Good(m)
  <2>1. CASE m \notin S
    <3>1. Part(m) = Part(m - 1)
      BY <2>1
    <3> HIDE DEF Part
    <3> QED
      BY <3>1, <1>3
  <2>2. CASE m \in S
    <3>1. Part(m) = Part(m - 1) \cup {m} /\ m \notin Part(m - 1) /\ \A x \in Part(m - 1) : x < m
      BY <2>2
    <3>2. m - 1 \in 0..n
      OBVIOUS
    <3>3. Part(m) \subseteq Int
      OBVIOUS
    <3> HIDE DEF Part
    <3>4. Cardinality(Part(m)) = Cardinality(Part(m - 1)) + 1 /\ Cardinality(Part(m - 1)) \in Nat
      BY <3>1, <3>2, <1>1, FS_AddElement
    <3> DEFINE k == Cardinality(Part(m - 1))
    <3>5. PICK s \in [1..k -> Part(m - 1)] : \A i, j \in 1..k : i < j => s[i] < s[j]
      BY <1>3
    <3> HIDE DEF k
    <3>6. k \in Nat /\ Cardinality(Part(m)) = k + 1
      BY <3>4 DEF k
    <3> DEFINE r == [i \in 1..(k + 1) |-> IF i <= k THEN s[i] ELSE m]
    <3>7. r \in [1..(k + 1) -> Part(m)]
      BY <3>1, <3>5, <3>6
    <3>8. ASSUME NEW i \in 1..(k + 1), NEW j \in 1..(k + 1), i < j PROVE r[i] < r[j]
      <4>1. i \in 1..k /\ s[i] \in Part(m - 1)
        BY <3>8, <3>6, <3>5
      <4>2. CASE j <= k
        BY <4>1, <4>2, <3>5, <3>8, <3>6
      <4>3. CASE j = k + 1
        BY <4>1, <4>3, <3>1, <3>6
      <4> QED
        BY <4>2, <4>3, <3>6
    <3> HIDE DEF r
    <3> QED
      BY <3>6, <3>7, <3>8
  <2> QED
    BY <2>1, <2>2
<1>4. Bad = {}
  <2> HIDE DEF Good
  <2> SUFFICES ASSUME Bad # {} PROVE FALSE
    OBVIOUS
  <2>0. Bad \in SUBSET Nat
    OBVIOUS
  <2>1. PICK m \in Bad : \A y \in Bad : m <= y
    <3> HIDE DEF Bad
    <3> QED
      BY <2>0, LeastNumber
  <2>2. m \in 1..n
    BY <1>2, <2>1
  <2>3. m - 1 \in 0..n /\ m - 1 \notin Bad
    BY <2>1, <2>2
  <2> QED
    BY <2>1, <2>2, <2>3, <1>3
<1>5. Part(n) = S
  OBVIOUS
<1>6. Good(n)
  <2> HIDE DEF Good
  <2> QED
    BY <1>4
<1>7. \E s \in [1..Cardinality(S) -> S] : \A i, j \in DOMAIN s : i < j => s[i] < s[j]
  BY <1>5, <1>6
<1>8. Ascending(S) \in [1..Cardinality(S) -> S] /\ \A i, j \in DOMAIN Ascending(S) : i < j => Ascending(S)[i] < Ascending(S)[j]
  BY <1>7 DEF Ascending
<1> HIDE DEF Part, Good, Bad
<1> QED
  BY <1>8, <1>1, <1>5

-----------------------------------------------------------------------------
(* The daemon.                                                              *)

DaemonRow == [instance : Nat, before : Nat, session : Nat, events : Seq(EventRow)]
Grown ==
    /\ daemon' \in DaemonRow /\ daemon'.events # <<>> /\ daemon'.instance = daemon.instance
    /\ Len(daemon.events) <= Len(daemon'.events)
    /\ \A k \in 1..Len(daemon.events) : daemon'.events[k] = daemon.events[k]
    /\ held' \in Seq(SUBSET Owners) /\ Len(held) <= Len(held') /\ daemon'.session <= Len(held')
    /\ \A s \in 1..Len(held) : held'[s] = held[s]
    /\ \A k \in (Len(daemon.events) + 1)..Len(daemon'.events) : daemon'.events[k].state = "arming" =>
          /\ daemon'.events[k].session \in 1..Len(held')
          /\ held'[daemon'.events[k].session] = {focus}

LEMMA Appended ==
    ASSUME NEW es \in Seq(EventRow), NEW a \in EventRow
    PROVE  /\ Append(es, a) \in Seq(EventRow) /\ Len(Append(es, a)) = Len(es) + 1 /\ Len(es) \in Nat
           /\ \A k \in 1..Len(es) : Append(es, a)[k] = es[k]
           /\ Append(es, a)[Len(es) + 1] = a
BY AppendProperties, LenProperties

LEMMA AppendedTwo ==
    ASSUME NEW es \in Seq(EventRow), NEW a \in EventRow, NEW b \in EventRow
    PROVE  /\ es \o <<a, b>> \in Seq(EventRow) /\ Len(es \o <<a, b>>) = Len(es) + 2 /\ Len(es) \in Nat
           /\ \A k \in 1..Len(es) : (es \o <<a, b>>)[k] = es[k]
           /\ (es \o <<a, b>>)[Len(es) + 1] = a /\ (es \o <<a, b>>)[Len(es) + 2] = b
<1>1. <<a, b>> \in Seq(EventRow) /\ Len(<<a, b>>) = 2 /\ <<a, b>>[1] = a /\ <<a, b>>[2] = b
  OBVIOUS
<1>2. Len(es) \in Nat
  BY LenProperties
<1> HIDE DEF EventRow
<1> QED
  BY <1>1, <1>2, ConcatProperties

\* Events are added at the end, and the owner of a session is who has the focus when
\* it is armed.
LEMMA GrowsBy ==
    ASSUME IBusTypeOK, NEW s \in Nat, NEW es \in Seq(EventRow), daemon' \in DaemonRow,
           daemon'.session = s, daemon'.events = es, daemon'.instance = daemon.instance,
           Len(daemon.events) <= Len(es), \A k \in 1..Len(daemon.events) : es[k] = daemon.events[k],
           \/ held' = held /\ s <= Len(held)
              /\ \A k \in (Len(daemon.events) + 1)..Len(es) : es[k].state # "arming"
           \/ held' = Append(held, {focus}) /\ s = Len(held) + 1
              /\ \A k \in (Len(daemon.events) + 1)..Len(es) : es[k].session = s
    PROVE  Grown
<1>1. Len(held) \in Nat /\ Len(daemon.events) \in Nat /\ Len(daemon.events) > 0 /\ Len(es) \in Nat
  BY LenProperties, EmptySeq DEF IBusTypeOK
<1>2. focus \in Owners /\ held \in Seq(SUBSET Owners)
  BY DEF IBusTypeOK
<1>3. es # <<>>
  BY <1>1
<1>4. {focus} \in SUBSET Owners
  BY <1>2
<1>5. /\ Append(held, {focus}) \in Seq(SUBSET Owners) /\ Len(Append(held, {focus})) = Len(held) + 1
      /\ \A k \in 1..Len(held) : Append(held, {focus})[k] = held[k]
      /\ Append(held, {focus})[Len(held) + 1] = {focus}
  BY <1>2, <1>4, <1>1, AppendProperties
<1> HIDE DEF Owners, DaemonRow
<1>6. CASE held' = held
  BY <1>1, <1>2, <1>3, <1>6 DEF Grown
<1>7. CASE held' = Append(held, {focus})
  BY <1>1, <1>2, <1>3, <1>5, <1>7 DEF Grown
<1> QED
  BY <1>6, <1>7

LEMMA LastEvent ==
    ASSUME IBusTypeOK
    PROVE  Current \in EventRow /\ Revision \in Nat /\ Revision > 0 /\ daemon.events \in Seq(EventRow)
<1>1. daemon.events \in Seq(EventRow) /\ daemon.events # <<>>
  BY DEF IBusTypeOK
<1> QED
  BY <1>1, LenProperties, EmptySeq, ElementOfSeq DEF Current, Revision, Last

LEMMA DoneIs ==
    ASSUME NEW action PROVE Done(action) \subseteq {daemon, Started(daemon), Cancelled(daemon), Ended(daemon), Offered(daemon)}
BY DEF Done

LEMMA PerformGrows ==
    ASSUME IBusTypeOK, NEW action, Perform(action)
    PROVE  Grown
<1>1. PICK d \in {daemon, Started(daemon), Cancelled(daemon), Ended(daemon), Offered(daemon)} :
           /\ daemon' = d
           /\ held' = IF d.session > Len(held) THEN Append(held, {focus}) ELSE held
  BY DoneIs DEF Perform, Bounded
<1>2. /\ Len(held) \in Nat /\ daemon.session \in Nat /\ daemon.session <= Len(held) /\ daemon.events \in Seq(EventRow)
      /\ Len(daemon.events) \in Nat
  BY LenProperties DEF IBusTypeOK
<1>3. /\ Event("arming", Len(held) + 1, FALSE) \in EventRow
      /\ Event("idle", NoSession, FALSE) \in EventRow
      /\ Event("committing", daemon.session, TRUE) \in EventRow
      /\ Event("candidates", daemon.session, FALSE) \in EventRow
      /\ Event("idle", NoSession, FALSE).state = "idle" /\ Event("candidates", daemon.session, FALSE).state = "candidates"
      /\ Event("committing", daemon.session, TRUE).state = "committing" /\ Event("arming", Len(held) + 1, FALSE).session = Len(held) + 1
  BY <1>2 DEF Event, EventRow, EventStates, NoSession
<1>4. daemon \in [instance : Nat, before : Nat, session : Nat, events : Seq(EventRow)]
  BY DEF IBusTypeOK
<1>0. \A s \in Nat, es \in Seq(EventRow) : [daemon EXCEPT !.session = s, !.events = es] \in DaemonRow
  BY <1>4 DEF DaemonRow
<1>5. CASE d = daemon
  <2>1. daemon'.session = daemon.session /\ daemon'.events = daemon.events /\ daemon'.instance = daemon.instance
    BY <1>1, <1>4, <1>5
  <2>2. held' = held
    BY <1>1, <1>2, <1>5
  <2>3. daemon' \in DaemonRow
    BY <1>1, <1>4, <1>5 DEF DaemonRow
  <2> QED
    BY <2>1, <2>2, <2>3, <1>2, GrowsBy
<1>6. CASE d = Started(daemon)
  <2> DEFINE es == Append(daemon.events, Event("arming", Len(held) + 1, FALSE))
  <2>1. daemon'.session = Len(held) + 1 /\ daemon'.events = es /\ daemon'.instance = daemon.instance /\ d.session = Len(held) + 1
    BY <1>1, <1>4, <1>6 DEF Started
  <2>2. held' = Append(held, {focus})
    BY <1>1, <1>2, <2>1
  <2>3. /\ es \in Seq(EventRow) /\ Len(es) = Len(daemon.events) + 1 /\ es[Len(daemon.events) + 1].session = Len(held) + 1
        /\ \A k \in 1..Len(daemon.events) : es[k] = daemon.events[k]
    BY <1>2, <1>3, Appended
  <2>4. daemon' = [daemon EXCEPT !.session = Len(held) + 1, !.events = es]
    BY <1>1, <1>4, <1>6 DEF Started, NoSession
  <2> HIDE DEF es
  <2>5. daemon' \in DaemonRow
    <3>1. Len(held) + 1 \in Nat
      BY <1>2
    <3> QED
      BY <3>1, <2>4, <2>3, <1>2, <1>0
  <2> QED
    BY <2>1, <2>2, <2>3, <2>5, <1>2, GrowsBy
<1>7. CASE d = Cancelled(daemon)
  <2> DEFINE es == Append(daemon.events, Event("idle", NoSession, FALSE))
  <2>1. daemon'.session = 0 /\ daemon'.events = es /\ daemon'.instance = daemon.instance /\ d.session = 0
    BY <1>1, <1>4, <1>7 DEF Cancelled, NoSession
  <2>2. held' = held
    BY <1>1, <1>2, <2>1
  <2>3. /\ es \in Seq(EventRow) /\ Len(es) = Len(daemon.events) + 1 /\ es[Len(daemon.events) + 1].state = "idle"
        /\ \A k \in 1..Len(daemon.events) : es[k] = daemon.events[k]
    BY <1>2, <1>3, Appended
  <2>4. daemon' = [daemon EXCEPT !.session = 0, !.events = es]
    BY <1>1, <1>4, <1>7 DEF Cancelled, NoSession
  <2> HIDE DEF es
  <2>5. daemon' \in DaemonRow
    BY <2>4, <2>3, <1>2, <1>0
  <2> QED
    BY <2>1, <2>2, <2>3, <2>5, <1>2, GrowsBy
<1>8. CASE d = Ended(daemon)
  <2> DEFINE es == daemon.events \o <<Event("committing", daemon.session, TRUE), Event("idle", NoSession, FALSE)>>
  <2>1. daemon'.session = 0 /\ daemon'.events = es /\ daemon'.instance = daemon.instance /\ d.session = 0
    BY <1>1, <1>4, <1>8 DEF Ended, NoSession
  <2>2. held' = held
    BY <1>1, <1>2, <2>1
  <2>3. /\ es \in Seq(EventRow) /\ Len(es) = Len(daemon.events) + 2
        /\ es[Len(daemon.events) + 1].state = "committing" /\ es[Len(daemon.events) + 2].state = "idle"
        /\ \A k \in 1..Len(daemon.events) : es[k] = daemon.events[k]
    <3> HIDE DEF EventRow
    <3>1. PICK a \in EventRow, b \in EventRow :
               a = Event("committing", daemon.session, TRUE) /\ b = Event("idle", NoSession, FALSE)
      BY <1>3
    <3>2. es = daemon.events \o <<a, b>>
      BY <3>1
    <3> HIDE DEF es
    <3>3. /\ es \in Seq(EventRow) /\ Len(es) = Len(daemon.events) + 2
          /\ es[Len(daemon.events) + 1] = a /\ es[Len(daemon.events) + 2] = b
          /\ \A k \in 1..Len(daemon.events) : es[k] = daemon.events[k]
      BY <1>2, <3>2, AppendedTwo
    <3> QED
      BY <1>3, <3>1, <3>3
  <2>4. daemon' = [daemon EXCEPT !.session = 0, !.events = es]
    BY <1>1, <1>4, <1>8 DEF Ended, NoSession
  <2> HIDE DEF es
  <2>5. daemon' \in DaemonRow
    BY <2>4, <2>3, <1>2, <1>0
  <2> QED
    BY <2>1, <2>2, <2>3, <2>5, <1>2, GrowsBy
<1>9. CASE d = Offered(daemon)
  <2> DEFINE es == Append(daemon.events, Event("candidates", daemon.session, FALSE))
  <2>1. daemon'.session = daemon.session /\ daemon'.events = es /\ daemon'.instance = daemon.instance /\ d.session = daemon.session
    BY <1>1, <1>4, <1>9 DEF Offered
  <2>2. held' = held
    BY <1>1, <1>2, <2>1
  <2>3. /\ es \in Seq(EventRow) /\ Len(es) = Len(daemon.events) + 1 /\ es[Len(daemon.events) + 1].state = "candidates"
        /\ \A k \in 1..Len(daemon.events) : es[k] = daemon.events[k]
    BY <1>2, <1>3, Appended
  <2>4. daemon' = [daemon EXCEPT !.session = daemon.session, !.events = es]
    BY <1>1, <1>4, <1>9 DEF Offered, NoSession
  <2> HIDE DEF es
  <2>5. daemon' \in DaemonRow
    BY <2>4, <2>3, <1>2, <1>0
  <2> QED
    BY <2>1, <2>2, <2>3, <2>5, <1>2, GrowsBy
<1> QED
  BY <1>1, <1>5, <1>6, <1>7, <1>8, <1>9

LEMMA SpeaksGrows ==
    ASSUME IBusTypeOK, Speaks
    PROVE  Grown
<1>1. /\ Len(held) \in Nat /\ daemon.session \in Nat /\ daemon.session <= Len(held) /\ daemon.events \in Seq(EventRow)
      /\ Len(daemon.events) \in Nat
  BY LenProperties DEF IBusTypeOK
<1>2. daemon \in [instance : Nat, before : Nat, session : Nat, events : Seq(EventRow)] /\ held' = held
  BY DEF IBusTypeOK, Speaks
<1>0. \A s \in Nat, es \in Seq(EventRow) : [daemon EXCEPT !.session = s, !.events = es] \in DaemonRow
  BY <1>2 DEF DaemonRow
<1>3. ASSUME NEW a \in EventRow, a.state # "arming", daemon' = [daemon EXCEPT !.events = Append(@, a)]
      PROVE  Grown
  <2> DEFINE es == Append(daemon.events, a)
  <2>1. daemon' = [daemon EXCEPT !.session = daemon.session, !.events = es]
    BY <1>3, <1>2
  <2>2. daemon'.session = daemon.session /\ daemon'.events = es /\ daemon'.instance = daemon.instance
    BY <1>3, <1>2
  <2>3. /\ es \in Seq(EventRow) /\ Len(es) = Len(daemon.events) + 1 /\ es[Len(daemon.events) + 1] = a
        /\ \A k \in 1..Len(daemon.events) : es[k] = daemon.events[k]
    BY <1>1, Appended
  <2> HIDE DEF es
  <2>4. daemon' \in DaemonRow
    BY <2>1, <2>3, <1>1, <1>0
  <2>5. \A k \in (Len(daemon.events) + 1)..Len(es) : es[k].state # "arming"
    BY <2>3, <1>3, <1>1
  <2>6. Len(daemon.events) <= Len(es)
    BY <2>3, <1>1
  <2> QED
    BY <2>2, <2>3, <2>4, <2>5, <2>6, <1>1, <1>2, GrowsBy
<1>4. CASE Listen
  <2>1. PICK text \in BOOLEAN :
             \/ ~text /\ daemon' = [daemon EXCEPT !.events = Append(@, Event("listening", daemon.session, FALSE))]
             \/ daemon' = [daemon EXCEPT !.events = Append(@, Event("interim", daemon.session, text))]
    BY <1>4 DEF Listen
  <2>2. /\ Event("listening", daemon.session, FALSE) \in EventRow
        /\ Event("listening", daemon.session, FALSE).state # "arming"
        /\ Event("interim", daemon.session, text) \in EventRow
        /\ Event("interim", daemon.session, text).state # "arming"
    BY <1>1, <2>1 DEF Event, EventRow, EventStates
  <2> QED
    BY <2>1, <2>2, <1>3
<1>5. CASE SessionFails
  <2> DEFINE es == daemon.events \o <<Event("error", daemon.session, FALSE), Event("idle", NoSession, FALSE)>>
  <2>1. daemon' = [daemon EXCEPT !.session = 0, !.events = es]
    BY <1>5 DEF SessionFails, NoSession
  <2>2. daemon'.session = 0 /\ daemon'.events = es /\ daemon'.instance = daemon.instance
    BY <2>1, <1>2
  <2>8. /\ Event("error", daemon.session, FALSE) \in EventRow /\ Event("idle", NoSession, FALSE) \in EventRow
        /\ Event("error", daemon.session, FALSE).state # "arming" /\ Event("idle", NoSession, FALSE).state # "arming"
    BY <1>1 DEF Event, EventRow, EventStates, NoSession
  <2>3. PICK a \in EventRow, b \in EventRow :
             /\ a = Event("error", daemon.session, FALSE) /\ b = Event("idle", NoSession, FALSE)
             /\ a.state # "arming" /\ b.state # "arming"
    <3> HIDE DEF EventRow
    <3> QED
      BY <2>8
  <2>4. es = daemon.events \o <<a, b>>
    BY <2>3
  <2> HIDE DEF es
  <2>5. /\ es \in Seq(EventRow) /\ Len(es) = Len(daemon.events) + 2
        /\ es[Len(daemon.events) + 1] = a /\ es[Len(daemon.events) + 2] = b
        /\ \A k \in 1..Len(daemon.events) : es[k] = daemon.events[k]
    BY <1>1, <2>4, AppendedTwo
  <2>6. daemon' \in DaemonRow
    BY <2>1, <2>5, <1>0
  <2>7. ASSUME NEW k \in (Len(daemon.events) + 1)..Len(es) PROVE es[k].state # "arming"
    <3>1. k = Len(daemon.events) + 1 \/ k = Len(daemon.events) + 2
      BY <2>5, <1>1
    <3> QED
      BY <3>1, <2>5, <2>3
  <2>9. Len(daemon.events) <= Len(es) /\ 0 <= Len(held) /\ 0 \in Nat
    BY <2>5, <1>1
  <2> QED
    BY <2>2, <2>5, <2>6, <2>7, <2>9, <1>2, GrowsBy
<1> QED
  BY <1>4, <1>5 DEF Speaks

-----------------------------------------------------------------------------
(* The engine.                                                              *)

\* The session an engine owns after an event is the one it owned, or none, or one
\* that was armed in between.
LEMMA OwnedFrom ==
    ASSUME NEW c \in EngineRow, NEW d \in DaemonRow, NEW i
    PROVE  \/ Owned(c, d, i, TRUE) \in {c.session, NoSession}
           \/ \E k \in New(c, d) : d.events[k].state = "arming" /\ Owned(c, d, i, TRUE) = d.events[k].session
<1> DEFINE marks == {k \in New(c, d) : k <= i /\ d.events[k].state \in {"error", "idle", "arming"}}
<1>1. marks = {k \in New(c, d) : /\ k <= i
                                 /\ d.events[k].state \in {"error", "idle"} \/ (TRUE /\ d.events[k].state = "arming")}
  OBVIOUS
<1>2. Owned(c, d, i, TRUE) =
          IF marks = {} THEN c.session
          ELSE IF d.events[Max(marks)].state = "arming" THEN d.events[Max(marks)].session ELSE NoSession
  BY <1>1 DEF Owned
<1>3. ASSUME marks # {} PROVE Max(marks) \in New(c, d)
  <2>1. Len(d.events) \in Nat /\ c.revision \in Nat
    BY LenProperties DEF DaemonRow, EngineRow
  <2>2. marks \in SUBSET (1..Len(d.events))
    BY <2>1 DEF New
  <2> HIDE DEF marks
  <2>3. Max(marks) \in marks
    BY <2>1, <2>2, <1>3, LargestNumber
  <2> QED
    BY <2>3 DEF marks
<1> HIDE DEF marks
<1> QED
  BY <1>2, <1>3

LEMMA ShownIsBoolean ==
    ASSUME NEW c, NEW d, NEW focused, NEW before \in BOOLEAN, NEW states
    PROVE  Shown(c, d, focused, before, states) \in BOOLEAN
BY DEF Shown

\* What an engine commits of the events it has not heard.
LEMMA TextsAre ==
    ASSUME NEW e \in Engines, NEW c \in EngineRow, NEW d \in DaemonRow
    PROVE  LET q == Texts(e, c, d, TRUE)
           IN /\ q \in Seq(Nat \X Nat \X Engines)
              /\ \A i \in DOMAIN q : /\ q[i][1] = d.instance /\ q[i][3] = e /\ q[i][2] \in New(c, d)
                                     /\ Owns(c, d, q[i][2], TRUE)
              /\ \A i, j \in DOMAIN q : i < j => q[i][2] < q[j][2]
<1> DEFINE S == {i \in New(c, d) : d.events[i].text /\ Owns(c, d, i, TRUE)}
          q == Texts(e, c, d, TRUE)
<1>1. Len(d.events) \in Nat /\ c.revision \in Nat /\ d.instance \in Nat
  BY LenProperties DEF DaemonRow, EngineRow
<1>0. New(c, d) \subseteq 1..Len(d.events) /\ New(c, d) \subseteq Nat
  <2> DEFINE m == c.revision
             n == Len(d.events)
  <2> HIDE DEF m, n
  <2>1. m \in Nat /\ n \in Nat
    BY <1>1 DEF m, n
  <2>2. (m + 1)..n \subseteq 1..n /\ (m + 1)..n \subseteq Nat
    BY <2>1
  <2> QED
    BY <2>2 DEF New, m, n
<1>2. S \in SUBSET (1..Len(d.events)) /\ New(c, d) \subseteq Nat
  BY <1>0
<1>3. q = [n \in 1..Cardinality(S) |-> <<d.instance, Ascending(S)[n], e>>]
  BY DEF Texts
<1>4. \A i \in S : i \in New(c, d) /\ Owns(c, d, i, TRUE)
  OBVIOUS
<1> HIDE DEF S, q
<1>5. /\ Cardinality(S) \in Nat /\ Ascending(S) \in [1..Cardinality(S) -> S]
      /\ \A i, j \in 1..Cardinality(S) : i < j => Ascending(S)[i] < Ascending(S)[j]
  BY <1>1, <1>2, Ascends
<1>6. q \in [1..Cardinality(S) -> Nat \X Nat \X Engines] /\ DOMAIN q = 1..Cardinality(S)
  BY <1>1, <1>2, <1>3, <1>4, <1>5
<1>7. q \in Seq(Nat \X Nat \X Engines)
  BY <1>5, <1>6, SeqDef
<1>8. ASSUME NEW i \in DOMAIN q
      PROVE /\ q[i][1] = d.instance /\ q[i][3] = e /\ q[i][2] = Ascending(S)[i] /\ q[i][2] \in New(c, d)
            /\ Owns(c, d, q[i][2], TRUE)
  BY <1>3, <1>4, <1>5, <1>6, <1>8
<1>9. ASSUME NEW i \in DOMAIN q, NEW j \in DOMAIN q, i < j PROVE q[i][2] < q[j][2]
  <2>1. q[i][2] = Ascending(S)[i] /\ q[j][2] = Ascending(S)[j] /\ i \in 1..Cardinality(S) /\ j \in 1..Cardinality(S)
    BY <1>6, <1>8
  <2> QED
    BY <1>5, <1>9, <2>1
<1>10. DOMAIN q = DOMAIN Texts(e, c, d, TRUE) /\ q = Texts(e, c, d, TRUE)
  BY DEF q
<1> HIDE DEF DaemonRow, EngineRow
<1> QED
  BY <1>7, <1>8, <1>9, <1>10

-----------------------------------------------------------------------------
(* The inductive invariant.                                                 *)

\* What is written is of the daemon's events.
WrittenKnown == \A i \in DOMAIN written :
    \/ written[i][1] < daemon.instance
    \/ written[i][1] = daemon.instance /\ written[i][2] <= Len(daemon.events)

\* A window was focused when a session was armed, and has been since.
Holds(e, s) == s \in DOMAIN held /\ e \in held[s]

\* An engine that follows the events of the daemon has the focus, has heard what is
\* written, and has not lost the focus since the sessions it has not heard of were armed.
Heeds(e) == engine[e].instance = daemon.instance =>
    /\ \A i \in DOMAIN written : written[i][1] = daemon.instance => written[i][2] <= engine[e].revision
    /\ \A k \in 1..Len(daemon.events) : k > engine[e].revision /\ daemon.events[k].state = "arming"
                                             => Holds(e, daemon.events[k].session)
Follows(e) == engine[e].subscribed => e = focus /\ engine[e].instance <= daemon.instance /\ Heeds(e)
Owning(e) == engine[e].session # NoSession => Holds(e, engine[e].session)

IBusInv ==
    /\ IBusTypeOK /\ WrittenOnce /\ OnlyFocusShows /\ WrittenKnown
    /\ \A e \in Engines : Follows(e) /\ Owning(e)
    /\ asked.at = "action" => engine[asked.by].subscribed

LEMMA Starts == IBusInit => IBusInv
<1> SUFFICES ASSUME IBusInit PROVE IBusInv
  OBVIOUS
<1> DEFINE idle == Event("idle", NoSession, FALSE)
<1>1. /\ daemon = [instance |-> 1, before |-> 0, session |-> NoSession, events |-> <<idle>>]
      /\ asked = Nothing /\ engine = [e \in Engines |-> NewEngine] /\ focus = Nobody /\ held = <<>> /\ written = <<>>
  BY DEF IBusInit
<1>2. idle \in EventRow /\ idle.state = "idle"
  BY DEF Event, EventRow, EventStates, NoSession
<1> HIDE DEF idle
<1>3. <<idle>> \in Seq(EventRow) /\ Len(<<idle>>) = 1 /\ <<idle>> # <<>> /\ <<idle>>[1] = idle
  <2> HIDE DEF EventRow
  <2> QED
    BY <1>2
<1>4. /\ daemon \in [instance : Nat, before : Nat, session : Nat, events : Seq(EventRow)]
      /\ daemon.events = <<idle>> /\ daemon.session = 0 /\ daemon.instance = 1
  <2> HIDE DEF EventRow
  <2> QED
    BY <1>1, <1>3 DEF NoSession
<1>5. NewEngine \in EngineRow /\ ~NewEngine.subscribed /\ NewEngine.session = NoSession /\ ~NewEngine.preedit /\ ~NewEngine.lookup
  BY DEF NewEngine, EngineRow, EventStates, NoSession
<1>6. engine \in [Engines -> EngineRow] /\ \A e \in Engines : engine[e] = NewEngine
  BY <1>1, <1>5
<1>7. focus \in Owners /\ held \in Seq(SUBSET Owners) /\ Len(held) = 0 /\ written \in Seq(Nat \X Nat \X Engines)
      /\ DOMAIN written = {}
  BY <1>1 DEF Owners
<1>8. IBusTypeOK
  <2> HIDE DEF EventRow, EngineRow, Owners
  <2> QED
    BY <1>1, <1>3, <1>4, <1>6, <1>7 DEF IBusTypeOK
<1>9. WrittenOnce /\ WrittenKnown
  BY <1>7 DEF WrittenOnce, WrittenKnown
<1>10. OnlyFocusShows /\ \A e \in Engines : Follows(e) /\ Owning(e)
  BY <1>5, <1>6 DEF OnlyFocusShows, Follows, Owning
<1>11. asked.at # "action"
  BY <1>1 DEF Nothing
<1> QED
  BY <1>8, <1>9, <1>10, <1>11 DEF IBusInv

LEMMA HeldOn ==
    ASSUME IBusTypeOK, Grown, NEW e, NEW s, Holds(e, s)
    PROVE  s \in DOMAIN held' /\ e \in held'[s]
<1>1. /\ held \in Seq(SUBSET Owners) /\ held' \in Seq(SUBSET Owners) /\ Len(held) \in Nat /\ Len(held') \in Nat
      /\ DOMAIN held = 1..Len(held) /\ DOMAIN held' = 1..Len(held')
  BY LenProperties DEF IBusTypeOK, Grown
<1> QED
  BY <1>1 DEF Grown, Holds

\* The focus has been there when what it has not heard of was armed.
LEMMA ArmedUnder ==
    ASSUME IBusInv, Grown, focus' = focus, NEW e \in Engines, engine[e].subscribed,
           engine[e].instance = daemon.instance, NEW k \in 1..Len(daemon'.events),
           k > engine[e].revision, daemon'.events[k].state = "arming"
    PROVE  daemon'.events[k].session \in DOMAIN held' /\ e \in held'[daemon'.events[k].session]
<1>1. e = focus /\ Heeds(e) /\ IBusTypeOK
  BY DEF IBusInv, Follows
<1>2. /\ Len(held') \in Nat /\ DOMAIN held' = 1..Len(held') /\ Len(daemon.events) \in Nat /\ Len(daemon'.events) \in Nat
  BY <1>1, LenProperties DEF IBusTypeOK, Grown, DaemonRow
<1>3. CASE k <= Len(daemon.events)
  <2>1. k \in 1..Len(daemon.events) /\ daemon'.events[k] = daemon.events[k]
    BY <1>2, <1>3 DEF Grown
  <2>2. Holds(e, daemon.events[k].session)
    BY <1>1, <2>1 DEF Heeds
  <2> QED
    <3>1. PICK n : n = daemon.events[k].session
      OBVIOUS
    <3>2. n \in DOMAIN held' /\ e \in held'[n]
      BY <1>1, <2>2, <3>1, HeldOn
    <3> QED
      BY <2>1, <3>1, <3>2
<1>4. CASE k > Len(daemon.events)
  <2>1. k \in (Len(daemon.events) + 1)..Len(daemon'.events)
    BY <1>2, <1>4
  <2>2. daemon'.events[k].session \in 1..Len(held') /\ held'[daemon'.events[k].session] = {focus}
    BY <2>1 DEF Grown
  <2> QED
    BY <1>1, <1>2, <2>2
<1> QED
  BY <1>2, <1>3, <1>4

LEMMA GrowsType ==
    ASSUME IBusTypeOK, Grown
    PROVE  /\ daemon' \in [instance : Nat, before : Nat, session : Nat, events : Seq(EventRow)]
           /\ daemon'.events # <<>> /\ daemon'.session <= Len(held') /\ held' \in Seq(SUBSET Owners)
           /\ Len(daemon.events) \in Nat /\ Len(daemon'.events) \in Nat /\ Len(daemon.events) <= Len(daemon'.events)
           /\ daemon'.instance = daemon.instance /\ daemon.instance \in Nat
BY LenProperties DEF IBusTypeOK, Grown, DaemonRow

\* The daemon goes on by itself.
LEMMA Growing ==
    ASSUME IBusInv, Grown, asked' = asked, engine' = engine, focus' = focus, written' = written
    PROVE  IBusInv'
<1>1. IBusTypeOK /\ WrittenOnce /\ OnlyFocusShows /\ WrittenKnown
  BY DEF IBusInv
<1>2. IBusTypeOK'
  <2> HIDE DEF EventRow, EngineRow, Owners
  <2> QED
    BY <1>1, GrowsType DEF IBusTypeOK
<1>3. WrittenOnce' /\ OnlyFocusShows'
  BY <1>1 DEF WrittenOnce, OnlyFocusShows
<1>4. WrittenKnown'
  <2>1. ASSUME NEW i \in DOMAIN written
        PROVE  \/ written[i][1] < daemon.instance
               \/ written[i][1] = daemon.instance /\ written[i][2] <= Len(daemon'.events)
    <3>1. written[i][2] \in Nat
      BY <1>1 DEF IBusTypeOK
    <3>2. \/ written[i][1] < daemon.instance
          \/ written[i][1] = daemon.instance /\ written[i][2] <= Len(daemon.events)
      BY <1>1 DEF WrittenKnown
    <3> QED
      BY <1>1, <3>1, <3>2, GrowsType
  <2>2. daemon'.instance = daemon.instance
    BY <1>1, GrowsType
  <2> QED
    BY <2>1, <2>2 DEF WrittenKnown
<1>5. ASSUME NEW e \in Engines PROVE Follows(e)' /\ Owning(e)'
  <2>1. Follows(e) /\ Owning(e) /\ daemon'.instance = daemon.instance
    BY <1>1, GrowsType DEF IBusInv
  <2>2. Owning(e)'
    <3>1. CASE engine[e].session # NoSession
      <4>1. Holds(e, engine[e].session)
        BY <2>1, <3>1 DEF Owning
      <4>2. PICK s : s = engine[e].session
        OBVIOUS
      <4>3. s \in DOMAIN held' /\ e \in held'[s]
        BY <1>1, <4>1, <4>2, HeldOn
      <4> QED
        BY <4>2, <4>3 DEF Owning, Holds
    <3> QED
      BY <3>1 DEF Owning
  <2>3. ASSUME engine[e].subscribed, engine[e].instance = daemon.instance,
               NEW k \in 1..Len(daemon'.events), k > engine[e].revision, daemon'.events[k].state = "arming"
        PROVE  daemon'.events[k].session \in DOMAIN held' /\ e \in held'[daemon'.events[k].session]
    BY <2>3, ArmedUnder
  <2>4. Follows(e)'
    BY <2>1, <2>3 DEF Follows, Heeds, Holds
  <2> QED
    BY <2>2, <2>4
<1> QED
  BY <1>2, <1>3, <1>4, <1>5 DEF IBusInv

LEMMA RestartKeeps == IBusInv /\ Restart => IBusInv'
<1> SUFFICES ASSUME IBusInv, Restart PROVE IBusInv'
  OBVIOUS
<1> DEFINE idle == Event("idle", NoSession, FALSE)
<1>1. IBusTypeOK /\ WrittenOnce /\ OnlyFocusShows /\ WrittenKnown
  BY DEF IBusInv
<1>2. /\ daemon' = [instance |-> daemon.instance + 1, session |-> NoSession, before |-> daemon.before + Revision,
                    events |-> <<idle>>]
      /\ asked' = asked /\ engine' = engine /\ focus' = focus /\ held' = held /\ written' = written
  BY DEF Restart
<1>3. idle \in EventRow
  BY DEF Event, EventRow, EventStates, NoSession
<1>4. /\ daemon.instance \in Nat /\ daemon.before \in Nat /\ Len(daemon.events) \in Nat /\ Len(held) \in Nat
  BY <1>1, LenProperties DEF IBusTypeOK
<1> HIDE DEF idle
<1>5. /\ daemon' \in [instance : Nat, before : Nat, session : Nat, events : Seq(EventRow)]
      /\ daemon'.events # <<>> /\ daemon'.session <= Len(held') /\ daemon'.instance = daemon.instance + 1
  <2> HIDE DEF EventRow
  <2>1. <<idle>> \in Seq(EventRow) /\ <<idle>> # <<>>
    BY <1>3
  <2> QED
    BY <1>2, <1>4, <2>1 DEF NoSession, Revision
<1>6. IBusTypeOK'
  <2> HIDE DEF EventRow, EngineRow, Owners
  <2> QED
    BY <1>1, <1>2, <1>5 DEF IBusTypeOK
<1>7. WrittenOnce' /\ OnlyFocusShows'
  BY <1>1, <1>2 DEF WrittenOnce, OnlyFocusShows
<1>8. WrittenKnown'
  <2>1. ASSUME NEW i \in DOMAIN written PROVE written[i][1] < daemon.instance + 1
    <3>1. written[i][1] \in Nat
      BY <1>1 DEF IBusTypeOK
    <3> QED
      BY <1>1, <1>4, <3>1 DEF WrittenKnown
  <2> QED
    BY <1>2, <1>5, <2>1 DEF WrittenKnown
<1>9. ASSUME NEW e \in Engines PROVE Follows(e)' /\ Owning(e)'
  <2>1. Follows(e) /\ Owning(e) /\ engine[e].instance \in Nat
    BY <1>1 DEF IBusInv, IBusTypeOK, EngineRow
  <2>2. Owning(e)'
    BY <1>2, <2>1 DEF Owning, Holds
  <2>3. Follows(e)'
    BY <1>2, <1>4, <1>5, <2>1 DEF Follows, Heeds
  <2> QED
    BY <2>2, <2>3
<1> QED
  BY <1>2, <1>6, <1>7, <1>8, <1>9 DEF IBusInv

\* One engine changes, and what is written does not.
LEMMA Changing ==
    ASSUME IBusInv, NEW b \in Engines, NEW c \in EngineRow, engine' = [engine EXCEPT ![b] = c],
           daemon' = daemon, held' = held, written' = written, focus' = focus, b = focus,
           c.session \in {engine[b].session, NoSession},
           c.subscribed => \/ c.instance = engine[b].instance /\ c.revision = engine[b].revision /\ engine[b].subscribed
                           \/ c.instance = daemon.instance /\ c.revision = Len(daemon.events),
           asked' = Nothing \/ asked' \in [by : {focus} \cap Engines, at : {"snapshot", "action"}, action : Actions],
           asked'.at = "action" => engine'[asked'.by].subscribed
    PROVE  IBusInv'
<1>1. IBusTypeOK /\ WrittenOnce /\ OnlyFocusShows /\ WrittenKnown /\ Follows(b) /\ Owning(b)
  BY DEF IBusInv
<1>2. /\ engine \in [Engines -> EngineRow] /\ engine' \in [Engines -> EngineRow]
      /\ engine'[b] = c /\ \A e \in Engines \ {b} : engine'[e] = engine[e]
  <2> HIDE DEF EngineRow
  <2> QED
    BY <1>1 DEF IBusTypeOK
<1>3. IBusTypeOK'
  <2> HIDE DEF EventRow, EngineRow, Owners
  <2> QED
    BY <1>1, <1>2 DEF IBusTypeOK
<1>4. WrittenOnce' /\ WrittenKnown'
  BY <1>1 DEF WrittenOnce, WrittenKnown
<1>5. OnlyFocusShows'
  BY <1>1, <1>2 DEF OnlyFocusShows
<1>6. ASSUME NEW e \in Engines PROVE Follows(e)' /\ Owning(e)'
  <2>1. CASE e # b
    <3>1. Follows(e) /\ Owning(e) /\ engine'[e] = engine[e]
      BY <1>2, <2>1 DEF IBusInv
    <3> QED
      BY <3>1 DEF Follows, Heeds, Owning, Holds
  <2>2. CASE e = b
    <3>1. Owning(b)'
      BY <1>1, <1>2 DEF Owning, Holds
    <3>2. ASSUME c.subscribed PROVE c.instance <= daemon.instance /\ Heeds(b)'
      <4>1. daemon.instance \in Nat /\ Len(daemon.events) \in Nat
        BY <1>1, LenProperties DEF IBusTypeOK
      <4>2. CASE c.instance = engine[b].instance /\ c.revision = engine[b].revision /\ engine[b].subscribed
        <5>1. engine[b].instance <= daemon.instance /\ Heeds(b)
          BY <1>1, <4>2 DEF Follows
        <5>2. Heeds(b)'
          BY <1>2, <4>2, <5>1 DEF Heeds, Holds
        <5> QED
          BY <4>2, <5>1, <5>2
      <4>3. CASE c.instance = daemon.instance /\ c.revision = Len(daemon.events)
        <5>1. \A i \in DOMAIN written : written[i][1] = daemon.instance => written[i][2] <= c.revision
          BY <1>1, <4>3, <4>1 DEF WrittenKnown
        <5>2. \A k \in 1..Len(daemon.events) : ~(k > c.revision)
          BY <4>3, <4>1
        <5>3. Heeds(b)'
          BY <1>2, <5>1, <5>2 DEF Heeds
        <5> QED
          BY <4>3, <4>1, <5>3
      <4> QED
        BY <3>2, <4>2, <4>3
    <3>3. engine'[b].subscribed <=> c.subscribed
      BY <1>2
    <3>4. engine'[b].instance = c.instance
      BY <1>2
    <3>5. Follows(b)'
      BY <3>2, <3>3, <3>4 DEF Follows
    <3> QED
      BY <2>2, <3>1, <3>5
  <2> QED
    BY <2>1, <2>2
<1> QED
  BY <1>3, <1>4, <1>5, <1>6 DEF IBusInv

\* Who asks has the focus.
LEMMA Asker ==
    ASSUME IBusInv, asked # Nothing
    PROVE  /\ asked.by \in Engines /\ asked.by = focus /\ asked.at \in {"snapshot", "action"} /\ asked.action \in Actions
           /\ asked = [by |-> asked.by, at |-> asked.at, action |-> asked.action]
           /\ engine[asked.by] \in EngineRow /\ engine \in [Engines -> EngineRow]
BY DEF IBusInv, IBusTypeOK

LEMMA SnapshotKeeps == IBusInv /\ Snapshot => IBusInv'
<1> SUFFICES ASSUME IBusInv, Snapshot PROVE IBusInv'
  OBVIOUS
<1> DEFINE b == asked.by
<1>1. asked.at = "snapshot" /\ asked # Nothing
  BY DEF Snapshot, Nothing
<1>2. /\ b \in Engines /\ b = focus /\ asked.action \in Actions /\ engine[b] \in EngineRow /\ engine \in [Engines -> EngineRow]
      /\ asked = [by |-> b, at |-> asked.at, action |-> asked.action]
  BY <1>1, Asker
<1>3. asked' = [by |-> b, at |-> "action", action |-> asked.action]
  BY <1>2 DEF Snapshot
<1>4. UNCHANGED <<daemon, focus, held, written>>
  BY DEF Snapshot
<1>5. daemon.instance \in Nat /\ Revision \in Nat /\ Current.state \in EventStates
  BY LastEvent DEF IBusInv, IBusTypeOK, EventRow
<1>6. PICK c \in EngineRow :
          /\ engine' = [engine EXCEPT ![b] = c] /\ c.session \in {engine[b].session, NoSession} /\ c.subscribed
          /\ \/ c.instance = engine[b].instance /\ c.revision = engine[b].revision /\ engine[b].subscribed
             \/ c.instance = daemon.instance /\ c.revision = Len(daemon.events)
  <2>1. CASE ~engine[b].subscribed \/ engine[b].instance # daemon.instance
    <3>1. engine' = [engine EXCEPT ![b] = Synchronized(engine[b])]
      BY <2>1 DEF Snapshot
    <3>2. /\ Synchronized(engine[b]) \in EngineRow /\ Synchronized(engine[b]).session = NoSession /\ Synchronized(engine[b]).subscribed
          /\ Synchronized(engine[b]).instance = daemon.instance /\ Synchronized(engine[b]).revision = Len(daemon.events)
      BY <1>2, <1>5 DEF Synchronized, EngineRow, NoSession, Revision
    <3> HIDE DEF EngineRow
    <3> QED
      BY <3>1, <3>2
  <2>2. CASE ~(~engine[b].subscribed \/ engine[b].instance # daemon.instance)
    <3>1. engine' = [engine EXCEPT ![b] = engine[b]]
      BY <1>2, <2>2 DEF Snapshot
    <3> HIDE DEF EngineRow
    <3> QED
      BY <1>2, <2>2, <3>1
  <2> QED
    BY <2>1, <2>2
<1>7. engine'[b] = c
  BY <1>2, <1>6
<1>8. /\ asked' \in [by : {focus} \cap Engines, at : {"snapshot", "action"}, action : Actions]
      /\ asked'.by = b
  BY <1>2, <1>3
<1> HIDE DEF b
<1>9. asked'.at = "action" => engine'[asked'.by].subscribed
  BY <1>6, <1>7, <1>8
<1> QED
  BY <1>2, <1>4, <1>6, <1>8, <1>9, Changing

LEMMA TooLateKeeps == IBusInv /\ TooLate => IBusInv'
<1> SUFFICES ASSUME IBusInv, TooLate PROVE IBusInv'
  OBVIOUS
<1> DEFINE b == asked.by
           c == GivenUp(engine[b])
<1>1. asked # Nothing /\ engine' = [engine EXCEPT ![b] = c] /\ asked' = Nothing /\ UNCHANGED <<daemon, focus, held, written>>
  BY DEF TooLate, Answered
<1>2. b \in Engines /\ b = focus /\ engine[b] \in EngineRow
  BY <1>1, Asker
<1>3. /\ c \in EngineRow /\ c.session = engine[b].session /\ (c.subscribed <=> engine[b].subscribed)
      /\ c.instance = engine[b].instance /\ c.revision = engine[b].revision
  BY <1>2 DEF GivenUp, EngineRow, EventStates
<1>4. asked'.at # "action"
  BY <1>1 DEF Nothing
<1> HIDE DEF b, c
<1> QED
  BY <1>1, <1>2, <1>3, <1>4, Changing

LEMMA AsksKeeps ==
    ASSUME IBusInv, Free, NEW e \in Engines, focus = e, NEW action \in Actions, Asks(e, action),
           daemon' = daemon, engine' = engine, focus' = focus, held' = held, written' = written
    PROVE  IBusInv'
<1>1. engine \in [Engines -> EngineRow]
  BY DEF IBusInv, IBusTypeOK
<1>2. PICK c \in EngineRow : c = engine[e]
  BY <1>1
<1>3. engine' = [engine EXCEPT ![e] = c]
  <2> HIDE DEF EngineRow
  <2> QED
    BY <1>1, <1>2
<1>4. asked' \in [by : {focus} \cap Engines, at : {"snapshot", "action"}, action : Actions]
  BY DEF Asks
<1>5. asked'.at = "action" => engine'[asked'.by].subscribed
  BY DEF Asks
<1> HIDE DEF EngineRow
<1> QED
  BY <1>2, <1>3, <1>4, <1>5, Changing

LEMMA PollKeeps == ASSUME IBusInv, NEW e \in Engines, Poll(e) PROVE IBusInv'
<1>1. /\ Free /\ focus = e /\ Asks(e, "status") /\ "status" \in Actions
      /\ daemon' = daemon /\ engine' = engine /\ focus' = focus /\ held' = held /\ written' = written
  BY DEF Poll, Actions
<1> QED
  BY <1>1, AsksKeeps

LEMMA KeyKeeps == ASSUME IBusInv, NEW e \in Engines, Key(e) PROVE IBusInv'
<1>1. PICK action \in {"begin", "release", "cancel", "select"} : Asks(e, action)
  BY DEF Key
<1>2. /\ Free /\ focus = e /\ action \in Actions
      /\ daemon' = daemon /\ engine' = engine /\ focus' = focus /\ held' = held /\ written' = written
  BY <1>1 DEF Key, Actions
<1> QED
  BY <1>1, <1>2, AsksKeeps

\* When the focus goes or comes, no engine follows, owns or shows anything.
LEMMA Quiet ==
    ASSUME IBusInv, daemon' = daemon, written' = written, held' \in Seq(SUBSET Owners), Len(held') = Len(held),
           focus' \in Owners, engine' \in [Engines -> EngineRow],
           \A e \in Engines : /\ ~engine'[e].subscribed /\ engine'[e].session = NoSession
                              /\ e # focus' => ~engine'[e].preedit /\ ~engine'[e].lookup,
           asked' = Nothing \/ asked' \in [by : {focus'} \cap Engines, at : {"snapshot"}, action : Actions]
    PROVE  IBusInv'
<1>1. IBusTypeOK /\ WrittenOnce /\ OnlyFocusShows /\ WrittenKnown
  BY DEF IBusInv
<1>2. /\ daemon \in [instance : Nat, before : Nat, session : Nat, events : Seq(EventRow)]
      /\ daemon.events # <<>> /\ daemon.session <= Len(held') /\ written \in Seq(Nat \X Nat \X Engines)
  <2> HIDE DEF EventRow
  <2> QED
    BY <1>1 DEF IBusTypeOK
<1>3. asked' = Nothing \/ asked' \in [by : {focus'} \cap Engines, at : {"snapshot", "action"}, action : Actions]
  OBVIOUS
<1>4. IBusTypeOK'
  <2> HIDE DEF EventRow, EngineRow, Owners
  <2> QED
    BY <1>2, <1>3 DEF IBusTypeOK
<1>5. WrittenOnce' /\ WrittenKnown' /\ OnlyFocusShows'
  BY <1>1 DEF WrittenOnce, WrittenKnown, OnlyFocusShows
<1>6. \A e \in Engines : Follows(e)' /\ Owning(e)'
  BY DEF Follows, Owning
<1>7. asked'.at # "action"
  BY DEF Nothing
<1> QED
  BY <1>4, <1>5, <1>6, <1>7 DEF IBusInv

LEMMA FocusOutKeeps == ASSUME IBusInv, NEW e \in Engines, FocusOut(e) PROVE IBusInv'
<1>1. IBusTypeOK /\ OnlyFocusShows /\ \A f \in Engines : Follows(f)
  BY DEF IBusInv
<1>2. /\ focus = e /\ focus' = Nobody /\ engine' = [engine EXCEPT ![e] = Blurred(engine[e])]
      /\ held' = [s \in DOMAIN held |-> held[s] \ {e}] /\ daemon' = daemon /\ asked' = Nothing /\ written' = written
  BY DEF FocusOut, Free
<1>3. engine \in [Engines -> EngineRow] /\ held \in Seq(SUBSET Owners) /\ Len(held) \in Nat /\ DOMAIN held = 1..Len(held)
      /\ \A s \in DOMAIN held : held[s] \in SUBSET Owners
  BY <1>1, LenProperties, ElementOfSeq DEF IBusTypeOK
<1>4. Blurred(engine[e]) \in EngineRow /\ ~Blurred(engine[e]).subscribed /\ Blurred(engine[e]).session = NoSession
      /\ ~Blurred(engine[e]).preedit /\ ~Blurred(engine[e]).lookup
  BY <1>3 DEF Blurred, EngineRow, NoSession
<1>5. PICK c \in EngineRow : c = Blurred(engine[e])
  BY <1>4
<1>6. engine' \in [Engines -> EngineRow] /\ engine'[e] = c /\ \A f \in Engines \ {e} : engine'[f] = engine[f]
  <2> HIDE DEF EngineRow
  <2> QED
    BY <1>2, <1>3, <1>5
<1>7. ASSUME NEW f \in Engines
      PROVE  ~engine'[f].subscribed /\ engine'[f].session = NoSession /\ ~engine'[f].preedit /\ ~engine'[f].lookup
  <2>1. CASE f = e
    BY <1>4, <1>5, <1>6, <2>1
  <2>2. CASE f # e
    BY <1>1, <1>2, <1>6, <2>2 DEF OnlyFocusShows, Follows
  <2> QED
    BY <2>1, <2>2
<1>8. held' \in [1..Len(held) -> SUBSET Owners]
  BY <1>2, <1>3
<1>9. held' \in Seq(SUBSET Owners) /\ Len(held') = Len(held)
  BY <1>3, <1>8, SeqDef, LenProperties
<1>10. focus' \in Owners
  BY <1>2 DEF Owners
<1> HIDE DEF EngineRow
<1> QED
  BY <1>2, <1>6, <1>7, <1>9, <1>10, Quiet

LEMMA FocusInKeeps == ASSUME IBusInv, NEW e \in Engines, FocusIn(e) PROVE IBusInv'
<1>1. IBusTypeOK /\ OnlyFocusShows /\ \A f \in Engines : Follows(f)
  BY DEF IBusInv
<1>2. /\ focus = Nobody /\ focus' = e /\ engine' = [engine EXCEPT ![e] = Entered(engine[e])]
      /\ held' = held /\ daemon' = daemon /\ written' = written
      /\ asked' = [by |-> e, action |-> "status", at |-> IF engine'[e].subscribed THEN "action" ELSE "snapshot"]
  BY DEF FocusIn
<1>3. engine \in [Engines -> EngineRow] /\ held \in Seq(SUBSET Owners)
  BY <1>1 DEF IBusTypeOK
<1>4. Entered(engine[e]) \in EngineRow /\ ~Entered(engine[e]).subscribed /\ Entered(engine[e]).session = NoSession
  BY <1>3 DEF Entered, EngineRow, NoSession
<1>5. PICK c \in EngineRow : c = Entered(engine[e])
  BY <1>4
<1>6. engine' \in [Engines -> EngineRow] /\ engine'[e] = c /\ \A f \in Engines \ {e} : engine'[f] = engine[f]
  <2> HIDE DEF EngineRow
  <2> QED
    BY <1>2, <1>3, <1>5
<1>7. ASSUME NEW f \in Engines
      PROVE  ~engine'[f].subscribed /\ engine'[f].session = NoSession /\ (f # focus' => ~engine'[f].preedit /\ ~engine'[f].lookup)
  <2>1. CASE f = e
    BY <1>2, <1>4, <1>5, <1>6, <2>1
  <2>2. CASE f # e
    BY <1>1, <1>2, <1>6, <2>2, EnginesAssumption DEF OnlyFocusShows, Follows, Nobody
  <2> QED
    BY <2>1, <2>2
<1>8. asked' \in [by : {focus'} \cap Engines, at : {"snapshot"}, action : Actions]
  <2>1. ~engine'[e].subscribed
    BY <1>7
  <2>2. asked' = [by |-> e, action |-> "status", at |-> "snapshot"]
    BY <1>2, <2>1
  <2> QED
    BY <1>2, <2>2 DEF Actions
<1>9. focus' \in Owners
  BY <1>2 DEF Owners
<1> HIDE DEF EngineRow
<1> QED
  BY <1>2, <1>3, <1>6, <1>7, <1>8, <1>9, Quiet

LEMMA ElsewhereKeeps == IBusInv /\ Elsewhere => IBusInv'
<1> SUFFICES ASSUME IBusInv, Elsewhere PROVE IBusInv'
  OBVIOUS
<1>1. PICK action : Perform(action)
  BY DEF Elsewhere
<1>2. Grown
  BY <1>1, PerformGrows DEF IBusInv
<1> QED
  BY <1>2, Growing DEF Elsewhere

LEMMA SpeaksKeeps == IBusInv /\ Speaks => IBusInv'
<1> SUFFICES ASSUME IBusInv, Speaks PROVE IBusInv'
  OBVIOUS
<1>1. Grown
  BY SpeaksGrows DEF IBusInv
<1> QED
  BY <1>1, Growing DEF Speaks

\* What the engine with the focus hears: the session it owns then was armed under its
\* focus, and so was that of each text it commits.
LEMMA OwnedIsHeld ==
    ASSUME IBusInv, Grown, focus' = focus, NEW b \in Engines, engine[b].subscribed,
           engine[b].instance = daemon.instance, NEW i,
           Owned(engine[b], daemon', i, TRUE) # NoSession
    PROVE  /\ Owned(engine[b], daemon', i, TRUE) \in DOMAIN held'
           /\ b \in held'[Owned(engine[b], daemon', i, TRUE)]
<1> DEFINE o == Owned(engine[b], daemon', i, TRUE)
<1>1. engine[b] \in EngineRow /\ daemon' \in DaemonRow /\ Owning(b) /\ IBusTypeOK
  BY DEF IBusInv, IBusTypeOK, Grown
<1>2. PICK c \in EngineRow : c = engine[b]
  BY <1>1
<1>3. \/ o \in {c.session, NoSession}
      \/ \E k \in New(c, daemon') : daemon'.events[k].state = "arming" /\ o = daemon'.events[k].session
  <2> HIDE DEF EngineRow, DaemonRow, o
  <2>1. o = Owned(c, daemon', i, TRUE)
    BY <1>2 DEF o
  <2>2. daemon' \in DaemonRow
    BY <1>1
  <2> QED
    BY <2>1, <2>2, OwnedFrom
<1>4. o # NoSession
  OBVIOUS
<1>5. c.revision \in Nat /\ Len(daemon'.events) \in Nat
  BY <1>1, LenProperties DEF EngineRow, DaemonRow
<1> HIDE DEF o, EngineRow, DaemonRow
<1>6. CASE o = c.session
  <2>1. Holds(b, o)
    BY <1>1, <1>2, <1>4, <1>6 DEF Owning
  <2>2. PICK s : s = o
    OBVIOUS
  <2>3. s \in DOMAIN held' /\ b \in held'[s]
    BY <1>1, <2>1, <2>2, HeldOn
  <2> QED
    BY <2>2, <2>3 DEF o
<1>7. ASSUME NEW k \in New(c, daemon'), daemon'.events[k].state = "arming", o = daemon'.events[k].session
      PROVE  o \in DOMAIN held' /\ b \in held'[o]
  <2>1. k \in 1..Len(daemon'.events) /\ k > c.revision
    BY <1>5 DEF New
  <2> QED
    BY <1>2, <1>7, <2>1, ArmedUnder
<1> QED
  BY <1>3, <1>4, <1>6, <1>7 DEF o

\* What it commits then follows what is written, and is of sessions it holds.
LEMMA Writes ==
    ASSUME IBusInv, Grown, focus' = focus, NEW b \in Engines, engine[b].subscribed,
           engine[b].instance = daemon.instance,
           written' = written \o Texts(b, engine[b], daemon', TRUE)
    PROVE  /\ written' \in Seq(Nat \X Nat \X Engines) /\ WrittenOnce' /\ WrittenKnown'
           /\ \A i \in (Len(written) + 1)..Len(written') :
                  written'[i][3] \in held'[daemon'.events[written'[i][2]].session]
<1>1. /\ engine[b] \in EngineRow /\ daemon' \in DaemonRow /\ Heeds(b) /\ IBusTypeOK /\ WrittenOnce /\ WrittenKnown
      /\ written \in Seq(Nat \X Nat \X Engines)
  BY DEF IBusInv, IBusTypeOK, Grown, Follows
<1>2. PICK c \in EngineRow : c = engine[b]
  BY <1>1
<1>3. PICK q \in Seq(Nat \X Nat \X Engines) :
          /\ q = Texts(b, c, daemon', TRUE)
          /\ \A i \in DOMAIN q : /\ q[i][1] = daemon'.instance /\ q[i][3] = b /\ q[i][2] \in New(c, daemon')
                                 /\ Owns(c, daemon', q[i][2], TRUE)
          /\ \A i, j \in DOMAIN q : i < j => q[i][2] < q[j][2]
  <2> HIDE DEF EngineRow, DaemonRow
  <2> DEFINE t == Texts(b, c, daemon', TRUE)
  <2>1. /\ t \in Seq(Nat \X Nat \X Engines)
        /\ \A i \in DOMAIN t : /\ t[i][1] = daemon'.instance /\ t[i][3] = b /\ t[i][2] \in New(c, daemon')
                               /\ Owns(c, daemon', t[i][2], TRUE)
        /\ \A i, j \in DOMAIN t : i < j => t[i][2] < t[j][2]
    BY <1>1, TextsAre
  <2>2. t = Texts(b, c, daemon', TRUE)
    OBVIOUS
  <2> HIDE DEF t
  <2> QED
    BY <2>1, <2>2
<1>4. /\ c.revision \in Nat /\ Len(daemon'.events) \in Nat /\ Len(daemon.events) \in Nat
      /\ Len(daemon.events) <= Len(daemon'.events) /\ daemon'.instance = daemon.instance /\ daemon.instance \in Nat
  <2>1. c.revision \in Nat
    BY DEF EngineRow
  <2> QED
    BY <1>1, <2>1, GrowsType
<1> DEFINE L == Len(written)
           n == Len(q)
<1>5. /\ L \in Nat /\ n \in Nat /\ DOMAIN written = 1..L /\ DOMAIN q = 1..n
      /\ written' = written \o q
  BY <1>1, <1>2, <1>3, LenProperties
<1>6. /\ written' \in Seq(Nat \X Nat \X Engines) /\ Len(written') = L + n /\ DOMAIN written' = 1..(L + n)
      /\ \A i \in 1..L : written'[i] = written[i]
      /\ \A i \in 1..n : written'[L + i] = q[i]
  <2>1. /\ written \o q \in Seq(Nat \X Nat \X Engines) /\ Len(written \o q) = L + n
        /\ \A i \in 1..(L + n) : (written \o q)[i] = IF i <= L THEN written[i] ELSE q[i - L]
    BY <1>1, ConcatProperties
  <2>2. DOMAIN (written \o q) = 1..(L + n)
    BY <2>1, LenProperties
  <2> HIDE DEF L, n
  <2>3. \A i \in 1..n : L + i \in 1..(L + n) /\ ~(L + i <= L) /\ (L + i) - L = i
    BY <1>5
  <2>4. \A i \in 1..L : i \in 1..(L + n) /\ i <= L
    BY <1>5
  <2> QED
    BY <1>5, <2>1, <2>2, <2>3, <2>4
<1>7. ASSUME NEW i \in 1..L
      PROVE  /\ written[i][1] \in Nat /\ written[i][2] \in Nat
             /\ \/ written[i][1] < daemon.instance
                \/ /\ written[i][1] = daemon.instance
                   /\ written[i][2] <= Len(daemon'.events) /\ written[i][2] <= c.revision
  <2>1. written[i] \in Nat \X Nat \X Engines
    BY <1>1, <1>5, ElementOfSeq
  <2>2. \/ written[i][1] < daemon.instance
        \/ written[i][1] = daemon.instance /\ written[i][2] <= Len(daemon.events)
    BY <1>1, <1>5 DEF WrittenKnown
  <2>3. written[i][1] = daemon.instance => written[i][2] <= c.revision
    BY <1>1, <1>2, <1>5 DEF Heeds
  <2>4. written[i][1] \in Nat /\ written[i][2] \in Nat
    BY <2>1
  <2> QED
    BY <1>4, <2>2, <2>3, <2>4
<1>8. ASSUME NEW i \in 1..n
      PROVE  /\ q[i][1] = daemon.instance /\ q[i][3] = b /\ q[i][2] \in Nat /\ q[i][2] > c.revision
             /\ q[i][2] <= Len(daemon'.events) /\ Owns(c, daemon', q[i][2], TRUE)
  <2>1. i \in DOMAIN q
    BY <1>5
  <2>2. PICK r : r = q[i][2]
    OBVIOUS
  <2>3. r \in New(c, daemon') /\ q[i][1] = daemon'.instance /\ q[i][3] = b /\ Owns(c, daemon', r, TRUE)
    BY <1>3, <2>1, <2>2
  <2>4. r \in Nat /\ r > c.revision /\ r <= Len(daemon'.events)
    BY <1>4, <2>3 DEF New
  <2> QED
    BY <1>4, <2>2, <2>3, <2>4
<1>9. \A i \in 1..(L + n) : i \in 1..L \/ \E k \in 1..n : i = L + k
  <2> SUFFICES ASSUME NEW i \in 1..(L + n), i \notin 1..L PROVE \E k \in 1..n : i = L + k
    OBVIOUS
  <2> HIDE DEF L, n
  <2>1. i - L \in 1..n /\ i = L + (i - L)
    BY <1>5
  <2> QED
    BY <2>1
<1> HIDE DEF L, n
<1>10. WrittenKnown'
  <2> SUFFICES ASSUME NEW i \in 1..(L + n)
               PROVE  \/ written'[i][1] < daemon.instance
                      \/ written'[i][1] = daemon.instance /\ written'[i][2] <= Len(daemon'.events)
    BY <1>4, <1>6 DEF WrittenKnown
  <2>1. CASE i \in 1..L
    BY <1>6, <1>7, <2>1
  <2>2. ASSUME NEW k \in 1..n, i = L + k PROVE written'[i][1] = daemon.instance /\ written'[i][2] <= Len(daemon'.events)
    BY <1>6, <1>8, <2>2
  <2> QED
    BY <1>9, <2>1, <2>2
<1>11. WrittenOnce'
  <2> SUFFICES ASSUME NEW i \in 1..(L + n), NEW j \in 1..(L + n), i < j
               PROVE  \/ written'[i][1] < written'[j][1]
                      \/ written'[i][1] = written'[j][1] /\ written'[i][2] < written'[j][2]
    BY <1>6 DEF WrittenOnce
  <2>1. CASE i \in 1..L /\ j \in 1..L
    <3>1. written'[i] = written[i] /\ written'[j] = written[j]
      BY <1>6, <2>1
    <3>2. \/ written[i][1] < written[j][1]
          \/ written[i][1] = written[j][1] /\ written[i][2] < written[j][2]
      <4>1. i \in DOMAIN written /\ j \in DOMAIN written /\ i < j
        BY <1>5, <2>1
      <4>2. WrittenOnce
        BY <1>1
      <4> QED
        BY <4>1, <4>2 DEF WrittenOnce
    <3> QED
      BY <3>1, <3>2
  <2>2. ASSUME i \in 1..L, NEW k \in 1..n, j = L + k
        PROVE  \/ written'[i][1] < written'[j][1]
               \/ written'[i][1] = written'[j][1] /\ written'[i][2] < written'[j][2]
    <3>1. written'[i] = written[i] /\ written'[j] = q[k]
      BY <1>6, <2>2
    <3>2. q[k][1] = daemon.instance /\ q[k][2] \in Nat /\ q[k][2] > c.revision
      BY <1>8
    <3>3. /\ written[i][2] \in Nat
          /\ \/ written[i][1] < daemon.instance
             \/ written[i][1] = daemon.instance /\ written[i][2] <= c.revision
      BY <1>7, <2>2
    <3>4. CASE written[i][1] < daemon.instance
      BY <3>1, <3>2, <3>4
    <3>5. CASE written[i][1] = daemon.instance /\ written[i][2] <= c.revision
      <4>1. written[i][2] < q[k][2]
        <5>1. c.revision \in Nat /\ written[i][2] <= c.revision
          BY <1>4, <3>2, <3>3, <3>5, Zenon
        <5> QED
          BY <5>1, <3>2, <3>3
      <4> QED
        BY <3>1, <3>2, <3>5, <4>1
    <3> QED
      BY <3>3, <3>4, <3>5
  <2>3. ASSUME NEW k \in 1..n, i = L + k, NEW m \in 1..n, j = L + m
        PROVE  written'[i][1] = written'[j][1] /\ written'[i][2] < written'[j][2]
    <3>1. written'[i] = q[k] /\ written'[j] = q[m]
      BY <1>6, <2>3
    <3>2. k < m
      BY <1>5, <2>3
    <3>3. q[k][2] < q[m][2]
      BY <1>3, <1>5, <3>2
    <3> QED
      BY <1>8, <3>1, <3>3
  <2>4. ASSUME NEW k \in 1..n, i = L + k, j \in 1..L PROVE FALSE
    BY <1>5, <2>4
  <2> QED
    BY <1>9, <2>1, <2>2, <2>3, <2>4
<1>12. ASSUME NEW i \in (Len(written) + 1)..Len(written')
       PROVE  written'[i][3] \in held'[daemon'.events[written'[i][2]].session]
  <2>1. i \in 1..(L + n) /\ i \notin 1..L
    <3>1. i \in (L + 1)..(L + n)
      BY <1>6 DEF L
    <3> QED
      BY <1>5, <3>1
  <2>2. PICK k \in 1..n : i = L + k
    BY <1>9, <2>1
  <2>3. PICK r : r = q[k][2]
    OBVIOUS
  <2>4. written'[i][3] = b /\ written'[i][2] = r /\ Owns(c, daemon', r, TRUE)
    BY <1>6, <1>8, <2>2, <2>3
  <2>5. daemon'.events[r].session # NoSession /\ Owned(engine[b], daemon', r, TRUE) = daemon'.events[r].session
    BY <1>2, <2>4 DEF Owns
  <2>6. b \in held'[Owned(engine[b], daemon', r, TRUE)]
    BY <2>5, OwnedIsHeld
  <2> QED
    BY <2>4, <2>5, <2>6
<1> QED
  BY <1>6, <1>10, <1>11, <1>12

LEMMA Commanded ==
    ASSUME IBusInv, Grown, focus' = focus, asked' = Nothing, NEW b \in Engines, b = focus, NEW h \in EngineRow,
           engine' = [engine EXCEPT ![b] = h], h.instance = daemon.instance, h.revision = Len(daemon'.events),
           h.session # NoSession => h.session \in DOMAIN held' /\ b \in held'[h.session],
           written' \in Seq(Nat \X Nat \X Engines), WrittenOnce', WrittenKnown'
    PROVE  IBusInv'
<1>1. IBusTypeOK /\ OnlyFocusShows
  BY DEF IBusInv
<1>2. /\ engine \in [Engines -> EngineRow] /\ engine' \in [Engines -> EngineRow]
      /\ engine'[b] = h /\ \A e \in Engines \ {b} : engine'[e] = engine[e]
  <2> HIDE DEF EngineRow
  <2> QED
    BY <1>1 DEF IBusTypeOK
<1>3. IBusTypeOK'
  <2> HIDE DEF EventRow, EngineRow, Owners
  <2> QED
    BY <1>1, <1>2, GrowsType DEF IBusTypeOK
<1>4. OnlyFocusShows'
  BY <1>1, <1>2 DEF OnlyFocusShows
<1>5. ASSUME NEW e \in Engines PROVE Follows(e)' /\ Owning(e)'
  <2>1. CASE e # b
    <3>1. Follows(e) /\ engine'[e] = engine[e] /\ engine[e].session = NoSession
      BY <1>1, <1>2, <2>1 DEF IBusInv, OnlyFocusShows
    <3> QED
      BY <2>1, <3>1 DEF Follows, Owning
  <2>2. CASE e = b
    <3>1. Owning(b)'
      BY <1>2 DEF Owning, Holds
    <3>2. /\ daemon'.instance = daemon.instance /\ daemon.instance \in Nat /\ Len(daemon'.events) \in Nat
      BY <1>1, GrowsType
    <3>3. \A i \in DOMAIN written' : written'[i][1] = daemon.instance => written'[i][2] <= h.revision
      BY <3>2 DEF WrittenKnown
    <3>4. \A k \in 1..Len(daemon'.events) : ~(k > h.revision)
      BY <3>2
    <3>5. Heeds(b)'
      BY <1>2, <3>2, <3>3, <3>4 DEF Heeds
    <3>6. engine'[b].instance <= daemon'.instance
      BY <1>2, <3>2
    <3> QED
      BY <2>2, <3>1, <3>5, <3>6 DEF Follows
  <2> QED
    BY <2>1, <2>2
<1>6. asked'.at # "action"
  BY DEF Nothing
<1> QED
  BY <1>3, <1>4, <1>5, <1>6 DEF IBusInv

\* What is written by a step is of sessions its engine has held since they were armed.
WrittenByOwner == \A i \in (Len(written) + 1)..Len(written') :
    LET w == written'[i] IN w[3] \in held'[daemon'.events[w[2]].session]

LEMMA CommandKeeps == IBusInv /\ Command => IBusInv' /\ WrittenByOwner
<1> SUFFICES ASSUME IBusInv, Command PROVE IBusInv' /\ WrittenByOwner
  OBVIOUS
<1>0. asked # Nothing /\ asked.at = "action"
  BY DEF Command, Nothing
<1>1. PICK b \in Engines : b = asked.by /\ b = focus /\ engine[b] \in EngineRow
  BY <1>0, Asker
<1>2. engine[b].subscribed /\ IBusTypeOK /\ WrittenOnce /\ WrittenKnown
  BY <1>0, <1>1 DEF IBusInv
<1>3. Grown /\ focus' = focus /\ asked' = Nothing
  BY <1>2, PerformGrows DEF Command, Answered
<1>4. (focus = asked.by) = TRUE
  BY <1>1
<1>5. PICK c \in EngineRow : c = engine[b]
  BY <1>1
<1>6. /\ daemon' \in DaemonRow /\ daemon'.events \in Seq(EventRow) /\ daemon'.events # <<>>
      /\ Len(daemon'.events) \in Nat /\ daemon.instance \in Nat
  BY <1>2, <1>3, GrowsType DEF Grown, DaemonRow
<1>7. Last(daemon'.events).state \in EventStates
  <2>1. Len(daemon'.events) \in 1..Len(daemon'.events)
    BY <1>6, EmptySeq, LenProperties
  <2>2. daemon'.events[Len(daemon'.events)] \in EventRow
    BY <1>6, <2>1, ElementOfSeq
  <2> QED
    BY <2>2 DEF Last, EventRow
<1>8. CASE c.instance = daemon.instance
  <2> DEFINE h == Heard(c, daemon', TRUE)
  <2>1. engine' = [engine EXCEPT ![b] = h] /\ written' = written \o Texts(b, c, daemon', TRUE)
    <3>1. /\ engine' = [engine EXCEPT ![b] = Heard(c, daemon', focus = asked.by)]
          /\ written' = written \o Texts(b, c, daemon', focus = asked.by)
      BY <1>1, <1>5, <1>8 DEF Command
    <3> QED
      BY <1>4, <3>1
  <2>2. /\ written' \in Seq(Nat \X Nat \X Engines) /\ WrittenOnce' /\ WrittenKnown' /\ WrittenByOwner
    BY <1>2, <1>3, <1>5, <1>8, <2>1, Writes DEF WrittenByOwner
  <2> DEFINE o == Owned(c, daemon', Len(daemon'.events), TRUE)
  <2>3. o # NoSession => o \in DOMAIN held' /\ b \in held'[o]
    BY <1>2, <1>3, <1>5, <1>8, OwnedIsHeld
  <2>4. o \in Nat
    <3>1. held' \in Seq(SUBSET Owners) /\ Len(held') \in Nat /\ DOMAIN held' = 1..Len(held')
      BY <1>3, LenProperties DEF Grown
    <3> HIDE DEF o
    <3> QED
      BY <2>3, <3>1 DEF NoSession
  <2>5. /\ h = [c EXCEPT !.revision = Len(daemon'.events), !.session = o,
                         !.state = IF New(c, daemon') = {} THEN c.state ELSE Last(daemon'.events).state,
                         !.preedit = Shown(c, daemon', TRUE, c.preedit, {"listening", "interim"}),
                         !.lookup = Shown(c, daemon', TRUE, c.lookup, {"candidates"})]
    BY DEF Heard
  <2>6. /\ Shown(c, daemon', TRUE, c.preedit, {"listening", "interim"}) \in BOOLEAN
        /\ Shown(c, daemon', TRUE, c.lookup, {"candidates"}) \in BOOLEAN
    <3>1. c.preedit \in BOOLEAN /\ c.lookup \in BOOLEAN
      BY DEF EngineRow
    <3> QED
      BY <3>1, ShownIsBoolean
  <2> HIDE DEF h, o
  <2>7. PICK p1 \in BOOLEAN, p2 \in BOOLEAN, st \in EventStates :
            h = [c EXCEPT !.revision = Len(daemon'.events), !.session = o, !.state = st, !.preedit = p1, !.lookup = p2]
    <3>1. PICK st : st = IF New(c, daemon') = {} THEN c.state ELSE Last(daemon'.events).state
      OBVIOUS
    <3>2. st \in EventStates
      <4>1. c.state \in EventStates
        BY DEF EngineRow
      <4> HIDE DEF EventStates, EngineRow
      <4> QED
        BY <1>7, <3>1, <4>1
    <3> HIDE DEF EventStates, EngineRow
    <3> QED
      BY <2>5, <2>6, <3>1, <3>2
  <2>8. h \in EngineRow /\ h.instance = c.instance /\ h.revision = Len(daemon'.events) /\ h.session = o
    <3> HIDE DEF EventStates
    <3> QED
      BY <1>6, <2>4, <2>7 DEF EngineRow
  <2> HIDE DEF EngineRow
  <2>9. IBusInv'
    BY <1>1, <1>3, <1>8, <2>1, <2>2, <2>3, <2>8, Commanded
  <2> QED
    BY <2>2, <2>9
<1>9. CASE c.instance # daemon.instance
  <2> DEFINE h == [c EXCEPT !.subscribed = TRUE, !.instance = daemon.instance,
                            !.revision = Len(daemon'.events), !.state = Last(daemon'.events).state,
                            !.session = NoSession, !.preedit = FALSE, !.lookup = FALSE]
  <2>1. engine' = [engine EXCEPT ![b] = h] /\ written' = written
    BY <1>1, <1>5, <1>9 DEF Command
  <2>2. h \in EngineRow /\ h.instance = daemon.instance /\ h.revision = Len(daemon'.events) /\ h.session = NoSession
    <3> HIDE DEF EventStates
    <3> QED
      BY <1>6, <1>7 DEF EngineRow, NoSession
  <2>3. written' \in Seq(Nat \X Nat \X Engines) /\ Len(written) \in Nat
    BY <1>2, <2>1, LenProperties DEF IBusTypeOK
  <2>4. WrittenOnce' /\ WrittenByOwner
    BY <1>2, <2>1, <2>3 DEF WrittenOnce, WrittenByOwner
  <2>5. WrittenKnown'
    <3>1. ASSUME NEW i \in DOMAIN written
          PROVE  \/ written[i][1] < daemon.instance
                 \/ written[i][1] = daemon.instance /\ written[i][2] <= Len(daemon'.events)
      <4>1. written[i][2] \in Nat
        BY <1>2 DEF IBusTypeOK
      <4>2. \/ written[i][1] < daemon.instance
            \/ written[i][1] = daemon.instance /\ written[i][2] <= Len(daemon.events)
        BY <1>2 DEF WrittenKnown
      <4> QED
        BY <1>2, <1>3, <4>1, <4>2, GrowsType
    <3> QED
      BY <1>2, <1>3, <2>1, <3>1, GrowsType DEF WrittenKnown
  <2> HIDE DEF h, EngineRow
  <2>6. IBusInv'
    BY <1>1, <1>3, <2>1, <2>2, <2>3, <2>4, <2>5, Commanded
  <2> QED
    BY <2>4, <2>6
<1> QED
  BY <1>8, <1>9

LEMMA IBusStep == IBusInv /\ [IBusNext]_ibusVars => IBusInv' /\ [WrittenByOwner]_ibusVars
<1> SUFFICES ASSUME IBusInv, [IBusNext]_ibusVars PROVE IBusInv' /\ (WrittenByOwner \/ UNCHANGED ibusVars)
  OBVIOUS
<1>1. written' = written => WrittenByOwner
  <2>1. Len(written) \in Nat
    BY LenProperties DEF IBusInv, IBusTypeOK
  <2> QED
    BY <2>1 DEF WrittenByOwner
<1>2. CASE Elsewhere
  BY <1>1, <1>2, ElsewhereKeeps DEF Elsewhere
<1>3. CASE Speaks
  BY <1>1, <1>3, SpeaksKeeps DEF Speaks
<1>4. CASE Restart
  BY <1>1, <1>4, RestartKeeps DEF Restart
<1>5. CASE Snapshot
  BY <1>1, <1>5, SnapshotKeeps DEF Snapshot
<1>6. CASE Command
  BY <1>6, CommandKeeps
<1>7. CASE TooLate
  BY <1>1, <1>7, TooLateKeeps DEF TooLate
<1>8. ASSUME NEW e \in Engines, Poll(e) PROVE IBusInv' /\ WrittenByOwner
  BY <1>1, <1>8, PollKeeps DEF Poll
<1>9. ASSUME NEW e \in Engines, Key(e) PROVE IBusInv' /\ WrittenByOwner
  BY <1>1, <1>9, KeyKeeps DEF Key
<1>10. ASSUME NEW e \in Engines, FocusOut(e) PROVE IBusInv' /\ WrittenByOwner
  BY <1>1, <1>10, FocusOutKeeps DEF FocusOut
<1>11. ASSUME NEW e \in Engines, FocusIn(e) PROVE IBusInv' /\ WrittenByOwner
  BY <1>1, <1>11, FocusInKeeps DEF FocusIn
<1>12. CASE UNCHANGED ibusVars
  <2>1. /\ daemon' = daemon /\ asked' = asked /\ engine' = engine /\ focus' = focus /\ held' = held /\ written' = written
    BY <1>12 DEF ibusVars
  <2>2. IBusInv'
    BY <2>1 DEF IBusInv, IBusTypeOK, WrittenOnce, OnlyFocusShows, WrittenKnown, Follows, Heeds, Owning, Holds
  <2> QED
    BY <1>12, <2>2
<1> QED
  BY <1>2, <1>3, <1>4, <1>5, <1>6, <1>7, <1>8, <1>9, <1>10, <1>11, <1>12 DEF IBusNext, EngineSteps

-----------------------------------------------------------------------------
\* What the user dictates is written once and in the order of the daemon's events, only
\* to the window that has kept the focus since the session was armed, and no other window
\* shows anything of it: for any engines, moves of the focus, restarts of the daemon and
\* requests that take too long (_synchronize, _apply and the focus callbacks of
\* controller.py).
THEOREM WrittenToOwners == WritingSpec => WrittenToFocus
<1>1. WritingInit => IBusInv
  BY Starts DEF WritingInit
<1>2. [WritingNext]_writingVars => [IBusNext]_ibusVars
  BY DEF WritingNext, TextStep, EngineStep, writingVars
<1>3. IBusInv /\ [WritingNext]_writingVars => IBusInv' /\ [WrittenByOwner]_ibusVars
  BY <1>2, IBusStep
<1>4. IBusInv => IBusTypeOK /\ WrittenOnce /\ OnlyFocusShows
  BY DEF IBusInv
<1>5. WritingSpec => []IBusInv /\ [][WrittenByOwner]_ibusVars
  BY <1>1, <1>3, PTL DEF WritingSpec
<1>6. [][WrittenByOwner]_ibusVars => WrittenToOwner
  BY PTL DEF WrittenToOwner, WrittenByOwner
<1> QED
  BY <1>4, <1>5, <1>6, PTL DEF WrittenToFocus

-----------------------------------------------------------------------------
(* The chunks of a dictation.                                               *)

CutRow == [start : Nat, end : Nat, reason : {"hard_limit", "semantic_endpoint", "release"}, base : Int]

\* While the key is held the open chunk is shorter than the limit, its stream begins where
\* the last cut says, and what is kept for the next stream is never less than the overlap.
ChunksInv ==
    /\ Len(said) \in Nat /\ core \in Nat /\ voice \in Nat /\ core <= Len(said) /\ voice <= Len(said)
    /\ said \in Seq(Letters \cup {Silence}) /\ cuts \in Seq(CutRow)
    /\ stream = [base |-> stream.base, decoded |-> stream.decoded, kept |-> stream.kept]
    /\ stream.base \in Int /\ stream.kept \in Int
    /\ stream.kept >= Len(said) - Overlap /\ (stream.kept <= core \/ stream.kept = Len(said) - Overlap)
    /\ phase = "listening" =>
          /\ Len(said) - core < Hard
          /\ stream.base = IF cuts = <<>> THEN core
                           ELSE IF Last(cuts).reason = "hard_limit" THEN core - Overlap ELSE core
    /\ ChunksTile

LEMMA ChunksStart == TextInit => ChunksInv
<1> SUFFICES ASSUME TextInit PROVE ChunksInv
  OBVIOUS
<1>1. /\ said = <<>> /\ core = 0 /\ voice = 0 /\ cuts = <<>>
      /\ stream = [base |-> 0, decoded |-> 0, kept |-> 0]
  BY DEF TextInit
<1>2. Len(said) = 0 /\ said \in Seq(Letters \cup {Silence}) /\ cuts \in Seq(CutRow) /\ DOMAIN cuts = {}
  <2> HIDE DEF CutRow
  <2> QED
    BY <1>1
<1>3. stream.base = 0 /\ stream.kept = 0 /\ stream = [base |-> stream.base, decoded |-> stream.decoded, kept |-> stream.kept]
  BY <1>1
<1>4. ChunksTile
  BY <1>1, <1>2, <1>3 DEF ChunksTile
<1> HIDE DEF CutRow
<1> QED
  BY <1>1, <1>2, <1>3, <1>4, TextAssumption DEF ChunksInv

\* A chunk that is cut where the last one ended, and no longer than the limit, is one
\* more piece.
LEMMA CutTiles ==
    ASSUME ChunksInv, phase = "listening", NEW now \in Nat, now > core, now - core <= Hard,
           NEW reason \in {"hard_limit", "semantic_endpoint", "release"},
           cuts' = Append(cuts, [start |-> core, end |-> now, reason |-> reason, base |-> stream.base]),
           core' = now, stream'.base <= now
    PROVE  cuts' \in Seq(CutRow) /\ ChunksTile' /\ cuts' # <<>> /\ Last(cuts').reason = reason
<1> DEFINE row == [start |-> core, end |-> now, reason |-> reason, base |-> stream.base]
           n == Len(cuts)
<1>1. /\ cuts \in Seq(CutRow) /\ core \in Nat /\ stream.base \in Int /\ ChunksTile
      /\ stream.base = IF cuts = <<>> THEN core
                       ELSE IF Last(cuts).reason = "hard_limit" THEN core - Overlap ELSE core
  BY DEF ChunksInv
<1>2. row \in CutRow
  BY <1>1 DEF CutRow
<1>3. n \in Nat /\ DOMAIN cuts = 1..n /\ (cuts = <<>> <=> n = 0) /\ Last(cuts) = cuts[n]
  BY <1>1, LenProperties, EmptySeq DEF Last
<1>4. row.start = core /\ row.end = now /\ row.reason = reason /\ row.base = stream.base
  OBVIOUS
<1>5. cuts' = Append(cuts, row)
  OBVIOUS
<1> HIDE DEF row, n, CutRow
<1>6. /\ cuts' \in Seq(CutRow) /\ Len(cuts') = n + 1 /\ DOMAIN cuts' = 1..(n + 1)
      /\ \A i \in 1..n : cuts'[i] = cuts[i]
      /\ cuts'[n + 1] = row
  <2>1. Append(cuts, row) \in Seq(CutRow) /\ Len(Append(cuts, row)) = n + 1
    BY <1>1, <1>2, AppendProperties DEF n
  <2>2. DOMAIN Append(cuts, row) = 1..(n + 1)
    BY <2>1, LenProperties
  <2> QED
    BY <1>1, <1>2, <1>3, <1>5, <2>1, <2>2, AppendProperties DEF n
<1>7. cuts' # <<>> /\ Last(cuts') = row
  BY <1>3, <1>6, EmptySeq DEF Last
<1>8. ASSUME NEW i \in 1..(n + 1)
      PROVE  /\ cuts'[i].start < cuts'[i].end /\ cuts'[i].end - cuts'[i].start <= Hard
             /\ cuts'[i].start = IF i = 1 THEN 0 ELSE cuts'[i - 1].end
             /\ cuts'[i].base = IF i = 1 \/ cuts'[i - 1].reason # "hard_limit" THEN cuts'[i].start
                                ELSE cuts'[i].start - Overlap
  <2>1. CASE i \in 1..n
    <3>1. cuts'[i] = cuts[i]
      BY <1>6, <2>1
    <3>2. i # 1 => cuts'[i - 1] = cuts[i - 1]
      BY <1>3, <1>6, <2>1
    <3>3. /\ cuts[i].start < cuts[i].end /\ cuts[i].end - cuts[i].start <= Hard
          /\ cuts[i].start = IF i = 1 THEN 0 ELSE cuts[i - 1].end
          /\ cuts[i].base = IF i = 1 \/ cuts[i - 1].reason # "hard_limit" THEN cuts[i].start
                            ELSE cuts[i].start - Overlap
      BY <1>1, <1>3, <2>1 DEF ChunksTile
    <3> QED
      BY <3>1, <3>2, <3>3
  <2>2. CASE i = n + 1
    <3>1. cuts'[i] = row
      BY <1>6, <2>2
    <3>2. core = IF n = 0 THEN 0 ELSE cuts[n].end
      BY <1>1, <1>3 DEF ChunksTile
    <3>3. CASE n = 0
      BY <1>1, <1>3, <1>4, <2>2, <3>1, <3>2, <3>3
    <3>4. CASE n # 0
      <4>1. i # 1 /\ i - 1 = n /\ cuts'[i - 1] = cuts[n]
        BY <1>3, <1>6, <2>2, <3>4
      <4>2. stream.base = IF cuts[n].reason # "hard_limit" THEN core ELSE core - Overlap
        BY <1>1, <1>3, <3>4
      <4> QED
        BY <1>1, <1>4, <3>1, <3>2, <3>4, <4>1, <4>2
    <3> QED
      BY <3>3, <3>4
  <2> QED
    BY <1>3, <2>1, <2>2
<1>9. ChunksTile'
  BY <1>4, <1>6, <1>7, <1>8 DEF ChunksTile
<1> QED
  BY <1>4, <1>6, <1>7, <1>9

LEMMA FeedKeeps == ASSUME ChunksInv, NEW unit \in Letters \cup {Silence}, Feed(unit) PROVE ChunksInv'
<1> DEFINE now == Len(said) + 1
           lastVoice == IF unit = Silence THEN voice ELSE now
           reason == Reason(now, lastVoice)
           kept == IF now - stream.kept > Overlap THEN now - Overlap ELSE stream.kept
<1>1. /\ phase = "listening" /\ phase' = phase /\ said' = Append(said, unit) /\ voice' = lastVoice
  BY DEF Feed
<1>2. /\ Len(said) \in Nat /\ core \in Nat /\ voice \in Nat /\ core <= Len(said) /\ voice <= Len(said)
      /\ said \in Seq(Letters \cup {Silence}) /\ stream.base \in Int /\ stream.kept \in Int
      /\ stream = [base |-> stream.base, decoded |-> stream.decoded, kept |-> stream.kept]
      /\ stream.kept >= Len(said) - Overlap /\ (stream.kept <= core \/ stream.kept = Len(said) - Overlap)
      /\ Len(said) - core < Hard /\ ChunksTile /\ cuts \in Seq(CutRow)
      /\ stream.base = IF cuts = <<>> THEN core
                       ELSE IF Last(cuts).reason = "hard_limit" THEN core - Overlap ELSE core
  BY <1>1 DEF ChunksInv
<1>3. Hard \in Nat /\ Overlap \in Nat /\ Overlap <= Hard /\ Hard > 0
  BY TextAssumption
<1>4. said' \in Seq(Letters \cup {Silence}) /\ Len(said') = now /\ now \in Nat
  BY <1>1, <1>2, AppendProperties
<1>5. voice' \in Nat /\ voice' <= now /\ lastVoice \in Nat
  BY <1>1, <1>2
<1>6. /\ kept \in Int /\ kept >= now - Overlap /\ (kept <= core \/ kept = now - Overlap)
      /\ kept <= now
  BY <1>2, <1>3
<1> DEFINE pushed == [stream EXCEPT !.decoded = Decodable(stream.base, @, now),
                                    !.kept = IF now - @ > Overlap THEN now - Overlap ELSE @]
<1>7. /\ pushed = [base |-> stream.base, decoded |-> pushed.decoded, kept |-> kept]
      /\ pushed.base = stream.base /\ pushed.kept = kept
  <2>1. PICK d : d = Decodable(stream.base, stream.decoded, now)
    OBVIOUS
  <2>2. pushed = [stream EXCEPT !.decoded = d, !.kept = kept]
    BY <1>2, <2>1
  <2> HIDE DEF pushed, kept
  <2> QED
    BY <1>2, <2>2
<1>8. CASE reason = "none"
  <2>1. stream' = pushed /\ core' = core /\ cuts' = cuts
    BY <1>8 DEF Feed
  <2>2. now - core < Hard
    BY <1>2, <1>3, <1>4, <1>8 DEF Reason
  <2> HIDE DEF pushed, kept
  <2>3. /\ stream'.base = stream.base /\ stream'.kept = kept
        /\ stream' = [base |-> stream'.base, decoded |-> stream'.decoded, kept |-> stream'.kept]
    BY <1>7, <2>1
  <2> HIDE DEF now, lastVoice, reason
  <2>4. ChunksTile'
    BY <1>2, <2>1, <2>3 DEF ChunksTile
  <2>5. core <= now
    BY <1>2 DEF now
  <2> HIDE DEF CutRow
  <2> QED
    BY <1>1, <1>2, <1>4, <1>5, <1>6, <2>1, <2>2, <2>3, <2>4, <2>5 DEF ChunksInv
<1>9. CASE reason # "none"
  <2>1. /\ reason \in {"hard_limit", "semantic_endpoint"}
        /\ now > core /\ now - core <= Hard /\ (reason = "hard_limit" => now - core = Hard)
    BY <1>2, <1>3, <1>4, <1>9 DEF Reason
  <2>2. /\ stream' = NextStream(pushed, now, reason) /\ core' = now
        /\ cuts' = Append(cuts, [start |-> core, end |-> now, reason |-> reason, base |-> stream.base])
    BY <1>9 DEF Feed
  <2>3. /\ stream' = [base |-> stream'.base, decoded |-> stream'.decoded, kept |-> stream'.kept]
        /\ stream'.base = IF reason = "hard_limit" THEN now - Overlap ELSE now
        /\ stream'.kept = IF reason = "hard_limit" THEN now - Overlap ELSE now
    <3>1. CASE reason = "hard_limit"
      <4>1. kept = now - Overlap
        BY <1>2, <1>3, <1>4, <1>6, <2>1, <3>1
      <4> HIDE DEF pushed, kept, now, reason
      <4>2. PICK d : stream' = [base |-> pushed.kept, kept |-> pushed.kept, decoded |-> d]
        BY <2>2, <3>1 DEF NextStream
      <4> QED
        BY <1>7, <3>1, <4>1, <4>2
    <3>2. CASE reason # "hard_limit"
      <4> HIDE DEF pushed, kept, now, reason
      <4>1. stream' = [base |-> now, decoded |-> 0, kept |-> now]
        BY <2>2, <3>2 DEF NextStream
      <4> QED
        BY <3>2, <4>1
    <3> QED
      BY <3>1, <3>2
  <2> HIDE DEF pushed, kept, reason
  <2>4. stream'.base \in Int /\ stream'.kept \in Int /\ stream'.base <= now /\ stream'.kept >= now - Overlap /\ stream'.kept <= now
    BY <1>3, <1>4, <2>3
  <2> HIDE DEF now, lastVoice
  <2>5. cuts' \in Seq(CutRow) /\ ChunksTile' /\ cuts' # <<>> /\ Last(cuts').reason = reason
    BY <1>1, <1>4, <2>1, <2>2, <2>4, CutTiles
  <2>6. now - now < Hard /\ now <= now
    BY <1>3, <1>4
  <2> HIDE DEF CutRow
  <2> QED
    BY <1>1, <1>3, <1>4, <1>5, <2>1, <2>2, <2>3, <2>4, <2>5, <2>6 DEF ChunksInv
<1> QED
  BY <1>8, <1>9

LEMMA ReleaseKeeps == ASSUME ChunksInv, Release PROVE ChunksInv'
<1> DEFINE now == Len(said)
<1>1. /\ phase = "listening" /\ phase' = "idle" /\ said' = said /\ voice' = voice /\ stream' = stream
      /\ IF now > core
         THEN cuts' = Append(cuts, [start |-> core, end |-> now, reason |-> "release", base |-> stream.base])
              /\ core' = now
         ELSE cuts' = cuts /\ core' = core
  BY DEF Release
<1>2. /\ now \in Nat /\ core \in Nat /\ core <= now /\ now - core < Hard /\ stream.base \in Int /\ stream.kept \in Int
      /\ stream.base <= core /\ Hard \in Nat
      /\ (stream.kept <= core \/ stream.kept = now - Overlap)
  BY <1>1, TextAssumption DEF ChunksInv, ChunksTile
<1>3. CASE now > core
  <2>1. stream'.base <= now /\ now - core <= Hard
    BY <1>1, <1>2
  <2> HIDE DEF now
  <2>2. cuts' \in Seq(CutRow) /\ ChunksTile'
    BY <1>1, <1>2, <1>3, <2>1, CutTiles
  <2>3. stream.kept <= now \/ stream.kept = now - Overlap
    BY <1>2
  <2> HIDE DEF CutRow
  <2> QED
    BY <1>1, <1>2, <1>3, <2>2, <2>3 DEF ChunksInv, now
<1>4. CASE ~(now > core)
  <2>1. ChunksTile'
    BY <1>1, <1>4 DEF ChunksInv, ChunksTile
  <2> HIDE DEF CutRow
  <2> QED
    BY <1>1, <1>4, <2>1 DEF ChunksInv
<1> QED
  BY <1>3, <1>4

LEMMA TextStepKeeps == ChunksInv /\ [TextNext]_textVars => ChunksInv'
<1> SUFFICES ASSUME ChunksInv, [TextNext]_textVars PROVE ChunksInv'
  OBVIOUS
<1>1. ASSUME said' = said, core' = core, voice' = voice, stream' = stream, cuts' = cuts,
             phase' = phase \/ phase' # "listening"
      PROVE  ChunksInv'
  BY <1>1 DEF ChunksInv, ChunksTile
<1>2. CASE RecognitionFails
  BY <1>1, <1>2 DEF RecognitionFails
<1>3. CASE UNCHANGED textVars
  BY <1>1, <1>3 DEF textVars
<1> QED
  BY <1>2, <1>3, FeedKeeps, ReleaseKeeps DEF TextNext

\* The chunks are the session cut into pieces without gap or overlap, none longer than
\* the limit, and the stream of each holds all of it and, after a hard cut, exactly the
\* overlap before it: for any limit, overlap, pause and speech (ChunkPlanner.push of
\* streaming.py, push and _open_stream of runtime.py).
THEOREM ChunksFollow == WritingSpec => []ChunksTile
<1>1. WritingInit => ChunksInv
  BY ChunksStart DEF WritingInit
<1>2. [WritingNext]_writingVars => [TextNext]_textVars
  BY DEF WritingNext, TextStep, EngineStep, writingVars
<1>3. ChunksInv => ChunksTile
  BY DEF ChunksInv
<1> QED
  BY <1>1, <1>2, <1>3, TextStepKeeps, PTL DEF WritingSpec
=============================================================================
