----------------------------- MODULE PaidRequest -----------------------------
(***************************************************************************)
(* What the user of a paid transcription service is promised: submitting    *)
(* the job authorizes one request; a further one is sent only after a new   *)
(* authorization, which is asked for only when the last request was sent    *)
(* and brought nothing; a saved response is final and nothing is sent       *)
(* again (docs/user-guide.md:46, 60-62).                                    *)
(***************************************************************************)
EXTENDS Naturals

VARIABLES phase,   \* "authorized", "sent", or "saved"
          sent     \* the requests sent so far

paid == <<phase, sent>>

Init == phase = "authorized" /\ sent = 0

Send == phase = "authorized" /\ phase' = "sent" /\ sent' = sent + 1

\* The request failed or its result is unknown, and the user asks again.
Authorize == phase = "sent" /\ phase' = "authorized" /\ UNCHANGED sent

Save == phase = "sent" /\ phase' = "saved" /\ UNCHANGED sent

Next == Send \/ Authorize \/ Save

Spec == Init /\ [][Next]_paid
=============================================================================
