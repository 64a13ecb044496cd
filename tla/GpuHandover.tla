---------------------------- MODULE GpuHandover ----------------------------
(***************************************************************************)
(* What the lease server promises the classroom and the resident workers,   *)
(* without sessions' deadlines, tasks or the lock: members hold the GPU     *)
(* together, the first one has it prepared, and it is given back once and   *)
(* only when the last one has left.  A failed end is owed and tried again.  *)
(***************************************************************************)
CONSTANT Sessions
VARIABLES members, core

handoverVars == <<members, core>>

Core == {"classroom", "preparing", "dictation", "ending", "owed"}

Init == members = {} /\ core = "classroom"

\* The first member: preparation starts from a GPU nobody is giving back.
Prepare(s) ==
    /\ members = {} /\ core \in {"classroom", "owed"}
    /\ members' = {s} /\ core' = "preparing"

Prepared == core = "preparing" /\ core' = "dictation" /\ UNCHANGED members

Join(s) ==
    /\ core = "dictation" /\ members # {} /\ s \notin members
    /\ members' = members \cup {s} /\ UNCHANGED core

Leave(s) ==
    /\ core = "dictation" /\ s \in members /\ members # {s}
    /\ members' = members \ {s} /\ UNCHANGED core

\* The last member leaves, or its preparation fails: the end starts with it.
LastLeaves(s) ==
    /\ core \in {"preparing", "dictation"} /\ members = {s}
    /\ members' = {} /\ core' = "ending"

Ended == core = "ending" /\ core' \in {"classroom", "owed"} /\ UNCHANGED members
Again == core = "owed" /\ members = {} /\ core' = "ending" /\ UNCHANGED members

\* The core process dies and starts with the classroom owning the GPU.
Restart == members' = {} /\ core' = "classroom"

Next ==
    \/ Prepared \/ Ended \/ Again \/ Restart
    \/ \E s \in Sessions : Prepare(s) \/ Join(s) \/ Leave(s) \/ LastLeaves(s)

Spec == Init /\ [][Next]_handoverVars
=============================================================================
