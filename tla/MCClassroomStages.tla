------------------------- MODULE MCClassroomStages -------------------------
(***************************************************************************)
(* The job for the runs of ClassroomStages alone.                           *)
(***************************************************************************)
EXTENDS ClassroomStages

OneJob ==
    {[ranking |-> <<"m1", "m2", "m3">>, windows |-> {1}, strict |-> FALSE,
      candidates |-> 4, edits |-> 1, losses |-> 1]}
=============================================================================
