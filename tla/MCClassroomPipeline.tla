------------------------ MODULE MCClassroomPipeline ------------------------
(* Small instances of ClassroomPipeline for TLC. *)
EXTENDS ClassroomPipeline

CONSTANTS l1, l2, o1, o2, s1, u1, u2

OneSegment == [s \in {s1} |-> {3, 4}]
Short == [s \in {s1} |-> {3}]
NoSegments == [s \in {} |-> {}]
=============================================================================
