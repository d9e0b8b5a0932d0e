--------------------------- MODULE MCSprintBoard ---------------------------
(* Instances of SprintBoard for TLC: packets without write sets, so that only *)
(* the board can keep two of them from being active together.                 *)
EXTENDS SprintBoard, TLC

mcDefinitions == {[writeSet |-> {}, dependsOn |-> {}, body |-> "b"]}
mcSymmetry == Permutations(Packets) \cup Permutations(Sprints)
=============================================================================
