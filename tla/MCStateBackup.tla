---------------------------- MODULE MCStateBackup ----------------------------
(* Two processes run backups, restores, migrations and rebuilds; retention *)
(* is no more than the floor, so that the floor decides.                   *)
EXTENDS StateBackup, TLC

CONSTANTS a1, a2

alike == Permutations(Actors)
=============================================================================
