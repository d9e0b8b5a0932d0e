------------------------- MODULE MCDaemonLifecycle -------------------------
(* Two starts of a daemon, a command of the main checkout and one of a     *)
(* linked worktree, which share their workspace's binding.                 *)
EXTENDS DaemonLifecycle, TLC

CONSTANTS d1, d2, c1, c2, checkout, s1, s2

oneWorkspace == [c \in Commands |-> checkout]
=============================================================================
