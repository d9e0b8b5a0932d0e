------------------------ MODULE ReviewedIntegration ------------------------
(***************************************************************************)
(* What the promotion promises: a candidate is judged once; a task is done *)
(* once, by a candidate that was approved and is in a branch by then; and  *)
(* what a branch has is never taken out of it.                             *)
(*                                                                         *)
(* Promotion implements it; the mapping is Promotion!Reviewed.             *)
(***************************************************************************)
CONSTANTS Tasks, Branches, Candidates, None

VARIABLES
  work,     \* unknown, proposed, approved, rejected or closed
  owner,    \* the task each candidate is made for
  merged,   \* the candidates each branch contains
  done      \* the tasks that are done

vars == <<work, owner, merged, done>>

Init ==
  /\ work = [k \in Candidates |-> "unknown"]
  /\ owner = [k \in Candidates |-> None]
  /\ merged = [b \in Branches |-> {}]
  /\ done = {}

\* A candidate may be in a branch already when it is proposed.
Propose(t, k) ==
  /\ work[k] = "unknown"
  /\ t \notin done
  /\ work' = [work EXCEPT ![k] = "proposed"]
  /\ owner' = [owner EXCEPT ![k] = t]
  /\ \E bs \in SUBSET Branches :
       merged' = [b \in Branches |-> IF b \in bs THEN merged[b] \cup {k} ELSE merged[b]]
  /\ UNCHANGED done

Judge(k) ==
  /\ work[k] = "proposed"
  /\ \E v \in {"approved", "rejected"} : work' = [work EXCEPT ![k] = v]
  /\ UNCHANGED <<owner, merged, done>>

\* By a promotion or by hand.
Merge(b) ==
  /\ \E ks \in SUBSET {k \in Candidates : work[k] # "unknown"} :
       merged' = [merged EXCEPT ![b] = @ \cup ks]
  /\ UNCHANGED <<work, owner, done>>

Close(k) ==
  /\ work[k] = "approved"
  /\ \E b \in Branches : k \in merged[b]
  /\ owner[k] \notin done
  /\ work' = [work EXCEPT ![k] = "closed"]
  /\ done' = done \cup {owner[k]}
  /\ UNCHANGED <<owner, merged>>

Next ==
  \/ \E k \in Candidates : Judge(k) \/ Close(k) \/ \E t \in Tasks : Propose(t, k)
  \/ \E b \in Branches : Merge(b)

Spec == Init /\ [][Next]_vars
=============================================================================
