---------------------------- MODULE WorkflowPath ----------------------------
(***************************************************************************)
(* What the workflow engine promises: every workflow walks, from the start *)
(* step of the definition it was started with, along routes of that same   *)
(* definition, until a route leaves it or it fails, and then never moves.  *)
(* Queues, leases, workers, retries and crashes are invisible here.        *)
(***************************************************************************)
EXTENDS Naturals, Sequences, SequencesExt

CONSTANTS Candidates, None

VARIABLE place   \* run -> [of: its definition, at: its step, state]

PathInit == place = <<>>

Begin ==
    \E d \in Candidates :
        place' = Append(place, [of |-> d, at |-> d.start, state |-> "OPEN"])

\* Along a route of its own definition, out of it when the route has no target.
Take(r) ==
    /\ place[r].state = "OPEN"
    /\ \E q \in Range(place[r].of.routes) :
         /\ q.from = place[r].at
         /\ place' = [place EXCEPT ![r] = [of |-> place[r].of, at |-> q.target,
                          state |-> IF q.target = None THEN "COMPLETED" ELSE "OPEN"]]

GiveUp(r) ==
    /\ place[r].state = "OPEN"
    /\ place' = [place EXCEPT ![r].state = "FAILED"]

PathNext == Begin \/ \E r \in DOMAIN place : Take(r) \/ GiveUp(r)

PathSpec == PathInit /\ [][PathNext]_place
=============================================================================
