---------------------------- MODULE PacketClaim ----------------------------
(***************************************************************************)
(* What the task store promises to the sessions that share it: a packet is *)
(* claimed from the queue by one session, has at most one owner from then  *)
(* until it is submitted, is submitted by its owner only, and is never     *)
(* owned while it is queued, under review or closed.                       *)
(*                                                                         *)
(* TaskLifecycle implements it; the mapping is TaskLifecycle!Claims.       *)
(***************************************************************************)
CONSTANTS Packets, Sessions, NoSession

VARIABLES stage, owner

vars == <<stage, owner>>

Stage == {"queued", "working", "paused", "submitted", "closed"}

Init ==
  /\ stage = [p \in Packets |-> "queued"]
  /\ owner = [p \in Packets |-> NoSession]

Claim(s, p) ==
  /\ stage[p] = "queued"
  /\ stage' = [stage EXCEPT ![p] = "working"]
  /\ owner' = [owner EXCEPT ![p] = s]

Release(p) ==
  /\ owner[p] # NoSession
  /\ owner' = [owner EXCEPT ![p] = NoSession]
  /\ UNCHANGED stage

\* Abandoned work may be adopted; paused work only from the session that has it.
HandOver(s, p) ==
  /\ stage[p] = "working" \/ (stage[p] = "paused" /\ owner[p] # NoSession)
  /\ owner' = [owner EXCEPT ![p] = s]
  /\ UNCHANGED stage

Pause(p) ==
  /\ stage[p] = "working"
  /\ owner[p] # NoSession
  /\ stage' = [stage EXCEPT ![p] = "paused"]
  /\ UNCHANGED owner

Submit(p) ==
  /\ stage[p] = "working"
  /\ owner[p] # NoSession
  /\ stage' = [stage EXCEPT ![p] = "submitted"]
  /\ owner' = [owner EXCEPT ![p] = NoSession]

Requeue(p) ==
  /\ stage[p] \in {"paused", "submitted"}
  /\ stage' = [stage EXCEPT ![p] = "queued"]
  /\ owner' = [owner EXCEPT ![p] = NoSession]

Close(p) ==
  /\ stage[p] \in {"queued", "paused", "submitted"}
  /\ stage' = [stage EXCEPT ![p] = "closed"]
  /\ owner' = [owner EXCEPT ![p] = NoSession]

Next == \E p \in Packets :
  \/ \E s \in Sessions : Claim(s, p) \/ HandOver(s, p)
  \/ Release(p) \/ Pause(p) \/ Submit(p) \/ Requeue(p) \/ Close(p)

Spec == Init /\ [][Next]_vars
=============================================================================
