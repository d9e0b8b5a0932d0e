---------------------------- MODULE SprintBoard ----------------------------
(***************************************************************************)
(* Sprints composed with the packets they group: `task start` counts the   *)
(* active packets of the packet's sprint against the sprint's WIP limit,   *)
(* and a sprint closes when all of its packets are done or dropped. The    *)
(* board reads packet statuses; packets know nothing of sprints.           *)
(***************************************************************************)
EXTENDS TaskLifecycle

CONSTANTS
  Sprints,   \* sprint ids
  WipLimits  \* the limits a sprint may be created with, NoLimit for none

NoLimit == 0
ASSUME WipLimitsAssumption == WipLimits \subseteq Nat

VARIABLES
  sprint,    \* sprints: state and wip_limit, Unopened before the row exists
  tasks      \* sprint_tasks: the packets of each sprint

boardVars == <<sprint, tasks>>
allVars == <<vars, boardVars>>

Unopened == [state |-> "unopened", wip |-> NoLimit]

BoardInit ==
  /\ Init
  /\ sprint = [b \in Sprints |-> Unopened]
  /\ tasks = [b \in Sprints |-> {}]

createSprint(b, wip) ==
  /\ sprint[b] = Unopened
  /\ sprint' = [sprint EXCEPT ![b] = [state |-> "open", wip |-> wip]]
  /\ UNCHANGED tasks

addTaskToSprint_anyState(b, p) ==   \* mutant: accepts a closed sprint
  /\ sprint[b] # Unopened
  /\ exists(p)
  /\ tasks' = [tasks EXCEPT ![b] = @ \cup {p}]
  /\ UNCHANGED sprint
\* Nothing keeps a packet out of a second sprint, nor active work out of any.
addTaskToSprint(b, p) ==
  /\ sprint[b].state = "open"
  /\ exists(p)
  /\ tasks' = [tasks EXCEPT ![b] = @ \cup {p}]
  /\ UNCHANGED sprint

\* A closed sprint may lose a packet: the state is not read.
removeTaskFromSprint(b, p) ==
  /\ p \in tasks[b]
  /\ tasks' = [tasks EXCEPT ![b] = @ \ {p}]
  /\ UNCHANGED sprint

closeSprint(b) ==
  /\ sprint[b].state = "open"
  /\ \A p \in tasks[b] : status[p] \in Terminal
  /\ sprint' = [sprint EXCEPT ![b].state = "closed"]
  /\ UNCHANGED tasks

openSprintsOf(p) == {b \in Sprints : sprint[b].state = "open" /\ p \in tasks[b]}
activeCount(b) == Cardinality({p \in tasks[b] : status[p] = "active"})

withinWipLimit_offByOne(p) ==   \* mutant: admits one start too many
  \/ openSprintsOf(p) = {}
  \/ \E b \in openSprintsOf(p) :
       sprint[b].wip = NoLimit \/ activeCount(b) <= sprint[b].wip
\* The limit of the sprint the query returns first: any one of the open sprints.
withinWipLimit(p) ==
  \/ openSprintsOf(p) = {}
  \/ \E b \in openSprintsOf(p) :
       sprint[b].wip = NoLimit \/ activeCount(b) < sprint[b].wip
----------------------------------------------------------------------------
BoardStep ==
  \E b \in Sprints :
    \/ \E wip \in WipLimits : createSprint(b, wip)
    \/ \E p \in Packets : addTaskToSprint(b, p) \/ removeTaskFromSprint(b, p)
    \/ closeSprint(b)

StartInSprint == \E s \in Sessions, p \in Packets : withinWipLimit(p) /\ startPacket(s, p)

BoardNext ==
  \/ BoardStep /\ UNCHANGED vars
  \/ StartInSprint /\ UNCHANGED boardVars
  \/ (Redefine \/ Work \/ Environment) /\ UNCHANGED boardVars

BoardSpec == BoardInit /\ [][BoardNext]_allVars
----------------------------------------------------------------------------
\* Closing a sprint hides no open work: whatever is moved, reopened, imported or
\* added later, every packet of a closed sprint is and stays done or dropped.
ClosedSprintHasNoOpenWork ==
  \A b \in Sprints : sprint[b].state = "closed" => \A p \in tasks[b] : status[p] \in Terminal

\* A sprint exceeds its WIP limit only because active work was added to it or
\* because the packet that started counted against another sprint: as long as
\* nobody is in two open sprints, moves, takeovers and starts respect the limit.
overLimit(b) ==
  /\ sprint[b].state = "open"
  /\ sprint[b].wip # NoLimit
  /\ activeCount(b) > sprint[b].wip
OverLimitOnlyByMembership ==
  [][\A b \in Sprints : overLimit(b)' =>
       \/ overLimit(b)
       \/ tasks'[b] # tasks[b]
       \/ \E p \in tasks[b] :
            status[p] # "active" /\ status'[p] = "active" /\ openSprintsOf(p) # {b}]_allVars
=============================================================================
