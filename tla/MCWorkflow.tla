----------------------------- MODULE MCWorkflow -----------------------------
(* A small instance of WorkflowEngine: one workflow with a loop-free path   *)
(* through an agent, a person and a runtime operation, a shorter second     *)
(* version, and definitions the registration has to refuse.                 *)
EXTENDS WorkflowEngine

CONSTANTS none

MCContracts == {"msg", "plan", "done"}
MCRole == ("triager" :> [in |-> "msg", out |-> "plan"])

Agent(max) == [key |-> "triage", executor |-> "agent", role |-> "triager",
               operation |-> none, in |-> "msg", out |-> "plan", max |-> max]
Person == [key |-> "approve", executor |-> "human", role |-> none,
           operation |-> none, in |-> "plan", out |-> "plan", max |-> 1]
Operation(in) == [key |-> "apply", executor |-> "runtime", role |-> none,
                  operation |-> "promotion", in |-> in, out |-> "done", max |-> 1]

Route(from, priority, when, target) ==
    [from |-> from, priority |-> priority, when |-> when, target |-> target]

Long == [id |-> "intake", start |-> "triage",
         steps |-> <<Agent(2), Person, Operation("plan")>>,
         routes |-> <<Route("triage", 0, "ask", "approve"), Route("triage", 1, Otherwise, "apply"),
                      Route("approve", 0, Otherwise, "apply"), Route("apply", 0, Otherwise, none)>>]
Short == [id |-> "intake", start |-> "triage", steps |-> <<Agent(1)>>,
          routes |-> <<Route("triage", 0, Otherwise, none)>>]
\* Refused: no way out of "approve" for some outputs; contracts that do not fit.
DeadEnd == [Long EXCEPT !.routes[3] = Route("approve", 0, "ask", "apply")]
Misfit == [Long EXCEPT !.steps[3] = Operation("msg")]

MCCandidates == {Long, Short, DeadEnd, Misfit}
=============================================================================
