--------------------------- MODULE MCRoleCatalog ---------------------------
(* Two bundled roles, in an empty store and in one that holds them by hand. *)
EXTENDS RoleCatalog

CONSTANTS r1, r2, x1, x2, x3, j1, j2, e1, env, rev, cap, m1, m2, a1, a2, pr1, pr2

definition(context, judgment) ==
    [context |-> context, input |-> env, output |-> env, judgments |-> {judgment}, capability |-> cap]

route(r, s) == [source |-> r, target |-> s, contract |-> env]
bounded == [mode |-> "bounded", scopes |-> {env}]

bundled ==
    [profile |-> [id |-> "bundled", entry |-> r1, source |-> "bundled"],
     contracts |-> (r1 :> definition(x1, j1)) @@ (r2 :> definition(x2, j2)),
     policies |-> [r \in {r1, r2} |-> bounded],
     escalations |-> {[role |-> r, class |-> e1] : r \in {r1, r2}},
     handoffs |-> {route(r1, r2), route(r2, r1)},
     contexts |-> (x1 :> [active |-> TRUE, role |-> r1]) @@ (x2 :> [active |-> TRUE, role |-> r2])]

profileOf(id, role, agent, model) ==
    [id |-> id, role |-> role, agent |-> agent, model |-> model, enabled |-> TRUE]

empty ==
    [responsibilities |-> <<>>, contextItems |-> (x3 :> [active |-> TRUE, role |-> r1]),
     roleContracts |-> <<>>, roleHandoffs |-> {}, roleEscalations |-> {}, requiredRoles |-> {},
     artifactContracts |-> <<>>, policies |-> <<>>, operatingProfile |-> None,
     modelCapabilities |-> {}, executionProfiles |-> <<>>, edits |-> 0]

\* Made by hand, complete but for one policy.
byHand ==
    [responsibilities |-> (j1 :> "SEMANTIC") @@ (j2 :> "SEMANTIC"),
     contextItems |-> (x3 :> [active |-> TRUE, role |-> r1]) @@ (x2 :> [active |-> TRUE, role |-> r2]),
     roleContracts |-> (r1 :> contractRow(1, definition(x3, j1))) @@ (r2 :> contractRow(1, definition(x2, j2))),
     roleHandoffs |-> bundled.handoffs, roleEscalations |-> {[role |-> r2, class |-> e1]},
     requiredRoles |-> {r1, r2}, artifactContracts |-> (env :> activeRow(Schema({}, {}, {}))),
     policies |-> (r2 :> bounded), operatingProfile |-> [id |-> "own", entry |-> r2, source |-> "custom"],
     modelCapabilities |-> {cap},
     executionProfiles |-> (pr1 :> profileOf(pr1, r1, a1, m1)) @@ (pr2 :> profileOf(pr2, r2, a2, m1)),
     edits |-> 2]

seeds == {empty, byHand}
roleInputs == {[role |-> r1, input |-> definition(x3, j1)]}
policyInputs == {[role |-> r1, policy |-> bounded, escalations |-> {e1}]}
profileInputs == {profileOf(pr1, r1, a1, m2), profileOf(pr2, r2, a2, m1)}
=============================================================================
