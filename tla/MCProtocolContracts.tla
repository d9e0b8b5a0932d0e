------------------------ MODULE MCProtocolContracts ------------------------
(* Two roles that hand each other a contract, one vocabulary with one class, *)
(* and an escalation of a role with a class the vocabulary lacks.           *)
EXTENDS ProtocolContracts

CONSTANTS s1, s2, r1, r2, k1, k2, x1, x2, x3, j1, j2, e1, e2, shared

roleInput(context, input, output, judgment) ==
    [context |-> context, input |-> input, output |-> output, judgments |-> {judgment}]

seed ==
    [responsibilities |-> (j1 :> "SEMANTIC") @@ (j2 :> "SEMANTIC"),
     contextItems |-> [x \in {x1, x2, x3} |-> [active |-> TRUE, role |-> IF x = x2 THEN r2 ELSE r1]],
     roleContracts |-> (r1 :> contractRow(1, roleInput(x1, k2, k1, j1)))
                         @@ (r2 :> contractRow(1, roleInput(x2, k1, k2, j2))),
     roleHandoffs |-> {[source |-> r1, target |-> r2, contract |-> k1],
                       [source |-> r2, target |-> r1, contract |-> k2]},
     roleEscalations |-> {[role |-> r1, class |-> e1], [role |-> r2, class |-> e1]},
     requiredRoles |-> {r1, r2}]

roleEdits == {[role |-> r1, input |-> roleInput(x3, k2, k1, j1)]}
escalations == {[role |-> r1, class |-> e2]}
vocabularies == {[family |-> shared, classes |-> {e1}, defines |-> Definitions]}

sound == [parses |-> TRUE, owned |-> {}, copied |-> {}, uses |-> {}, examples |-> TRUE]
fragments == {sound, [sound EXCEPT !.owned = {"provenance", "correction"}, !.copied = {"provenance"}]}
\* Those that pass, for the run about the vocabulary.
soundFragments == {sound}

additions == {{}, {e2}}
mappings == {<<[role |-> r1, source |-> e2, target |-> e]>> : e \in {e1, e2}}

alike == Permutations(Sessions)
=============================================================================
