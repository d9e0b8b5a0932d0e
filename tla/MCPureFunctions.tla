-------------------------- MODULE MCPureFunctions --------------------------
(* Two decisions that are functions of the store -- whether two globs share a *)
(* file, and what an agent is given to read -- each over its own bounded     *)
(* inputs: the globs deepen, or the catalogue is edited.                     *)
EXTENDS GlobOverlap, ContextCatalog

CONSTANTS a, b, charter, k1, k2, r1, r2, read, decision, principle

item(kind, key, selectors, dependencies, capabilities) ==
    [kind |-> kind, semanticKey |-> key, body |-> "first", selectors |-> selectors,
     dependencies |-> dependencies, capabilities |-> capabilities]
ref(id, version) == [id |-> id, version |-> version]
as(id, version, supersedes, row) == row @@ [id |-> id, version |-> version, supersedes |-> supersedes]

everyone == <<>>
only(role) == "role" :> {role}

\* a: a decision for everyone; its second version may mean something else, or
\* leave the first one active.  b: a principle that may contradict it.
aRow == item(decision, k1, everyone, {}, read :> "allow")
bRow == item(principle, k1, everyone, {}, read :> "deny")
charterRow == item(RoleKind, k2, only(r1), {ref(a, 1)}, <<>>)
itemInputs ==
    {as(a, 1, {}, aRow),
     as(a, 2, {ref(a, 1)}, aRow), as(a, 2, {}, [aRow EXCEPT !.semanticKey = k2]),
     as(b, 1, {}, bRow), as(b, 1, {ref(a, 1)}, bRow), as(b, 1, {}, [bRow EXCEPT !.dependencies = {ref(a, 1)}, !.semanticKey = k2]),
     as(charter, 1, {}, charterRow), as(charter, 2, {ref(charter, 1)}, [charterRow EXCEPT !.dependencies = {ref(b, 1)}])}

versionedInputs == {[aRow EXCEPT !.body = "second", !.capabilities = <<>>] @@ [id |-> a]}
precedences == {<<decision, principle, RoleKind>>, <<principle, decision, RoleKind>>, <<decision, principle>>}
roleCharters == [r \in {r1, r2} |-> IF r = r1 THEN ref(charter, 1) ELSE ref(b, 1)]
requests ==
    [role : {r1, r2}, attributes : {<<>>}, references : {{}, {ref(a, 1)}}, requestedCapabilities : {{}, {read}}]

\* "[u]" is the expression of the text u; "(u" is no expression, alone or in a path.
liveSegments == {"[u]", "(u"}
texts == UNION {[1..n -> Segments] : n \in 1..MaxDepth}
expressions == {g \in texts : hasLive(g) /\ "(u" \notin Range(g)}
expression ==
    [g \in expressions |->
       {t \in texts : /\ Len(t) = Len(g)
                      /\ \A i \in 1..Len(g) :
                           IF g[i] = "[u]" THEN t[i] = "u" ELSE segmentMatches(g[i], t[i])}]

\* Either the globs deepen or the catalogue changes.
Init == GlobInit /\ ContextInit
Next ==
    \/ ContextInit /\ GlobNext /\ UNCHANGED contextVars
    \/ ContextNext /\ UNCHANGED globVars /\ left = <<"u">> /\ right = <<"u">>
Spec == Init /\ [][Next]_<<globVars, contextVars>>
=============================================================================
