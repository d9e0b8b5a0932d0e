-------------------------- MODULE MCTaskLifecycle --------------------------
(* Instances of TaskLifecycle for TLC. *)
EXTENDS TaskLifecycle, TLC

CONSTANTS p1, p2, g1, g2

def(ws, ds) == [writeSet |-> ws, dependsOn |-> ds, body |-> "b"]
\* g1: src/*.ts; g2: src/a.ts, which g1 matches and which does not match g1.
patternOverlaps == {<<g1, g1>>, <<g2, g2>>, <<g1, g2>>}

\* work: a kind that writes g1, and one that writes g2 and waits for p1; an amend
\* moves a packet from one to the other, into what another packet holds.
workDefinitions == {def({g1}, {}), def({g2}, {p1})}
workFiles == {def({g2}, {p1})}

sessionSymmetry == Permutations(Sessions)
=============================================================================
