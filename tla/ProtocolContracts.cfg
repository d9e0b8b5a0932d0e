\* Two proposals, batches and reconciliations; two edits of the role data.
SPECIFICATION Spec
CONSTANTS
  s1 = s1
  s2 = s2
  r1 = r1
  r2 = r2
  k1 = k1
  k2 = k2
  x1 = x1
  x2 = x2
  x3 = x3
  j1 = j1
  j2 = j2
  e1 = e1
  e2 = e2
  shared = shared
  None = None
  Sessions = {s1, s2}
  Vocabularies <- vocabularies
  Fragments <- fragments
  Mappings <- mappings
  Additions <- additions
  RoleEdits <- roleEdits
  Escalations <- escalations
  Bounded = {r1}
  Seed <- seed
  MaxRows = 3
  MaxEdits = 1
SYMMETRY alike
CHECK_DEADLOCK FALSE
INVARIANTS ActivatedWasReviewed OneVersionInForce SettledEscalationsStaySupported
