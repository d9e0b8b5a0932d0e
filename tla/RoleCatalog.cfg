\* The bundled catalogue, from an empty and a hand-made store, with crashes and a new release.
SPECIFICATION Spec
CONSTANTS
  r1 = r1
  r2 = r2
  x1 = x1
  x2 = x2
  x3 = x3
  j1 = j1
  j2 = j2
  e1 = e1
  env = env
  rev = rev
  cap = cap
  m1 = m1
  m2 = m2
  a1 = a1
  a2 = a2
  pr1 = pr1
  pr2 = pr2
  None = None
  Bundled <- bundled
  Envelope = env
  ReviewContract = rev
  Capability = cap
  Capable = {m1}
  Attested = {m2}
  Wanted = {r1}
  Seeds <- seeds
  RoleInputs <- roleInputs
  PolicyInputs <- policyInputs
  ProfileInputs <- profileInputs
  MaxEdits = 3
  MaxRelease = 2
  MaxSpecs = 1
CHECK_DEADLOCK FALSE
INVARIANTS DispatchedOnCheckedCatalog EvidenceOfWhatRan ReceiptsProveProjection
PROPERTIES EditsSurviveBootstrap ArtifactsKeepTheirSchema
