\* Globs of up to three segments; two items in two versions and two charters.
SPECIFICATION Spec
CONSTANTS
  MaxDepth = 3
  LiveSegments <- liveSegments
  Expression <- expression
  a = a
  b = b
  charter = charter
  k1 = k1
  k2 = k2
  r1 = r1
  r2 = r2
  read = read
  decision = decision
  principle = principle
  RoleKind = RoleKind
  Refused = Refused
  Wildcard = Wildcard
  KnownRoles = {r1, r2}
  RoleCharters <- roleCharters
  ItemInputs <- itemInputs
  VersionedInputs <- versionedInputs
  Precedences <- precedences
  Requests <- requests
  MaxVersions = 3
  MaxPacks = 1
CHECK_DEADLOCK FALSE
INVARIANT PlainGlobsExact
PROPERTIES PackIsWhole GrantIsBacked
