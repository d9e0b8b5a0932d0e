\* Two packets in and out of two sprints.
SPECIFICATION BoardSpec
CONSTANTS
  NoSession = NoSession
  Packets = {p1, p2}
  Sessions = {s1}
  Calls = {c1}
  Decisions = {}
  Globs = {}
  Overlaps = {}
  Definitions <- mcDefinitions
  Files = {}
  SensitivePackets = {}
  SensitiveGlobs = {}
  CheckpointEnabled = FALSE
  CandidateRequired = TRUE
  MaxVersion = 1
  Sprints = {b1, b2}
  WipLimits = {0, 1}
INVARIANT ClosedSprintHasNoOpenWork
PROPERTIES OverLimitOnlyByMembership
SYMMETRY mcSymmetry
