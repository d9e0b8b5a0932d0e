\* Two packets, two sessions, a decision and a review move: claims, dependencies, write sets and the checkpoint together.
SPECIFICATION Spec
CONSTANTS
  p1 = p1
  p2 = p2
  g1 = g1
  g2 = g2
  NoSession = NoSession
  Packets = {p1, p2}
  Sessions = {s1, s2}
  Calls = {c1}
  Decisions = {d1}
  Globs = {g1, g2}
  Overlaps <- patternOverlaps
  Definitions <- workDefinitions
  Files <- workFiles
  SensitivePackets = {}
  SensitiveGlobs = {}
  CheckpointEnabled = TRUE
  CandidateRequired = TRUE
  MaxVersion = 2
INVARIANT CandidateWasCleared
PROPERTIES StatusFollowsAllowed CandidateComesFromHolder ActiveStandsOnClosedWork ImplementsPacketClaim MatchesOnlyLaterWork
SYMMETRY sessionSymmetry
