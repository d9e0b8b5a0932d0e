\* Two tasks whose candidates are promoted to one branch by two calls.
SPECIFICATION Spec
CONSTANTS
  None = None
  Main = main
  Tasks = {t1, t2}
  Calls = {c1, c2}
  Branches = {main}
  Runs = {r1, r2}
  MaxCandidates = 2
  MaxVersion = 1
  MaxConfig = 1
  MaxPushes = 0
INVARIANTS DoneWasApprovedAndLanded StageMatchesEvidence
PROPERTIES NoChangeIsLost OnlyApprovedWorkLands
SYMMETRY mcSymmetry
CHECK_DEADLOCK FALSE
