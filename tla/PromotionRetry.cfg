\* Two calls, repeated after crashes, while the definition and the configuration change.
SPECIFICATION RetriedSpec
CONSTANTS
  None = None
  Main = main
  Tasks = {t1}
  Calls = {c1, c2}
  Branches = {main}
  Runs = {r1}
  MaxCandidates = 1
  MaxVersion = 2
  MaxConfig = 2
  MaxPushes = 1
PROPERTIES LandedWorkIsClosed ImplementsReviewedIntegration
CHECK_DEADLOCK FALSE
