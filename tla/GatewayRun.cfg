SPECIFICATION Spec
CONSTANTS
  Callers = {c1, c2}
  Works = {w}
  Effects = {e}
  MaxAttempts = 2
  MaxTurns = 2
  MaxCalls = 2
  MaxBases = 1
  MaxCrashes = 1
INVARIANTS DurableTrail CompletedRunIsClean StoppedBeforeItSaysSo OneCompletionPerWork
PROPERTIES CallsEnd
CHECK_DEADLOCK FALSE
