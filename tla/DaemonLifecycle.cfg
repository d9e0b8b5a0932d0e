\* Two daemons and two commands meet at the lock, the token and the store.
SPECIFICATION Spec
CONSTANTS
  d1 = d1
  d2 = d2
  c1 = c1
  c2 = c2
  checkout = checkout
  None = None
  Daemons = {d1, d2}
  Commands = {c1, c2}
  Worktrees = {c2}
  Workspaces = {checkout}
  workspaceOf <- oneWorkspace
  s1 = s1
  s2 = s2
  Sessions = {s1, s2}
  MaxCrashes = 1
  MaxTimeouts = 1
CHECK_DEADLOCK FALSE
INVARIANTS CommandKeepsItsStore IdentifiedDaemonHasStore
PROPERTY EverythingEnds
