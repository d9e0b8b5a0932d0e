\* Two processes and a daemon on one store and one backup directory.
SPECIFICATION Spec
CONSTANTS
  a1 = a1
  a2 = a2
  None = None
  Actors = {a1, a2}
  Retention = 2
  DefaultRetention = 3
  Floor = 2
  MaxBackups = 4
  MaxWrites = 1
SYMMETRY alike
CHECK_DEADLOCK FALSE
PROPERTIES RestorableFloor OverwrittenStateIsSaved InstalledStateIsUsable
