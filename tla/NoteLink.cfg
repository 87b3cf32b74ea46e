SPECIFICATION Spec
CONSTANTS
  p1 = p1
  p2 = p2
  Procs <- MCProcs
  LastName = 2
  Settings <- MCSettings
CHECK_DEADLOCK FALSE
INVARIANTS NoteSafe DoneOrUndone
PROPERTIES OthersKept
