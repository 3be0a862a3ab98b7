CONSTANTS
  n1 = n1
  n2 = n2
  n3 = n3
  Node = {n1, n2, n3}
  Archiver = {n2, n3}
  Settings <- MCSettings
SPECIFICATION FairSpec
INVARIANTS
  TypeOK
  SlotSignedOnce
  CrashLosesNothing
  QuietMeansAgreed
PROPERTIES
  Replicated
  FallsQuiet
CHECK_DEADLOCK FALSE
