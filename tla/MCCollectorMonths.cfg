CONSTANTS
  Names = {n1, n2}
  None = None
  MaxMonth = 2
  MaxBytes = 1
  MaxResets = 0
  MaxClears = 0
  MaxFaults = 1
  MaxCrashes = 1
SPECIFICATION FairSpec
INVARIANTS NeverOvercharged
PROPERTIES EventuallySampled
