CONSTANTS
  Names = {n1}
  None = None
  MaxMonth = 2
  MaxBytes = 2
  MaxResets = 1
  MaxClears = 1
  MaxFaults = 1
  MaxCrashes = 0
SPECIFICATION Spec
INVARIANTS TypeOK NeverOvercharged LedgerAgrees
