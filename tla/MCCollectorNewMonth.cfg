CONSTANTS
  Names = {n1}
  None = None
  MaxMonth = 2
  MaxBytes = 2
  MaxResets = 1
  MaxClears = 0
  MaxFaults = 0
  MaxCrashes = 0
SPECIFICATION Spec
PROPERTIES MonthStartsFresh
