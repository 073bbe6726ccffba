CONSTANTS
  Names = {n1}
  None = None
  MaxMonth = 2
  MaxBytes = 2
  MaxResets = 2
  MaxClears = 0
  MaxFaults = 1
  MaxCrashes = 0
SPECIFICATION Spec
INVARIANTS ExactBetweenSamples
PROPERTIES TotalsGrow ResetsCountedOnce
