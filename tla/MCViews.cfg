CONSTANTS
  Names = {n1, n2}
  LastOctet = 2
  Limits = {0, 1, 2}
  NoRow = NoRow
  None = None
  MaxTotal = 2
  MaxWrites = 2
SPECIFICATION Spec
SYMMETRY Symmetry
CHECK_DEADLOCK FALSE
INVARIANTS OverLimitShown MarksAreJustified StoppedShownOffline TotalWithinRows
