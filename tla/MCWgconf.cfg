CONSTANTS
  Names = {n1, n2}
  LastOctet = 4
  Editors = {e1, e2}
  NoEdit = NoEdit
  Shapes = {"script", "edited", "manual"}
  MaxClients = 2
  MaxKeys = 3
  Draws <- MCDraws
  MaxForeign = 4
  Nothing = Nothing
SPECIFICATION MCSpec
SYMMETRY Symmetry
INVARIANTS WellFormed JunkFits HandedComplete
PROPERTIES OnlyTheBlock ImplementsConfFile
