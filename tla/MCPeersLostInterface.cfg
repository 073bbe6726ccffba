CONSTANTS
  Names = {n1, n2}
  LastOctet = 4
  Limits = {0, 1}
  NoRow = NoRow
  Reqs = {r1, r2}
  Dashboards = {}
  Main = Main
  NoName = NoName
  Ops = {"revoke"}
  SerialWrites = FALSE
  Standings = {"enabled"}
  FirstKey = 3
  FaultKinds = {}
  MaxFaults = 0
  MaxCrashes = 0
  MaxQuickUps = 0
SPECIFICATION Spec
PROPERTIES RemovesOnlyTheBlock
