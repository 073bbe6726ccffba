CONSTANTS
  Names = {n1, n2}
  LastOctet = 4
  Limits = {0, 1}
  NoRow = NoRow
  Reqs = {d, r1, r2}
  Dashboards = {d}
  Main = Main
  NoName = NoName
  Ops = {"create", "revoke"}
  SerialWrites = FALSE
  Standings = {"absent", "stopped"}
  FirstKey = 2
  FaultKinds = {"db"}
  MaxFaults = 1
  MaxCrashes = 0
  MaxQuickUps = 0
SPECIFICATION FairSpec
PROPERTIES EventuallyMirrored
