CONSTANTS
  Names = {n1, n2}
  LastOctet = 4
  Limits = {0, 1}
  NoRow = NoRow
  Reqs = {d, r1, r2}
  Dashboards = {d}
  Main = Main
  NoName = NoName
  Ops = {"create", "revoke", "stop", "start"}
  SerialWrites = TRUE
  Standings = {"absent", "enabled", "stopped"}
  FirstKey = 3
  FaultKinds = {}
  MaxFaults = 0
  MaxCrashes = 0
  MaxQuickUps = 1
SPECIFICATION FairSpec
PROPERTIES ImplementsRegistry
