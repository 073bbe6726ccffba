CONSTANTS
  Names = {n1, n2}
  LastOctet = 4
  Limits = {0, 1}
  NoRow = NoRow
  Reqs = {d, r1, r2, r3}
  Dashboards = {d}
  Main = Main
  NoName = NoName
  Ops = {"create", "config", "revoke", "stop", "start"}
  SerialWrites = TRUE
  Standings = {"absent", "enabled", "stopped", "imported"}
  FirstKey = 3
  FaultKinds = {}
  MaxFaults = 0
  MaxCrashes = 0
  MaxQuickUps = 0
SPECIFICATION Spec
SYMMETRY Symmetry
INVARIANTS BlocksDistinct InterfaceKept RevokedIsDead StoppedIsDead RoutesHeld
