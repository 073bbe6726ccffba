CONSTANTS
  Names = {n1, n2}
  LastOctet = 4
  Limits = {0, 1}
  NoRow = NoRow
  Reqs = {r1, r2, r3}
  Dashboards = {}
  Main = Main
  NoName = NoName
  Ops = {"create", "revoke", "stop", "start"}
  SerialWrites = TRUE
  Standings = {"absent", "enabled", "stopped"}
  FirstKey = 3
  FaultKinds = {"db", "dev", "file"}
  MaxFaults = 1
  MaxCrashes = 1
  MaxQuickUps = 1
SPECIFICATION Spec
SYMMETRY Symmetry
INVARIANTS BlocksDistinct RoutesHeld RevokedIsDead StoppedIsDead RevocationFinal
PROPERTIES StartupRepairs ServesRegistry
