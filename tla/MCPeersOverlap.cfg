CONSTANTS
  Names = {n1, n2, n3}
  LastOctet = 3
  Limits = {0, 1}
  NoRow = NoRow
  Reqs = {r1, r2}
  Dashboards = {}
  Main = Main
  NoName = NoName
  Ops = {"create", "list", "config", "revoke", "stop", "start", "limit"}
  SerialWrites = FALSE
  Standings = {"absent", "stopped", "imported", "legacy"}
  FirstKey = 3
  FaultKinds = {"db", "dev", "file"}
  MaxFaults = 1
  MaxCrashes = 1
  MaxQuickUps = 0
SPECIFICATION Spec
SYMMETRY Symmetry
INVARIANTS TypeOK KeysKeepTheirName ImportNeverConflicts
PROPERTIES SettingsKept
