CONSTANTS
  Attempts = {a1, a2}
  Releases = {r1, r2}
  Legacy = legacy0
  FactValues <- MCFactValues
  Unset = Unset
  Baseline = r1
  Installed = r1
  BackupKeep = 1
  MaxFaults = 1
  MaxWrites = 0
  LegacyHosts = {FALSE}
SPECIFICATION MCSpec
PROPERTY RollbackRestoresRuntime
