CONSTANTS
  Attempts = {a1}
  Releases = {r1, r2}
  Legacy = legacy0
  FactValues <- MCFactValues
  Unset = Unset
  Baseline = r1
  Installed = r1
  BackupKeep = 1
  MaxFaults = 3
  MaxWrites = 1
  LegacyHosts = {FALSE}
SPECIFICATION MCLiveSpec
INVARIANTS RecordsReadable
PROPERTIES LogOnlyGrows EveryAttemptEnds
