CONSTANTS
  Directions = {up}
  UptimeEps = 1
  SnapshotDays = 1
  DeltaDays = 1
  HourlyDays = 2
  None = None
  Scenarios <- Three
SPECIFICATION Spec
INVARIANTS TrafficTypeOK LedgerIsConsistent CountsWhatWasRelayed
