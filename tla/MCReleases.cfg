SPECIFICATION Spec
CONSTANTS
  Tags = {2, 3}
  SourceBuilt <- Built
  Total = 2
  Keys = {"k"}
  Scenarios <- Bounded
INVARIANTS ReleaseTypeOK SignedIsSound SignedIsAccepted InstalledIsSigned
PROPERTIES NeverDowngrades StatusTellsTruth StaleStatusEnds
CHECK_DEADLOCK FALSE
