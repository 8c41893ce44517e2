CONSTANTS
  Own = {"first", "second"}
  Initial = "first"
  Uploads <- MCUploads
  Passphrase = "phrase"
  Unservable = {"strange"}
  Version = 1
  MaxRestores = 1
  MaxFaults = 2
SPECIFICATION RestoreLiveSpec
INVARIANTS RestoreTypeOK ServiceIsSound
PROPERTIES RestoreImplementsPromise EveryRestoreEnds
CHECK_DEADLOCK FALSE
