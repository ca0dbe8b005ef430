SPECIFICATION MCSpec
CONSTANTS
  MaxBackups = 2
  Handlers = {}
  Keep = 1
  AutoUpload = FALSE
  Disks <- MCDisks
  MaxArchives = 2
  MaxQueue = 1
  MaxMail = 1
  MaxSwaps = 1
  Callers = {e1, e2}
  MaxAttempts = 2
  MaxSize = 3
  MaxIds = 3
SYMMETRY Symmetry
INVARIANTS UploadsHold RetentionHolds VerifiedArchiveIsGood RestoreHolds DestinationHolds
