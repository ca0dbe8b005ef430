SPECIFICATION SteadySpec
CONSTANTS
  MaxBackups = 1
  Handlers = {}
  Keep = 1
  AutoUpload = TRUE
PROPERTIES OnlyDeletionLosesBackups
