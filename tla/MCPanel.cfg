SPECIFICATION MCSpec
CONSTANTS
  MaxVersion = 4
  MaxLaunches = 3
  EnvKeys = {"DWG_VERSION", "DATA_DIR"}
  Provenance = {"DWG_VERSION"}
  EnvValues = {"a", "b"}
  Conditions = {"c1", "c2"}
  Ticks = {1, 2}
  MaxDeaths = 1
  Absent = Absent
  Fields = {"MCP_ENABLED"}
  Refined = {"COOKIE_SECRET"}
  Optional = {"RSPAMD_PASSWORD"}
  ReadOnly = {"BROKER_SHARED_SECRET"}
  Removed = {"OLD"}
  McpKey = "MCP_ENABLED"
  Good = {"a", "b"}
  Bad = {"x"}
  SwitchedOn = "b"
  FirstEnv <- MCFirstEnv
  MaxBuild = 2
  MaxApplies = 2
  MaxEdits = 1
  MaxStarts = 3
INVARIANTS UpdateHolds SettingsHold
PROPERTIES PanelSettles BellHolds
CHECK_DEADLOCK FALSE
