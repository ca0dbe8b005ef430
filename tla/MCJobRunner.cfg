SPECIFICATION MCSpec
CONSTANTS
  Jobs = {j1, j2, j3, j4}
  NoJob = NoJob
  Firsts <- MCFirsts
  FirstDay = 28
  LastDay = 63
  MaxChanges = 2
  MaxDeaths = 1
INVARIANTS SerialExecution RowsMatchRunner NoLostWakeup ScheduleHolds
PROPERTIES ResultIsFinal WorkGoesOn PromiseSpec
CHECK_DEADLOCK FALSE
