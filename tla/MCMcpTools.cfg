SPECIFICATION MCSpec
CONSTANTS
  Tasks = {t1, t2}
  MaxOps = 2
  Keys = {k1}
  Msgs = {m1, m2}
  Folders = {inbox}
  NoKey = NoKey
  Trash = Trash
  Limit = 1
  PerMinute = 2
  PerHour = 1
  MaxUid = 3
  MaxOutside = 2
INVARIANTS LedgerHolds MailboxHolds
PROPERTIES EveryCallEnds
