SPECIFICATION SignInSpec
CONSTANTS
  Conns = {c1}
  Enrs = {e1}
  Reqs = {r1, r2}
  Codes = {k1, k2}
  Grants = {g1, g2}
  Pairs = {p1, p2}
  Tasks = {t1, t2}
  NoConn = NoConn
  NoEnr = NoEnr
  NoReq = NoReq
  NoCode = NoCode
  NoGrant = NoGrant
  MaxFailed = 1
  MaxIssues = 2
SYMMETRY Symmetry
INVARIANTS OneGrantPerIssue CodeDiesWithItsIssue SentCodeKeepsReservation OneOutcomePerRequest LockBoundsGuesses
PROPERTIES NoCodeWhileLocked
CHECK_DEADLOCK FALSE
