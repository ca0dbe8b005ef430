SPECIFICATION SignInSpec
CONSTANTS
  Conns = {c1}
  Enrs = {e1}
  Reqs = {r1}
  Codes = {k1}
  Grants = {g1}
  Pairs = {p1}
  Tasks = {t1}
  NoConn = NoConn
  NoEnr = NoEnr
  NoReq = NoReq
  NoCode = NoCode
  NoGrant = NoGrant
  MaxFailed = 1
  MaxIssues = 2
SYMMETRY Symmetry
INVARIANTS OldPasswordStopsWorking
CHECK_DEADLOCK FALSE
