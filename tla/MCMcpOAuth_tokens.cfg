SPECIFICATION FairSpec
CONSTANTS
  Conns = {c1, c2}
  Enrs = {e1}
  Reqs = {r1}
  Codes = {k1}
  Grants = {g1}
  Pairs = {p1, p2}
  Tasks = {t1}
  NoConn = NoConn
  NoEnr = NoEnr
  NoReq = NoReq
  NoCode = NoCode
  NoGrant = NoGrant
  MaxFailed = 1
  MaxIssues = 1
INVARIANTS RevokedGrantIsDead OneLiveRefreshToken RevokedConnectionIsDead TargetIsRespected
PROPERTIES ReservationEnds
CHECK_DEADLOCK FALSE
