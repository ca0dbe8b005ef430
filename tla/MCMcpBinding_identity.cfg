SPECIFICATION Spec
CONSTANTS
  Bindings = {b1, b2}
  Conns = {c1, c2, c3}
  Tasks = {t1, t2}
  NoBinding = NoBinding
  NoConn = NoConn
  MaxId = 2
  MaxConns = 1
SYMMETRY Symmetry
INVARIANTS GrantsFollowIdentity OneLiveBinding LimitOverrun
