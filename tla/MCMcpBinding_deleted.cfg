SPECIFICATION Spec
CONSTANTS
  Bindings = {b1}
  Conns = {c1, c2}
  Tasks = {t1, t2, t3}
  NoBinding = NoBinding
  NoConn = NoConn
  MaxId = 2
  MaxConns = 2
SYMMETRY Symmetry
INVARIANTS DeletedIsDead
