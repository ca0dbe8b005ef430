SPECIFICATION FairSpec
CONSTANTS
  Bindings = {b1}
  Conns = {c1}
  Tasks = {t1, t2}
  NoBinding = NoBinding
  NoConn = NoConn
  MaxId = 2
  MaxConns = 1
PROPERTIES ChangeIsNoticed
