SPECIFICATION ServerSpec
CONSTANTS
  c1 = c1
  c2 = c2
  u1 = u1
  u2 = u2
  Conns = {c1, c2}
  Users = {u1, u2}
  Closers = {b1}
  AuthIds = {1}
  MaxConns = {0, 1, 2}
  None = None
  MaxAuths = 1
INVARIANTS CountExact MaxConnRespected NoLeftover BaseCloseCloses CarrierIsFound
CHECK_DEADLOCK FALSE
SYMMETRY Symmetry
