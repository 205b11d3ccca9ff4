SPECIFICATION Spec
CONSTANTS
  p1 = p1
  p2 = p2
  noop = noop
  a = a
  w1 = w1
  Calls = {p1, p2}
  Clients = {noop, a}
  NoopClient = noop
  Waiters = {w1}
  MaxFanout = 1
SYMMETRY Symmetry
INVARIANTS
  WaitCoversEveryCall
CHECK_DEADLOCK FALSE
