SPECIFICATION Spec
CONSTANTS
  p1 = p1
  p2 = p2
  noop = noop
  a = a
  b = b
  Calls = {p1, p2}
  Clients = {noop, a, b}
  NoopClient = noop
  Waiters = {}
  MaxFanout = 2
SYMMETRY Symmetry
ACTION_CONSTRAINT ClientsMatter
INVARIANTS
  AnswerTellsAll
  PublishErrIsOwn
PROPERTIES
  ReadyIsFinal
  KeepsPromise
CHECK_DEADLOCK FALSE
