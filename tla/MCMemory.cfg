SPECIFICATION FairSpec
CONSTANTS
  c1 = c1
  c2 = c2
  s1 = s1
  s2 = s2
  t1 = t1
  t2 = t2
  m1 = m1
  bad = bad
  Clients = {c1, c2}
  First = c1
  Subs = {s1, s2}
  Careless = {s2}
  Stoppers = {t1, t2}
  Mains <- SomeMains
  Messages = {m1, bad}
  Unreadable = {bad}
  Chains <- SomeChains
INVARIANTS
  OneForOne
  ExitIsGraceful
  LoopSeesAll
  MetricsTellTruth
  DefaultSurvives
PROPERTIES
  PublishReturns
  ShutdownMeetsSomebody
CHECK_DEADLOCK FALSE
