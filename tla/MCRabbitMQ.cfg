SPECIFICATION FairSpec
CONSTANTS
  m1 = m1
  m2 = m2
  bad = bad
  s1 = s1
  s2 = s2
  t1 = t1
  t2 = t2
  Messages = {m1, m2, bad}
  Unreadable = {bad}
  Subs = {s1, s2}
  Stoppers = {t1, t2}
  Programs <- ThreePrograms
  MaxDelivered = 2
INVARIANTS
  UnackedIsWithConsumer
  
  NoPublishAfterClose
  ShutdownClosesAll
PROPERTIES
  DeliversAtLeastOnce
  ShutdownReturns
  ConsumersEnd
