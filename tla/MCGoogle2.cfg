SPECIFICATION FairSpec
CONSTANTS
  s1 = s1
  s2 = s2
  n1 = n1
  m1 = m1
  p1 = p1
  Subs = {s1, s2}
  Pubs = {p1}
  Names = {n1}
  Programs <- TwoPrograms
  Concurrency = 1
  Messages = {m1}
  MaxDeliveries <- TwoForTheOne
INVARIANTS
  CallbacksBounded
  DeletedWhenDrained
PROPERTIES
  DeliversAtLeastOnce
  ShutdownReturns
  SubscriptionsEnd
