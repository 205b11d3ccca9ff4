SPECIFICATION FairSpec
CONSTANTS
  m1 = m1
  m2 = m2
  Messages = {m1, m2}
  MaxDeliveries = 2
  Options <- ThreeOptions
INVARIANTS
  TokensExact
  NothingForgotten
PROPERTIES
  DeliversAtLeastOnce
  ShutdownEndsLoop
  EveryDeliveryLeaves
CHECK_DEADLOCK FALSE
