SPECIFICATION FairSpec
CONSTANTS
  p1 = p1
  p2 = p2
  m1 = m1
  i1 = i1
  i2 = i2
  Procs = {p1, p2}
  Messages = {m1}
  Home <- HomeP1
  Flavours <- BothPackages
  MaxTrouble = 2
  Slots = {i1, i2}
  MaxAttempts = 2
INVARIANTS
  NeverBeatenByItself
PROPERTIES
  EverySubscribeReady
  DeliversAtLeastOnce
CHECK_DEADLOCK FALSE
