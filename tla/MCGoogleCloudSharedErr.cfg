SPECIFICATION Spec
CONSTANTS
  m1 = m1
  m2 = m2
  Messages = {m1, m2}
  MaxDeliveries = 1
  Options <- SharedErr
INVARIANTS
  AckedWithConsent
