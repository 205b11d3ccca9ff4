SPECIFICATION Spec
CONSTANTS
  s1 = s1
  s2 = s2
  p1 = p1
  p2 = p2
  g1 = g1
  g2 = g2
  Procs = {p1, p2}
  Groups = {g1}
  Subs = {s1, s2}
  ProcOf <- TwoProcesses
  GroupOf <- OneGroup
  MaxLog = 2
  AutoAck = TRUE
INVARIANTS
  NothingSkipped
  NoOvertaking
