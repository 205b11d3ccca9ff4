SPECIFICATION FairSpec
CONSTANTS
  s1 = s1
  s2 = s2
  t1 = t1
  q1 = q1
  m1 = m1
  bad = bad
  Subs = {s1, s2}
  Topics = {t1}
  Queues = {q1}
  TopicOf <- OneTopic
  QueueOf <- OneQueue
  Messages = {m1, bad}
  Unreadable = {bad}
  Concurrency <- TwoAndOne
  AutoAck = TRUE
INVARIANTS
  ShutdownStopsAll
PROPERTIES
  DeliversAtLeastOnce
  EveryMessageHandled
