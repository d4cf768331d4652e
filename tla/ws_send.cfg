SPECIFICATION FairSpec
CONSTANTS
  Tasks = {httpd, a1, a2}
  Httpd = httpd
  Clients = {c1, c2}
  Sockets = {s1, s2}
  Blocks = {b1, b2, b3}
  Cap = 1
  None = None
  httpd = httpd
  a1 = a1
  a2 = a2
  c1 = c1
  c2 = c2
  s1 = s1
  s2 = s2
  b1 = b1
  b2 = b2
  b3 = b3
INVARIANTS TypeOK CountersExact OneOwner CapInductive
PROPERTIES ImplementsBudget QueueDrains CounterReclaimed
