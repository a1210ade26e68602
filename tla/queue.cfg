SPECIFICATION FairSpec
CONSTANTS
  Producers = {p1, p2}
  Consumers = {c1, c2}
  Closers = {k1}
  Values = {a, b}
  Capacity = 2
  MaxAccepted = 4
INVARIANTS TypeOK NotifyOneSuffices
PROPERTIES ImplementsChannel AcceptedIsDelivered CloseReleases
