\* One delivery and two workers, so that a claim can be taken over from a worker
\* that is still at it.
\* Checking deadlock is off: with every change delivered the queue is at rest.
CHECK_DEADLOCK FALSE
SPECIFICATION FairSpec
CONSTANTS
  None = None
  d1 = d1  w1 = w1  w2 = w2  t1 = t1  t2 = t2
  Deliveries = {d1}
  Outdated = {}
  Workers <- Workers2
  Tokens <- Tokens2
  MaxAttempts = 2
  MaxRevision = 2
INVARIANTS
  TypeOK
  ReportsAreTrue
PROPERTIES
  IndexNeverRegresses
  ImplementsIndexDelivery
  EveryDeliverySettles
