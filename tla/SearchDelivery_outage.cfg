\* One worker; Elasticsearch always comes back.
\* Checking deadlock is off: with every change delivered the queue is at rest.
CHECK_DEADLOCK FALSE
SPECIFICATION OutageSpec
CONSTANTS
  None = None
  d1 = d1  w1 = w1  w2 = w2  t1 = t1  t2 = t2
  Deliveries = {d1}
  Outdated = {}
  Workers = {w1}
  Tokens <- Tokens2
  MaxAttempts = 2
  MaxRevision = 2
PROPERTIES
  OutageCostsOnlyLatency
