\* Two workers share one partition of up to two messages; Redis and the
\* dead-letter topic may never answer.
CONSTANTS
  i1 = i1
  i2 = i2
  w1 = w1
  w2 = w2
  p1 = p1
  p2 = p2
  Investors = {i1, i2}
  Partitions = {p1}
  Workers = {w1, w2}
  Messages <- MCMessages
  MaxRetries = 1
  BulkBatch = 1
  MaxLog = 2
  MaxFaults = 2
SPECIFICATION FairSpec
INVARIANTS
  TypeOK
  CommittedIsHandledOrAbandoned
PROPERTIES
  EveryMessageEnds
  ImplementsInvalidation
