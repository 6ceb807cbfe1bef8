\* One worker: the message that neither Redis nor the dead-letter topic took.
CONSTANTS
  i1 = i1
  i2 = i2
  w1 = w1
  w2 = w2
  p1 = p1
  p2 = p2
  Investors = {i1, i2}
  Partitions = {p1}
  Workers = {w1}
  Messages <- MCMessages
  MaxRetries = 1
  BulkBatch = 1
  MaxLog = 2
  MaxFaults = 0
SPECIFICATION Spec
INVARIANT
  CommittedIsHandled
