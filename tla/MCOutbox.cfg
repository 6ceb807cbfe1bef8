\* Two relays, two investors, up to three updates, two faults.
CONSTANTS
  i1 = i1
  i2 = i2
  p1 = p1
  p2 = p2
  r1 = r1
  r2 = r2
  Investors = {i1, i2}
  Partitions = {p1, p2}
  PartitionOf <- MCPartitionOf
  Relays = {r1, r2}
  BatchSize = 2
  MaxTx = 3
  MaxFaults = 2
SPECIFICATION FairSpec
INVARIANTS
  TypeOK
  EventPerVersion
  PublishedIsInTopic
  RowsExclusive
  DuplicatesNeedFaults
PROPERTIES
  ImplementsNotification
  CommittedIsPublished
