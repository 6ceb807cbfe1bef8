\* Two investors on one master, a sample of one key, and no failures.
CONSTANTS
  i1 = i1
  i2 = i2
  i3 = i3
  i4 = i4
  m1 = m1
  m2 = m2
  p1 = p1
  NoKey = NoKey
  Investors = {i1, i2}
  Masters = {m1}
  Buckets <- MCOneMaster
  SampleSize = 1
  Partitions = {p1}
  PartitionOf <- MCPartitionOf
  MaxVersion <- MCMaxVersion
  MaxCopies = 1
  MaxFaults = 0
SPECIFICATION FairSpec
PROPERTY LostEventsAreRepaired
