\* Three keys on one master, one on the other, a sample of two.
CONSTANTS
  i1 = i1
  i2 = i2
  i3 = i3
  i4 = i4
  m1 = m1
  m2 = m2
  p1 = p1
  NoKey = NoKey
  Investors = {i1, i2, i3, i4}
  Masters = {m1, m2}
  Buckets <- MCUnevenMasters
  SampleSize = 2
  Partitions = {p1}
  PartitionOf <- MCPartitionOf
  MaxVersion <- MCNoChange
  MaxCopies = 1
  MaxFaults = 0
SPECIFICATION FairSpec
PROPERTIES
  SampleAdvances
  SampleEnds
