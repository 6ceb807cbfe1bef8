\* Two investors on two masters, of which one changes once.
CONSTANTS
  i1 = i1
  i2 = i2
  i3 = i3
  i4 = i4
  m1 = m1
  m2 = m2
  p1 = p1
  NoKey = NoKey
  Investors = {i1, i2}
  Masters = {m1, m2}
  Buckets <- MCTwoMasters
  SampleSize = 2
  Partitions = {p1}
  PartitionOf <- MCPartitionOf
  MaxVersion <- MCMaxVersion
  MaxCopies = 1
  MaxFaults = 1
SPECIFICATION ExpirySpec
INVARIANT TypeOK
PROPERTIES
  OnlyRacesUncover
  EvictsOnlyStale
  ChangeIsTold
  Converges
