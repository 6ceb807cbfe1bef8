\* Two requests on one server, a third on another, one investor.
CONSTANTS
  i1 = i1
  i2 = i2
  r1 = r1
  r2 = r2
  r3 = r3
  s1 = s1
  s2 = s2
  Investors = {i1}
  Requests = {r1, r2, r3}
  Servers = {s1, s2}
  ServerOf <- MCServerOf
  MaxVersion = 2
  MaxFaults = 1
SPECIFICATION Spec
SYMMETRY PairSymmetry
INVARIANTS
  TypeOK
  NeverAhead
  DirectReadsAreFresh
  OwnLoadsAreFresh
  OneLoadPerKey
PROPERTIES
  NoRegress
  ImplementsCacheAside
