\* A fill that an invalidation overtakes.
CONSTANTS
  i1 = i1
  i2 = i2
  r1 = r1
  r2 = r2
  r3 = r3
  s1 = s1
  s2 = s2
  Investors = {i1}
  Requests = {r1, r2}
  Servers = {s1}
  ServerOf <- MCOneServer
  MaxVersion = 2
  MaxFaults = 0
SPECIFICATION Spec
INVARIANT
  FillsRespectInvalidation
