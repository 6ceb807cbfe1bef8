\* Two requests on one server, one investor that does not change; thresholds
\* that two requests, asking again and again, can reach and exceed.
CONSTANTS
  i1 = i1
  r1 = r1
  r2 = r2
  s1 = s1
  Investors = {i1}
  Requests = {r1, r2}
  Servers = {s1}
  ServerOf <- MCServerOf
  MaxVersion = 1
  MaxFaults = 1
  MinRequests = 2
  MaxRequests = 2
  MaxCount = 3
SPECIFICATION BFairSpec
INVARIANTS
  BTypeOK
  ProbesAreOut
  CountsAddUp
PROPERTIES
  OpensOnFailuresOnly
  ImplementsReadPath
  EveryRequestEnds
  Recovers
