\* Every portfolio value that ParseFloat takes or refuses.
CONSTANTS
  i1 = i1
  i2 = i2
  e1 = e1
  e2 = e2
  e3 = e3
  r1 = r1
  r2 = r2
  Investors = {i1, i2}
  Emails = {e1, e2, e3}
  InitEmail <- MCInitEmail
  Requests = {r1, r2}
  Patches <- MCValues
  MaxVersion = 3
SPECIFICATION Spec
INVARIANT PortfolioIsADecimal
