CONSTANTS
  s1 = s1
  s2 = s2
  q1 = q1
  q2 = q2
  q3 = q3
  t1 = t1
  t2 = t2
  Request = {q1, q2, q3}
  Seed = {s1, s2}
  Tenant = {t1, t2}
  Number = {0, 1, 2}
  File = {1, 2}
  Faults = TRUE
  NULL = NULL
  Mix <- MCMix
  Database <- MCDatabase
SYMMETRY Symmetry
SPECIFICATION Spec
INVARIANT TypeOK
INVARIANT FirmGetsItsBranch
INVARIANT DefaultsBelongTogether
INVARIANT QuoteIsThePriceOfOneMoment
INVARIANT UpdatesKeepEachOther
INVARIANT StoredUrlsResolve
