SPECIFICATION IdSpec
CONSTANTS
  RlsEnforced = FALSE
  NoTenant = NoTenant
  Request = {r1, r2}
  Tenant = {t1, t2, t3}
  Slug = {s1, s2, s3}
  Email = {e1, e2}
  Key = {k1}
  AccessTtl = 0
  RefreshTtl = 1
  MaxTime = 1
  MaxFailures = 1
SYMMETRY IdSymmetry
INVARIANTS IdInv EmailsBounded HalvesArePaid SessionsAreBacked
