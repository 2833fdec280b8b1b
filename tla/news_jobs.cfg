SPECIFICATION NewsSpec
CONSTANTS
  RlsEnforced = TRUE
  NoTenant = NoTenant
  Tenant = {t1, t2}
  NewsTenant = t1
  DiscordTenant = t1
  Notifier = TRUE
  Sources <- MCSources
  Sample <- MCSample
  Story = {s1}
  Window = 1
  MaxItems = 1
  Job = {j1, j2}
  DraftId = {d1, d2}
  MaxTime = 2
  MaxFailures = 1
SYMMETRY NewsSymmetry
INVARIANTS NewsInv DigestsMoveOn UnaskedIsPaidFor
PROPERTIES SourcesAreContained
