SPECIFICATION FairJournalSpec
CONSTANTS
  Entry = {e1, e2}
  Tag = {v1, v2}
  Request = {r1, r2}
  MaxDay = 2
INVARIANTS JournalInv DaysKeepTheirPage
PROPERTIES RequestsEnd
