SPECIFICATION JournalSpec
CONSTANTS
  Entry = {e1, e2}
  Tag = {v1}
  Request = {r1, r2}
  MaxDay = 1
SYMMETRY JournalSymmetry
INVARIANTS StoredIsReadable
