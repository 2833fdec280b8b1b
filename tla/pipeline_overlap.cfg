SPECIFICATION PipeSpec
CONSTANTS
  Tenant = {t1, t2}
  Job = {j1, j2}
  FailingCalls = {"listEntries", "summarise", "createDraft", "queueSave", "itemSave", "getByKey", "saveSucceeded", "saveFailed"}
  MaxFailures = 1
  MaxDeaths = 1
SYMMETRY JobSymmetry
INVARIANTS SucceededIsQueued
PROPERTIES FailureIsContained
