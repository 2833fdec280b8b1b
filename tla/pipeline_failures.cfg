SPECIFICATION RerunSpec
CONSTANTS
  Tenant = {t1, t2}
  Job = {j1}
  FailingCalls = {"listEntries", "summarise", "createDraft", "queueSave", "itemSave", "getByKey", "saveSucceeded", "saveFailed"}
  MaxFailures = 2
  MaxDeaths = 1
INVARIANTS DuplicatesHaveACause
PROPERTIES SucceededIsFinal EntriesAreProcessed
