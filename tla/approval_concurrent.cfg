SPECIFICATION RetrySpec
CONSTANTS
  Draft = {d1}
  NoDraft = NoDraft
  BotTask = {b1, b2}
  HttpTask = {h1}
  HttpOps = {"enqueue", "publish", "reject"}
  Channel = "discord"
  Unconfigured = TRUE
  MaxPosts = 2
  MaxStops = 2
INVARIANTS WorkflowInv UnderReviewUntouched
PROPERTIES QueuedIsDecided KeepsSharedLife
CHECK_DEADLOCK FALSE
