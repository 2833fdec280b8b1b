SPECIFICATION Spec
CONSTANTS
  Draft = {d1}
  NoDraft = NoDraft
  BotTask = {b1, b2}
  HttpTask = {}
  HttpOps = {}
  Channel = "discord"
  Unconfigured = FALSE
  MaxPosts = 2
  MaxStops = 0
INVARIANTS AtMostOnePost
CHECK_DEADLOCK FALSE
