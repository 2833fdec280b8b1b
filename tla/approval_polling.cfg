SPECIFICATION Spec
CONSTANTS
  Draft = {d1, d2, d3}
  NoDraft = NoDraft
  BotTask = {b1}
  HttpTask = {}
  HttpOps = {}
  Channel = "telegram"
  Unconfigured = TRUE
  MaxPosts = 2
  MaxStops = 2
SYMMETRY DraftSymmetry
INVARIANTS AtMostOnePost PostedWasReviewed ApprovedIsPublished RejectedNotPosted
PROPERTIES PublishedIsFinal DecidedOnce ImplementsLifecycle
CHECK_DEADLOCK FALSE
