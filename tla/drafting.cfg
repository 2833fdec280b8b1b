SPECIFICATION FairDraftingSpec
CONSTANTS
  Post = {p1, p2}
  Handler = {h1, h2}
  Message <- DraftingMessages
  Answer <- DraftingAnswers
  Repaired <- DraftingRepaired
  Generates = TRUE
  MessageLimit = 7
  BodyLimit = 5
  Preview = 4
  MaxProse = 3
  MaxInside = 2
INVARIANTS DraftingInv ReviewedIsWhole ExtractsTheObject
PROPERTIES HandlersEnd
CHECK_DEADLOCK FALSE
