SPECIFICATION PollFairSpec
CONSTANTS
  MaxUpdates = 4
  Limit = 2
  MaxErrors = 2
  MaxRestarts = 2
INVARIANTS PollingInv ConfirmedIsFinished TakenInOrder OncePerLife
PROPERTIES SentIsFinished
