SPECIFICATION LiveSpec
CONSTANTS
  MaxHolds = 2
  MaxAttempts = 3
  Budget = 5
  MinRemaining = 2
  Backoff = 1
  MaxSleep = 3
  None = None
INVARIANTS TypeOK OutcomeTrue NoSecondWrite
PROPERTIES CallReturns
CHECK_DEADLOCK FALSE
