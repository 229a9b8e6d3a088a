CONSTANTS
  a1 = a1
  a2 = a2
  e1 = e1
  e2 = e2
  Attempts = {a1, a2}
  NoAttempt = NoAttempt
  Events = {e1, e2}
  NoEvent = NoEvent
  TransactionOf <- MCTransactionOf
  PeriodLength = 1
  MaxClock = 1
SPECIFICATION Spec
PROPERTY ReplayMovesNothing
