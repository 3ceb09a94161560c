\* One launch, and a purchase retried twice.
SPECIFICATION Spec
CONSTANTS
  None = none
  MaxLaunches = 1
  MaxBuys = 2
  MaxAttempts = 1
  MaxTurns = 0
INVARIANT NoRetryWhileUnknown
CHECK_DEADLOCK FALSE
