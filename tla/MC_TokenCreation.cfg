\* Two submissions, two purchases and two attempts to finalise; one page left or
\* loaded again, change of wallet, or edit after the first submission.  The bounds
\* let everything stop.
SPECIFICATION Spec
CONSTANTS
  None = none
  MaxLaunches = 2
  MaxBuys = 2
  MaxAttempts = 2
  MaxTurns = 1
INVARIANTS
  TypeOK
  SuccessIsReal
  RetryWaitsForReceipt
  DisabledWhileRunning
CHECK_DEADLOCK FALSE
