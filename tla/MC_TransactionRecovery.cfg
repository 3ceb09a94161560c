\* Batches of two blocks on a chain of up to seven: a scan takes up to four
\* checks, and any two calls may fail.
SPECIFICATION FairSpec
CONSTANTS
  REPLACEMENT_SCAN_BATCH = 2
  None = none
  MaxHeight = 7
  MaxFaults = 2
INVARIANTS
  TypeOK
  UnavailableOnlyIfBlind
  AnswerIsTrue
PROPERTIES
  FoundAtLast
