\* A client of a run of up to six events over a buffer of two, which may be
\* cancelled or lose its process; the end is quiet.
SPECIFICATION FairSpec
CONSTANTS
  Readers = {r1}
  Deltas = 3
  Maxsize = 2
  Budget = 1
  MaxCuts = 2
  Cancellable = TRUE
  Crashes = TRUE
INVARIANTS CompleteMeansAll IncompleteNeedsCuts
PROPERTIES InOrder ReadersEnd
CHECK_DEADLOCK FALSE
