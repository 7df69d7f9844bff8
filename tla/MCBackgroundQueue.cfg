\* Two workers, a queue of one; claims may run out, and calls may raise.
SPECIFICATION FairSpec
CONSTANTS
  Workers = {w1, w2}
  Callers = {c1}
  Keys = {k1, k2}
  NoKey = NoKey
  MaxSize = 1
  MaxTasks = 3
  MaxLapses = 1
INVARIANTS
  OnePending
  KeysComeBack
PROPERTIES
  Drains
  AcceptedRun
CHECK_DEADLOCK FALSE
