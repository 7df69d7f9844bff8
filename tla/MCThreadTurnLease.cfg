\* Two turns on the same two threads; heartbeats raise, processes stop and stall.
SPECIFICATION FairSpec
CONSTANTS
  a = a
  b = b
  NoTurn = none
  Threads = {1, 2}
  Turns <- MCTurns
  Wants <- MCWants
  Asking <- MCAsking
  TTL = 2
  Interval = 1
INVARIANTS NotLostMeansHeld SomeTurnRuns
PROPERTIES AnswersAreExclusive ThreadsComeFree
