\* Two runs and a cancel request, which may come before a producer has started;
\* the waits may run out.
SPECIFICATION FairSpec
CONSTANTS
  Runs = {r1, r2}
  Cancellers = {c1}
  Kinds = {"stream", "blocking"}
  Strategies = {"interrupt", "rollback"}
  NoRun = NoRun
  Overtaking = TRUE
  Timeouts = TRUE
PROPERTIES StreamsClose RequestsReturn
CHECK_DEADLOCK FALSE
