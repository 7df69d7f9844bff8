\* A run may be superseded before its producer has started.
SPECIFICATION Spec
CONSTANTS
  Runs = {r1, r2, r3}
  Cancellers = {}
  Kinds = {"stream"}
  Strategies = {"interrupt"}
  NoRun = NoRun
  Overtaking = TRUE
  Timeouts = FALSE
INVARIANTS OneActive
