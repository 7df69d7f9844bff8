\* Three requests and a cancel request; runs are cancelled once they have started.
SPECIFICATION Spec
CONSTANTS
  Runs = {r1, r2, r3}
  Cancellers = {c1}
  Kinds = {"stream", "action"}
  Strategies = {"reject", "interrupt", "rollback"}
  NoRun = NoRun
  Overtaking = FALSE
  Timeouts = FALSE
SYMMETRY Symmetry
INVARIANTS OneActive ProducersApart RollbackWhileHeld
PROPERTIES StreamCancelIsFinal SuccessStays
