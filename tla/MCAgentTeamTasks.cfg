\* A chain of two tasks, with the task graph and the failure handler on.
SPECIFICATION FairSpec
CONSTANTS
  a = a
  b = b
  e1 = e1
  e2 = e2
  NoOne = NoOne
  Tasks = {a, b}
  Resources = {"r"}
  Deps <- Chain
  Needs <- Shared
  Executors = {e1, e2}
  Users = {"u", "v"}
  MaxParallel = 2
  MaxAttempts = 2
  ResourceLocks = TRUE
  DagScheduler = TRUE
  FailureHandler = TRUE
  MaxEvents = 2
CHECK_DEADLOCK FALSE
INVARIANTS DependenciesFirst BodiesApart NewestClaimWrites
PROPERTIES EveryTaskSettles
