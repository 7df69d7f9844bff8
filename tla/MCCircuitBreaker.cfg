\* Three calls, some let in before the breaker opens; each may be cancelled.
SPECIFICATION FairSpec
CONSTANTS
  Callers = {c1, c2, c3}
  Threshold = 2
  Recovery = 2
  MaxRetries = 1
INVARIANTS
  OpenIffFailing
  TrialInFlight
PROPERTIES
  KeepsAccepting
