\* Two keys, two workers: reclaim after expiry, replace, replay, one crash.
SPECIFICATION FairSpec
CONSTANTS
  Jobs = {j1, j2}
  Workers = {w1, w2}
  MaxAttempts = 2
  ClaimTTL = 2
  BaseDelay = 1
  MaxDelay = 1
  StartDelays = {0, 1}
  MaxEnqueues = 2
  MaxCrashes = 1
INVARIANTS ClaimIsCurrent NeverStranded
PROPERTIES NoStaleSuccess LeaseProtectsHolder KeepsContract EveryJobSettles
