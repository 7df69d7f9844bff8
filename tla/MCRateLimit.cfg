\* Four calls in a window of six ticks.
SPECIFICATION RateSpec
CONSTANTS
  Limit = 4
  Window = 6
INVARIANTS WithinLimit RetryAfterHolds
PROPERTY NoNeedlessRefusal
