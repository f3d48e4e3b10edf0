\* Three callers: one with a fallback, one whose retryOn may refuse an error, one plain.
CONSTANTS
  c1 = c1
  c2 = c2
  c3 = c3
  Callers = {c1, c2, c3}
  WithFallback = {c1}
  Picky = {c2}
  FailureThreshold = 2
  RecoveryTimeout = 1
  MaxRetries = 2
  BaseDelay = 1
  MaxDelay = 3
  Jitter = 50
SPECIFICATION Spec
INVARIANTS
  TrippedExactly
PROPERTIES
  AsDrawnInTurn
  EveryCallEnds
  RecoversWhenUp
