SPECIFICATION Spec
CONSTANTS
  MaxAttempts = 2
  Calls = {c1, c2}
  Polls = {p1}
INVARIANTS
  WaitingIsWatched
  OverlayMeansPending
PROPERTY
  PaidIsNoticed
CHECK_DEADLOCK FALSE
