CONSTANTS
  Ticker = {k1, k2}
  Permanent = {}
  MaxFrame = 4
SPECIFICATION Spec
INVARIANTS FrameFutureReady
SYMMETRY Symmetric
CHECK_DEADLOCK FALSE
