CONSTANTS
  Ticker = {k1, k2}
  Permanent = {k1}
  MaxFrame = 4
SPECIFICATION Spec
INVARIANTS CopySafe
CHECK_DEADLOCK FALSE
