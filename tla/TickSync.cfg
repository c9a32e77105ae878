CONSTANTS
  Ticker = {k1, k2, k3}
  Permanent = {k1}
  MaxFrame = 4
SPECIFICATION FairSpec
INVARIANTS TypeOK CountsExact Lockstep RightFuture FrameFutureReady
PROPERTIES ReportedInOrder WaitsEnd
CHECK_DEADLOCK FALSE
