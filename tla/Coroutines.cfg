SPECIFICATION FairSpec
CONSTANTS
  Frame = {f1, f2}
  Future = {u1, u2}
  Task = {t1, t2}
  Main = main
  Calls = 5
  None = None
CHECK_DEADLOCK FALSE
INVARIANTS TypeOK OneResumer AwaitedFinished ResultsReadable NothingLeaks
PROPERTIES SuspendedResume
