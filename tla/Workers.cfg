CONSTANTS
  Worker = {w1, w2}
  Task = {t1, t2, t3}
SPECIFICATION FairSpec
INVARIANTS TypeOK UsedExact ExecutingIsCounted TasksOfTasksRun
PROPERTIES ReadyRuns StopsJoined
CHECK_DEADLOCK FALSE
