CONSTANTS
  Worker = {w1, w2}
  Task = {t1, t2}
SPECIFICATION Spec
INVARIANTS WaitMeansDone
SYMMETRY Symmetric
CHECK_DEADLOCK FALSE
