CONSTANTS
  Task = {t1, t2, t3}
  Future = {f1}
  Client = {c1}
  Worker = {w1, w2}
  Flags = {"None"}
  BodyFlags = {"None"}
  MaxPrereqs = 2
  MaxCaptures = 1
  None = None
  Budget = 4
SPECIFICATION MCSpec
INVARIANTS TypeOK CounterExact RefsExact PooledClean StartsReady ScheduledOnce
PROPERTIES ImplementsTaskGraph
SYMMETRY Symmetric
CHECK_DEADLOCK FALSE
