CONSTANTS
  Task = {t1, t2, t3}
  Future = {f1}
  Client = {c1}
  Worker = {w1}
  Flags = {"None", "TryExecuteImmediate", "NamedThread"}
  BodyFlags = {"None", "NamedThread"}
  MaxPrereqs = 2
  MaxCaptures = 1
  None = None
  Budget = 3
SPECIFICATION MCFairSpec
PROPERTIES ImplementsTaskGraph TasksFinish

CHECK_DEADLOCK FALSE
