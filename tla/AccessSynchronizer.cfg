CONSTANTS
  Task = {t1, t2, t3, t4}
  Coroutine = {c1, c2}
  Client = {main}
  Modes = {"exclusive", "shared", "task"}
  Accesses = 4
  TagMod = 8
  None = None
SPECIFICATION HistorySpec
INVARIANTS TypeOK MutualExclusion CounterExact RefsExact WordSane ExclusiveSuccessor
PROPERTIES ImplementsResourceQueue
SYMMETRY Symmetric
CHECK_DEADLOCK FALSE
