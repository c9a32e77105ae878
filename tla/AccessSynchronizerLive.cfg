CONSTANTS
  Task = {t1, t2, t3}
  Coroutine = {c1, c2}
  Client = {main}
  Modes = {"exclusive", "shared", "task"}
  Accesses = 3
  TagMod = 8
  None = None
SPECIFICATION FairSpec
PROPERTIES AccessGranted
CHECK_DEADLOCK FALSE
