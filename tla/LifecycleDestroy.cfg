SPECIFICATION Spec
CONSTANTS
  Task = {t1}
  MaxCommands = 2
INVARIANT DestroyAfterTasksStopped
CHECK_DEADLOCK FALSE
