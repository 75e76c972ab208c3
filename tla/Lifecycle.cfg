SPECIFICATION Spec
CONSTANTS
  Task = {t1, t2}
  MaxCommands = 2
INVARIANTS
  NothingRelaunched
  NoOldCollector
  OnlyStartedTargets
PROPERTIES
  CommandsEnd
  TargetsFollowTasks
  EmptyWithoutApi
\* No more commands, and no tasks left to launch.
CHECK_DEADLOCK FALSE
