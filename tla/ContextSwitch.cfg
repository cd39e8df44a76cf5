\* A task uses at most one stack entry; the macros need four more.
CONSTANTS
  Context = {0, 1}
  Stack = {0, 1}
  StackSize = 5
  MaxUse = 1
SPECIFICATION FairSpec
INVARIANTS TasksIsolated CurrentAgrees
PROPERTIES SwitchesEarned BothRun
CHECK_DEADLOCK FALSE
