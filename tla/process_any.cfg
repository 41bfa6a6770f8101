SPECIFICATION ISpec
CONSTANTS
  Tasks = {hello, sbush, t3, t4}
  Hello = hello
  Sbush = sbush
  NULL = NULL
  Word = 3
  TicksPerSecond = 2
  MaxPid = 5
  SleepArgs = {1}
  Calls = {"fork", "execve", "waitpid", "exit", "kill", "sleep"}
  OrphansAllowed = TRUE
  AnyVictim = FALSE
  Exceptions = {0, 6, 13}
SYMMETRY Symmetry
INVARIANTS
  ListsPartition
  OnlyCurrentRuns
  OneImageReports
  ChildHasParent
  OwnAddressSpace
  NeverCrashes
  RegistersKept
PROPERTIES
  ImplementsDispatcher
