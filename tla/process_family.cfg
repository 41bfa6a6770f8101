SPECIFICATION FairSpec
CONSTANTS
  Tasks = {hello, sbush, t3, t4}
  Hello = hello
  Sbush = sbush
  NULL = NULL
  Word = 3
  TicksPerSecond = 8
  MaxPid = 4
  SleepArgs = {0, 2}
  Calls = {"fork", "execve", "waitpid", "exit", "sleep"}
  OrphansAllowed = FALSE
  AnyVictim = FALSE
INVARIANTS
  ChildCountExact
  ParentIsLive
PROPERTIES
  WaiterWokenByChild
  SleepEnds
  NoStarvation
