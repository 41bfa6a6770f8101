SPECIFICATION MCSpec
CONSTANTS
  Tasks = {hello, sbush, t3, t4}
  Hello = hello
  Sbush = sbush
  NULL = NULL
  Word = 3
  TicksPerSecond = 1
  MaxPid = 4
  SleepArgs = {1}
  Calls = {"fork", "execve", "waitpid", "exit", "kill", "read"}
  OrphansAllowed = TRUE
  AnyVictim = FALSE
  Line = 3
  ReadSizes = {1, 3}
  Background = TRUE
CHECK_DEADLOCK FALSE
INVARIANTS
  LineFits
  QuietSlotIsReader
  QuietOwnLine
PROPERTIES
  QuietReadReturns
