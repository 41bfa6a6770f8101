SPECIFICATION ASpec
SYMMETRY Symmetry
CONSTANTS
  Tasks = {hello, sbush, t3, t4}
  Hello = hello
  Sbush = sbush
  NULL = NULL
  Word = 3
  TicksPerSecond = 1
  MaxPid = 5
  SleepArgs = {}
  Calls = {"fork", "execve", "exit", "kill"}
  OrphansAllowed = FALSE
  AnyVictim = FALSE
  Frames = 10
  HeapPages = 1
  StackPages = 3
  EndsEarly = FALSE
INVARIANT
  NobodyMapsPage0
