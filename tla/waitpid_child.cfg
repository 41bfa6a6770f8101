SPECIFICATION Spec
CONSTANTS
  Tasks = {hello, sbush, t3, t4}
  Hello = hello
  Sbush = sbush
  NULL = NULL
  Word = 3
  TicksPerSecond = 2
  MaxPid = 5
  SleepArgs = {1}
  Calls = {"fork", "waitpid", "exit"}
  OrphansAllowed = FALSE
  AnyVictim = FALSE
PROPERTY WaitpidWaitsForChild
