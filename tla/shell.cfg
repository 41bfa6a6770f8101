SPECIFICATION MCSpec
CONSTANTS
  Tasks = {hello, sbush, t3, t4, t5, t6, t7}
  Hello = hello
  Sbush = sbush
  NULL = NULL
  Word = 4
  TicksPerSecond = 2
  MaxPid = 7
  SleepArgs = {1}
  Calls = {"fork", "execve", "waitpid", "exit", "sleep", "read"}
  OrphansAllowed = TRUE
  AnyVictim = FALSE
  Line = 2
  ReadSizes = {1, 2}
  Background = TRUE
  FirstFd = 3
  MaxFd = 7
  Commands <- MCCommands
  Programs <- MCPrograms
  Child <- MCChild
SYMMETRY Symmetry
CHECK_DEADLOCK FALSE
INVARIANTS
  PromptAfterCommand
  WaitsForSomebody
  RedirectionsOpen
  ReadsFollowWrites
