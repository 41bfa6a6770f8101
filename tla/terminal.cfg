SPECIFICATION MCSpec
CONSTANTS
  LongWord = 65536
  IntWord = 4096
  ShortWord = 64
  Samples = {0, 8, 100, 3000}
  Code <- MCCode
  Width = 10
  Rows = 3
  MaxLine = 16
  MaxArgs = 6
  Dirs <- MCDirs
  Kbdus <- MCKbdus
  Shiftcodes <- MCShiftcodes
  Outputs <- MCOutputs
  BootEnv <- MCBootEnv
  Scripts <- MCScripts
  FirstArgs <- MCFirstArgs
  CommandLines <- MCCommandLines
  Environments <- MCEnvironments
  Files <- MCFiles
  MaxStages = 4
  ClockCol = 1
  GlyphCol = 8
  Hz = 3
  Every = 2
  Sixty = 2
  Hours = 2
  MaxTicks = 45
  MaxEntered = 2
  MaxErased = 2
  MaxRetyped = 4
CHECK_DEADLOCK FALSE
INVARIANTS
  EchoIsLine
  ClockIsTime
  LibraryAtStart
  ExerciseAtStart
PROPERTIES
  RunsLine
