SPECIFICATION PTSpec
CONSTANTS
  Radix = 2
  Levels = 3
  Frames = 17
  Spaces = {s1, s2}
  BootPages = 1
  UserPages <- MCUserPages
  Text = {0, 1}
  Stack = {2}
  Part <- MCPart
  StrayStores = FALSE
SYMMETRY Symmetry
CHECK_DEADLOCK FALSE
INVARIANTS
  KernelShared
PROPERTIES
  ImplementsAddressMaps
