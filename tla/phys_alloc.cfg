SPECIFICATION Spec
CONSTANTS
  Groups = 4
  Half = 3
  CountRows = 3
  Word = 4
  MaxRefs = 2
  Available <- MCAvailable
  KernelFirst <- MCKernelFirst
  KernelLast <- MCKernelLast
INVARIANTS
  OnlyFreeMemory
  CountIsReferences
PROPERTIES
  ImplementsPageAllocator
CHECK_DEADLOCK FALSE
