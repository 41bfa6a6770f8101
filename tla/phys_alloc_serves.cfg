SPECIFICATION Spec
CONSTANTS
  Groups = 4
  Half = 3
  CountRows = 3
  Word = 4
  MaxRefs = 2
  Available <- MCAvailable
  KernelFirst <- MCKernelFirst
  KernelLast <- MCKernelLast
INVARIANT
  ServesWhileFree
CHECK_DEADLOCK FALSE
