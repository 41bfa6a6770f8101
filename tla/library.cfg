SPECIFICATION MCSpec
CONSTANTS
  rootfs = rootfs
  bin = bin
  ls = ls
  lsx = lsx
  doc = doc
  cat = cat
  txt = txt
  Order <- MCOrder
  Dirs <- MCDirs
  Parent <- MCParent
  Begins <- MCBegins
  Size <- MCSize
  Block = 2
  Garbage = 7
  Nothing = Nothing
  HeapStart = 1
  Header = 1
  Modulus = 64
  Null = Null
  Readers = {r1, r2}
  Counts = {2}
  Whences = {0, 1, 2, 3}
  Dirent = 2
  Sizes = {0, 1, 3}
  MaxHeld = 2
  MaxBlocks = 5
  MaxWrites = 1
  MaxOffset = 5
SYMMETRY Symmetry
CHECK_DEADLOCK FALSE
INVARIANTS
  StreamInOrder
  ClosedAtStart
  ListsDirectory
  BlocksDisjoint
PROPERTIES
  OthersUntouched
