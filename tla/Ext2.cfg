SPECIFICATION Spec
CONSTANTS
  Files = {f1, f2}
  Groups = 2
  PerGroup = 5
  Direct = 1
  PerBlock = 2
  Looked = 1
  Starts = {0, 2, 3}
  MaxLength = 2
  MaxCalls = 4
  MaxFaults = 1
SYMMETRY FileSymmetry
INVARIANTS NoBlockIsShared DamageIsConfined BitmapsTellUse CountsAreSound FilesAreWhole WrittenIsKept
CHECK_DEADLOCK FALSE
