SPECIFICATION Spec
CONSTANTS
  PerBuffer = 2
  SectorCount = 4
  BufferCount = 2
  Values = {v0, v1}
  Junk = junk
  Faults = {"read"}
SYMMETRY ValueSymmetry
PROPERTIES FlushSynchronizes
