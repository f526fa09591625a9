SPECIFICATION Spec
CONSTANTS
  PerBuffer = 2
  SectorCount = 5
  BufferCount = 2
  Values = {v0, v1}
  Junk = junk
  Faults = {"write"}
SYMMETRY ValueSymmetry
INVARIANTS BuffersAreCoherent
PROPERTIES ImplementsWriteBackStore FailureLeavesDirty
