SPECIFICATION QueueSpec
CONSTANTS
  Items = {a, b, c}
  Capacity = 4
  Nothing = nothing
SYMMETRY ItemSymmetry
INVARIANTS QueueTypeOK
PROPERTIES ImplementsBoundedFifo
