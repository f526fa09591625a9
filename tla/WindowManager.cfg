SPECIFICATION Spec
CONSTANTS
  Users = {u1, u2}
  Input = input
  NoOne = NoOne
  MaxWindow = 3
  Places = 2
  RingSize = 1
  MaxEvents = 3
  Readable = {3}
  Kinds = {"key", "tab", "mouse"}
SYMMETRY Symmetry
INVARIANTS ScreenIsSound QueueIsAccounted NoMessageOverlooked FullIsNotEmpty 
 
CONSTRAINT LastIsKey
CHECK_DEADLOCK FALSE
