SPECIFICATION Spec
CONSTANTS
  Main = main
  Threads = {main, t1, t2}
  Idle = idle
  MaxTicks = 2
  MaxWake = 1
  History = {"owed"}
  Ops = {"suspend", "resume", "sleep", "sleep other"}
SYMMETRY WorkerSymmetry
INVARIANTS StackWritesAreSafe
PROPERTIES SleepsLongEnough
