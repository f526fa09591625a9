SPECIFICATION Spec
CONSTANTS
  Main = main
  Threads = {main, t1, t2}
  Idle = idle
  MaxTicks = 1
  MaxWake = 2
  History = {}
  Ops = {"suspend", "suspend other", "resume", "sleep", "finalize", "windows", "device"}
SYMMETRY WorkerSymmetry
INVARIANTS TypeOK InOnePlace StateTellsPlace SleepersHaveTime
PROPERTIES FinalizedIsFinal
