SPECIFICATION Spec
CONSTANTS
  Main = main
  Threads = {main, t1, t2}
  Idle = idle
  Null = null
  MaxTicks = 2
  MaxWake = 1
  MaxWaiters = 3
  Timeouts = {2}
  Mortal = {t1, t2}
  MaxResumes = 2
  MaxCancels = 1
SYMMETRY WorkerSymmetry
INVARIANTS MutualExclusion NobodyIsStranded
PROPERTIES ImplementsFifoLock NotHandedToTheDead
CHECK_DEADLOCK FALSE
