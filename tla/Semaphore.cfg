SPECIFICATION Spec
CONSTANTS
  Main = main
  Threads = {main, t1, t2}
  Idle = idle
  MaxTicks = 2
  MaxWake = 1
  MaxWaiters = 3
  MaxCount = 2
  InitialCount = 0
  Timeouts = {2}
  Mortal = {t1, t2}
  MaxResumes = 2
  MaxResets = 1
SYMMETRY WorkerSymmetry
INVARIANTS WaiterListIsExact BlockedIsQueued NoIdleSignal OverdraftIsBounded
