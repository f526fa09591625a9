SPECIFICATION FairSpec
CONSTANTS
  Main = main
  Threads = {main, t1, t2}
  Idle = idle
  Null = null
  MaxTicks = 2
  MaxWake = 1
  MaxWaiters = 32
  Timeouts = {}
  Mortal = {}
  MaxResumes = 0
  MaxCancels = 0
PROPERTIES WaiterGetsIn
