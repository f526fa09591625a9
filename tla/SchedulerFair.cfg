SPECIFICATION FairSpec
CONSTANTS
  Main = main
  Threads = {main, t1, t2}
  Idle = idle
  MaxTicks = 1
  MaxWake = 3
  History = {"unheard"}
  Ops = {"suspend", "suspend other", "resume", "device", "finalize"}
PROPERTIES ReadyRuns NoLostWakeup
