CONSTANTS
  Cpus = {c1, c2}
  BootCpu = c1
  Threads = {t1, t2, t3}
  WaitQs = {exitq}
  ExitQ = exitq
  ReapLock = ReapLock
  Null = Null
SPECIFICATION FairSpec
INVARIANTS SwtchInv SpCommitted StackLive
PROPERTIES ImplementsLife SwitchCompletes
