CONSTANTS
  Threads = {t1, t2, t3}
  Idle = Idle
  TickQ = TickQ
  ExitQ = ExitQ
  WaitQs = {TickQ, ExitQ}
  NPri = 4
  TsDefault = 2
  SysDefault = 3
  TsQuantum = 2
  TsDemote = 2
SPECIFICATION FairSpec
INVARIANTS DispConsistent
PROPERTIES TickRestoresPriority NoStarvation
