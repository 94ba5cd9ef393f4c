SPECIFICATION Spec
CONSTANTS
  FdMax = 7  LineMax = 3  HistMax = 2  Scripts <- MCScripts  Intrs = 0  Cmds = 1
PROPERTIES RightSeesEof
CHECK_DEADLOCK FALSE
