SPECIFICATION Spec
CONSTANTS
  Files <- MCFiles
  Programs <- MCPrograms
  Where <- MCWhere
  Hosts = {"jtag", "slink", "uart"}
  WordBytes = 2
  SlinkBurst = 4
  UartBurst = 3
  Harts = {0, 1}
  Stride = 4
  StackWords = 42
  CallerSp = 20
  MaxTraps = 2
  Returns = {0, 3}
INVARIANTS
  ContextRestored
CHECK_DEADLOCK FALSE
