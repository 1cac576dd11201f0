SPECIFICATION Spec
CHECK_DEADLOCK FALSE
CONSTANTS
  Requests <- LongRequests
  Around <- Memory
  FifoDepth = 8
  BlockBytes = 32
  Ops = {"read", "write"}
  RxBytes = 4
  SectorBytes = 2
  FlashBytes = 32
  Jobs <- NumJobs
  Speeds = {"read", "flash", "fast", "illegal"}
  Keeps = {TRUE, FALSE}
INVARIANTS
  TypeOK
  FormatFits
  WaitsWhileBusy
PROPERTIES
  ReadSpec
  FlashesOwnPages
  CallsReturn
