SPECIFICATION FairSpec
CONSTANTS
  NumHarts = 4
  NonSmpHart = 0
  Words = {0, 1}
  NoAddress = NoAddress
  MaxIpis = 2
INVARIANTS
  TypeOK
  NobodyLeftBehind
  WakeUpNotLost
  EntersBootAddress
PROPERTIES
  BarrierSpec
  EveryHartEnters
CHECK_DEADLOCK FALSE
