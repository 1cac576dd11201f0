SPECIFICATION Spec
CONSTANTS
  HalfRange = 4
  CyclesPerTick = 3
  MaxStall = 2
  MaxCycle = 22
  StartTimes = {2, 3}
  Orders = {"high_first"}
  Calls = {"sleep_until", "sleep_ticks"}
  Ticks = {0, 1, 3}
  NumTicks = 2
INVARIANT SleepReachesTarget
CHECK_DEADLOCK FALSE
