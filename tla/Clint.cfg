SPECIFICATION Spec
CONSTANTS
  HalfRange = 8
  CyclesPerTick = 8
  MaxStall = 2
  MaxCycle = 46
  StartTimes = {0, 6}
  Orders = {"high_first"}
  Calls = {"spin_until", "spin_ticks", "sleep_until", "sleep_ticks", "core_freq"}
  Ticks = {0, 3}
  NumTicks = 2
INVARIANTS
  TypeOK
  SpinNotEarly
  FreqAccurate
  ArmedForTarget
CHECK_DEADLOCK FALSE
