SPECIFICATION FairSpec
CONSTANTS
  NumLbas = 32
  AddrLbas = 16
  SpmLbas = 2
  DtbLbas = 1
  FwLbas = 3
  MaxCount = 3
  Disks <- AllDisks
  Misread <- MCMisread
  Slot = 4
  Lengths = {0, 1, 2, 3, 4}
INVARIANTS
  TypeOK
  BootsChosen
  NothingBeyond
  LaunchesRight
  FailsForAReason
PROPERTIES
  Ends
