SPECIFICATION FairSpec
CONSTANTS
  BlockSize = 4
  FifoBytes = 3
  RespTimeout = 3
  BusyTimeout = 2
  DataTimeout = 2
  CheckCrc = TRUE
  Cards = {"good", "not_reset", "wrong_echo"}
  Addrs = {4, 5, 6, 7}
  Lens = {0, 1, 2, 3, 4, 5, 6, 7, 8, 9}
  Again = {3, 6}
  Blocks <- MCBlocks
  Masks <- MCMasks
  Arguments <- MCArguments
INVARIANTS
  TypeOK
  ReadExact
  Detached
  CodesAgree
PROPERTIES
  ReadsLikeADisk
  Ends
