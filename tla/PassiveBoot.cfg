SPECIFICATION FairSpec
CONSTANTS
  Hosts = {"jtag", "slink", "uart"}
  LlcChoices = {TRUE, FALSE}
  BurstLens <- ImageBursts
  ReadBack = TRUE
  Output <- PrintsText
  Returns = {0, 1, 2, 7}
  TopBit = 4
  HostPatient = TRUE
INVARIANTS
  TypeOK
  RunsWholeImage
  ExitCodeExact
  EocMeansReturned
PROPERTIES
  Ends
  EocStays
  RunsHosted
