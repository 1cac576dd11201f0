SPECIFICATION FairSpec
CONSTANTS
  Hosts = {"jtag"}
  LlcChoices = {TRUE, FALSE}
  BurstLens <- ImageBursts
  ReadBack = TRUE
  Output <- PrintsText
  Returns = {0, 1, 2, 7}
  TopBit = 4
  HostPatient = TRUE
PROPERTIES
  EocStaysAlways
