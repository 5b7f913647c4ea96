SPECIFICATION FairSpec
CONSTANTS
  Probes = {file}
  FileProbe = file
  BootModes = {"online", "offline"}
  FailThreshold = 2
  MaxVersion = 2
  MaxFaults = 2
  MaxRestarts = 1
PROPERTIES VersionConverges StatusConverges
CHECK_DEADLOCK FALSE
