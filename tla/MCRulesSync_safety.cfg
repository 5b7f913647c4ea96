SPECIFICATION Spec
CONSTANTS
  Probes = {file, exec}
  FileProbe = file
  BootModes = {"online", "listless", "offline"}
  FailThreshold = 2
  MaxVersion = 2
  MaxFaults = 2
  MaxRestarts = 1
INVARIANTS SyncedIsEnforced CacheNotAhead
PROPERTY NoRegress
CHECK_DEADLOCK FALSE
