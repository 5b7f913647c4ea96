SPECIFICATION FairSpec
CONSTANTS
  Stars = {s1, s2, s3, z}
  Rootless = {z}
  MaxActiveStars = 2
  MaxAlerts = 3
  MaxFaults = 1
PROPERTIES EachOnceInOrder LevelReturns ModeReturns
