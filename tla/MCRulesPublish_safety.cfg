SPECIFICATION Spec
CONSTANTS
  x = x
  y = y
  r1 = r1
  r2 = r2
  Requests = {r1, r2}
  Items = {x, y}
  Edits <- AllEdits
  Bodies <- SomeBodies
  MaxEntries = 1
  MaxRows = 3
  MaxFaults = 1
PROPERTIES LonePublishIsExact BaseKept
CHECK_DEADLOCK FALSE
