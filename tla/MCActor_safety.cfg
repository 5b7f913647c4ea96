SPECIFICATION FairSpec
CONSTANTS
  Callers = {c1, c2}
  InboxSize = 2
  MaxCalls = 5
INVARIANTS StopDrains AsksAnswered
PROPERTY StopEnds
CHECK_DEADLOCK FALSE
