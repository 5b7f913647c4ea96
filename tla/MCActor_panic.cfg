SPECIFICATION Spec
CONSTANTS
  Callers = {c1, c2}
  InboxSize = 1
  MaxCalls = 1
INVARIANTS NeverPanics
CHECK_DEADLOCK FALSE
