SPECIFICATION FairSpec
CONSTANTS
  Ids = {a, b}
  MaxUses = 1
  MaxDisturbances = 3
INVARIANTS TokenBudget DeletedStaysOut CommandsInOrder
PROPERTIES IdentityKept 
CHECK_DEADLOCK FALSE
