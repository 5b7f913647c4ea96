SPECIFICATION FairSpec
CONSTANTS
  None = None
  Users = {u1}
  SessionIds = {s1}
  Requests = {r1, r2, r3}
  Roles = {admin, viewer}
  MaxChanges = 2
INVARIANT EndedForGood
PROPERTY RolesSettle
CHECK_DEADLOCK FALSE
