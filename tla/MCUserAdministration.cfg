SPECIFICATION UserSpec
CONSTANTS
  u1 = u1
  u2 = u2
  u3 = u3
  c1 = c1
  c2 = c2
  e1 = e1
  e2 = e2
  None = None
  Users = {u1, u2, u3}
  Emails = {e1, e2}
  AdminEmail = e1
  Clients = {c1, c2}
  Patches <- MCPatches
  NewFlags <- MCNewFlags
  MaxUserRequests = 4
INVARIANTS UserTypeOK EmailsUnique ActiveAdminRemains
PROPERTY ChangedAsAsked
CHECK_DEADLOCK FALSE
