\* A logout leaves the access token.
CONSTANTS
  r1 = r1
  r2 = r2
  r3 = r3
  old = old
  new = new
  Requests = {r1, r2}
  Passwords = {old, new}
  Calls <- MCCalls
  FirstPassword = old
  RefreshTTL = 4
  AccessTTL = 2
  Leeway = 0
  MaxTime = 2
  MaxUserChanges = 0
SPECIFICATION Spec
INVARIANT RevocationEndsAccess
CHECK_DEADLOCK FALSE
