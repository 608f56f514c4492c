\* Three requests on one account, while tokens and revocations expire.
CONSTANTS
  r1 = r1
  r2 = r2
  r3 = r3
  old = old
  new = new
  Requests = {r1, r2, r3}
  Passwords = {old, new}
  Calls <- MCCalls
  FirstPassword = old
  RefreshTTL = 2
  AccessTTL = 1
  Leeway = 1
  MaxTime = 3
  MaxUserChanges = 1
SPECIFICATION Spec
SYMMETRY RequestSymmetry
 
INVARIANT CredentialsWereCurrent
 
INVARIANT RevocationOutlivesTokens
CHECK_DEADLOCK FALSE
