\* Three requests after a first one, for one address; and the limit of
\* registrations over two windows.
CONSTANTS
  r1 = r1
  r2 = r2
  r3 = r3
  r4 = r4
  old = old
  new = new
  Wrong = Wrong
  Nil = Nil
  Requests = {r1, r2, r3, r4}
  First = r4
  Passwords = {old, new}
  FirstPassword = old
  Calls <- MCCalls
  OTPTTL = 1
  MaxAttempts = 2
  MaxTime = 2
  Limiters = {"register"}
  Window = 3
  Second = 2
  MaxClock = 6
  MaxAbove = 1
SPECIFICATION RegistrationSpec
SYMMETRY RequestSymmetry
INVARIANT AttemptsAreLimited
INVARIANT NothingExpiredWorks
INVARIANT UsedOnce
INVARIANT AccountAsRegistered
INVARIANT LastAskedStands
INVARIANT LimitsHold
CHECK_DEADLOCK FALSE
