\* A password and a foreign body; three things go wrong.
CONSTANTS
  m1 = m1
  junk = junk
  None = None
  Messages = {m1}
  Foreign = {junk}
  MaxRetries = 2
  Prefetch = 2
  MaxTrouble = 3
SPECIFICATION Spec
INVARIANT NothingLost
INVARIANT DuplicatesNeedTrouble
INVARIANT DeadAfterAllRetries
PROPERTY PublishedIsSettled
CHECK_DEADLOCK FALSE
