\* A list of up to three rows, in pages of one and of two; every draft of up to
\* three people and eight minor units; every balance of four people up to four.
CONSTANTS
  alice = alice
  home = home
  food = food
  Readers = {reader}
  Writers = {writer}
  Owners = {alice}
  Groups = {home}
  CategoryCodes = {food}
  Ids = {1, 2, 3}
  Dates = {1, 2}
  InitialRows <- MCInitialRows
  Queries <- MCQueries
  LimitWords <- MCLimitWords
  DefaultLimit = 1
  MaxLimit = 2
  HalfInt32 = 4
  Inputs <- MCDrafts
  MaxInt = 1000000
  MaxAmount = 8
  MaxWeight = 4
  MaxPeople = 3
  MaxNumeric = 100000
  People = {u1, u2, u3, u4}
  MaxBalance = 4
SPECIFICATION PartsSpec
INVARIANT AllocationIsLargestRemainder
INVARIANT AcceptedIsBalanced
INVARIANT SettlesEverybody
INVARIANT PagesMissAndRepeatOnlyByWrites
INVARIANT QuietPagingIsComplete
INVARIANT CategoryWasActive
CHECK_DEADLOCK FALSE
