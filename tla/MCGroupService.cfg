\* Three requests on one group.
CONSTANTS
  ann = ann
  bob = bob
  r1 = r1
  r2 = r2
  r3 = r3
  trip = trip
  home = home
  Nil = Nil
  Users = {ann, bob}
  Requests = {r1, r2, r3}
  Names = {trip, home}
  Calls <- MCCalls
  MaxChanges = 4
SPECIFICATION Spec
SYMMETRY RequestSymmetry
INVARIANT OutcomesWereDue
INVARIANT AnsweredOnceAndInTime
PROPERTY DirectorySpec
CHECK_DEADLOCK FALSE
