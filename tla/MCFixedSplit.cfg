\* A fixed split does not survive the tables.
CONSTANTS
  ann = ann
  bob = bob
  cat = cat
  r1 = r1
  r2 = r2
  r3 = r3
  s1 = s1
  s2 = s2
  Nil = Nil
  MaxInt = 1000000
  MaxNumeric = 700000
  Members <- MCMembers
  Roster <- MCRoster
  Requests = {r1, r2}
  Seeds = {s1}
  Seeded <- OutcomesSeeded
  Calls <- OutcomeCalls
  MaxGroupChanges = 0
SPECIFICATION Spec
INVARIANT AcceptedIsReadable
CHECK_DEADLOCK FALSE
