\* Races over two seeded transactions.
CONSTANTS
  ann = ann
  bob = bob
  cat = cat
  r1 = r1
  r2 = r2
  r3 = r3
  s1 = s1
  s2 = s2
  Nil = Nil
  MaxInt = 1000000
  MaxNumeric = 700000
  Members <- MCMembers
  Roster <- MCRoster
  Requests = {r1, r2, r3}
  Seeds = {s1, s2}
  Seeded <- MCSeeded
  Calls <- LedgerCalls
  MaxGroupChanges = 1
SPECIFICATION Spec
SYMMETRY RequestSymmetry
INVARIANT PartiesWereMembers
INVARIANT OutcomesWereAuthorised
INVARIANT BalancesAreASnapshot
INVARIANT BalancesAddUp
CHECK_DEADLOCK FALSE
