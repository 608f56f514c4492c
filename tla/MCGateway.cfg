\* Two tabs of a browser, and an app, of one user.
CONSTANTS
  browser = browser
  app = app
  tab1 = tab1
  tab2 = tab2
  slot = slot
  alice = alice
  Browsers = {browser}
  Apps = {app}
  Tabs = {tab1, tab2, slot}
  ClientOf <- MCClientOf
  Users = {alice}
  Logins <- MCLogins
  Calls <- MCCalls
  Interventions <- MCInterventions
  Failures = {"DeadlineExceeded"}
  Refusals <- MCRefusals
  MaxInFlight = 2
  MaxPairs = 3
  MaxUserChanges = 1
SPECIFICATION Spec
SYMMETRY TabSymmetry
INVARIANT OneSessionInJar
INVARIANT ReplayNeedsTrouble
INVARIANT RoleWasHeld
CHECK_DEADLOCK FALSE
