\* Three requests on three menus; and two edits of two keys around a token.
CONSTANTS
  r1 = r1
  r2 = r2
  r3 = r3
  m1 = m1
  m2 = m2
  m3 = m3
  x = x
  Keep = Keep
  Nil = Nil
  Requests = {r1, r2, r3}
  Seeds = {m1, m2, m3}
  SeedParent <- MCParent
  Names = {m1, m2, m3, x}
  Calls <- MCCalls
  FiveMinutes = 1
  SevenDays = 4
  HalfRange = 100
  Keys = {"k1", "k2"}
  Kids = {"a", "b"}
  Paths = {"p1", "p2"}
  Skew = 1
  MaxTime = 4
  MaxTokens = 1
  MaxEdits = 2
SPECIFICATION AuthSpec
SYMMETRY RequestSymmetry
INVARIANT CyclesNeedARace
INVARIANT OrphansNeedARace
INVARIANT LiveTokensVerify
INVARIANT TokensKeepToTheirUse
CHECK_DEADLOCK FALSE
