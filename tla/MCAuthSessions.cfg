\* Two tabs, three calls, three sends, one loss.
CONSTANTS
  None = None
  t1 = t1  t2 = t2  c1 = c1  c2 = c2  c3 = c3
  Tabs = {t1, t2}
  Calls = {c1, c2, c3}
  TabOf <- TwoAndOne
  Links = {1, 2}
  MaxSends = 3
  MaxLosses = 1
CHECK_DEADLOCK FALSE
SYMMETRY CallSymmetry
SPECIFICATION Spec
INVARIANTS
  SessionsKnowThePassword
  LoggedOutUntilLogin
  RefusalHasCause
  LinksWorkOnce
  NobodyWaitsForNothing
PROPERTIES
  SignOutsAreMeant
