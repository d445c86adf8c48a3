CONSTANTS
  None = None
  Browser = {b1}
  Tab = {t1, t2}
  BrowserOf <- OneBrowser
  Ops = {"login", "logout", "lapse", "work", "factor", "reset", "trial"}
  MaxPasswords = 3
  MaxSecrets = 2
  MaxTokens = 1
  MaxSids = 3
  MaxRequests = 5
  MaxFaults = 1
SPECIFICATION Spec
INVARIANTS TypeOK EnabledIsConfirmed
PROPERTIES CodeBeforeSession EndedStaysEnded UsedLinkIsDead
SYMMETRY MCSymmetry
CHECK_DEADLOCK FALSE
