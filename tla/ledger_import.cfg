CONSTANTS
  None = None
  NotYet = NotYet
  Backend = "sqlite"
  Ops = {"import", "resolve", "patch", "delete", "kind"}
  Request = {r1, r2, r3}
  Account = {a1}
  Category = {}
  Rule = {}
  Period = {1, 2}
  Line = {1, 2}
  Desc <- MCDesc
  Amount <- MCAmount
  Files <- MCFiles
  Forms <- MCEdits
  RuleTables <- MCGeneralRules
  Rank <- MCRank
  HashOf <- MCHashOf
  Matches <- MCMatches
  Similar <- MCSimilar
SPECIFICATION Spec
INVARIANTS TypeOK NoSilentDuplicate HashCoherent
PROPERTIES ImplementsBook
SYMMETRY MCSymmetry
CHECK_DEADLOCK FALSE
