CONSTANTS
  None = None
  NotYet = NotYet
  Backend = "sqlite"
  Ops = {"import", "apply", "patch", "approve", "createRule", "deleteRule", "changeRule", "deleteCategory", "crash"}
  Request = {r1, r2, r3}
  Account = {a1}
  Category = {c1, c2}
  Rule = {u1}
  Period = {1}
  Line = {1, 2}
  Desc <- MCDesc
  Amount <- MCAmount
  Files <- MCShortFiles
  Forms <- MCForms
  RuleTables <- MCLateRules
  Rank <- MCRank
  HashOf <- MCHashOf
  Matches <- MCMatches
  Similar <- MCSimilar
SPECIFICATION Spec
PROPERTIES UserStands
SYMMETRY MCSymmetry
CHECK_DEADLOCK FALSE
