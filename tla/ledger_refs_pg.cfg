CONSTANTS
  None = None
  NotYet = NotYet
  Backend = "pg"
  Ops = {"import", "apply", "patch", "approve", "deleteRule", "deleteCategory", "deleteAccount", "resolve"}
  Request = {r1, r2}
  Account = {a1}
  Category = {c1}
  Rule = {u1}
  Period = {1}
  Line = {1, 2}
  Desc <- MCDesc
  Amount <- MCAmount
  Files <- MCShortFiles
  Forms <- MCChoose
  RuleTables <- MCGeneralRules
  Rank <- MCRank
  HashOf <- MCHashOf
  Matches <- MCMatches
  Similar <- MCSimilar
SPECIFICATION FairSpec
INVARIANT ReferencesResolve
PROPERTY HandlersFinish
CHECK_DEADLOCK FALSE
