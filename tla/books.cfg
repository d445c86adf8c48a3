CONSTANTS
  None = None
  Tx = {t1, t2}
  Category = {rent, meals, savings}
  Known = {rent, savings}
  Transfer = {savings}
  Start <- MCStart
  Amount = {2, 3, 4}
  Part = {1, 2}
  Ops = {"load", "bulk", "patch", "approve", "tax", "delete", "edit", "rule", "split", "put", "ai", "apply", "create"}
  Call = {c1, c2}
  MaxActs = 2
  MaxElsewhere = 1
SPECIFICATION Spec
INVARIANTS TypeOK TicksAreListed ReportsAgree
SYMMETRY MCSymmetry
CHECK_DEADLOCK FALSE
