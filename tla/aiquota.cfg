CONSTANTS
  Request = {r1, r2, r3}
  Limit = 2
  Daily = 2
  MaxDay = 1
SPECIFICATION Spec
INVARIANTS TypeOK OvershootBounded
SYMMETRY MCSymmetry
