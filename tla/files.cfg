CONSTANTS
  None = None
  Business = {b1, b2}
  Transaction = {t1, t2}
  TxOf <- MCTxOf
  Key = {k1, k2, k3}
  DriveFile = {f1, f2}
  Upload <- MCUpload
  HasBucket = TRUE
  Default = "kml"
  Ops = {"upload", "pick", "erase", "link", "delete", "prefer", "logo", "close", "consent"}
  Call = {c1, c2}
  MaxBatch = 2
  MaxConsents = 2
  MaxRequests = 4
  MaxFaults = 1
SPECIFICATION Spec
INVARIANTS TypeOK NamesResolve NothingLeftBehind LinksStayInBusiness
PROPERTIES KeepsConsent
SYMMETRY MCSymmetry
CHECK_DEADLOCK FALSE
