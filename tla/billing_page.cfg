CONSTANTS
  None = None
  Backend = "sqlite"
  Ops = {"setup", "subscribe", "cancel", "reactivate", "delete"}
  Tab = {t1}
  Admin = {}
  Customer <- MCTwo
  Sub <- MCTwo
  Delivery = "ordered"
  Faults = {"crash"}
  MaxEvents = 2
SPECIFICATION FairSpec
INVARIANTS TypeOK OneLiveSubscription RowTellsBilling DeletedInSyncIsNotBilled
PROPERTY SubscriptionIsLearnt
CHECK_DEADLOCK FALSE
