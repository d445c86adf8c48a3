CONSTANTS
  None = None
  Backend = "sqlite"
  Ops = {"setup", "subscribe", "grant", "revoke", "extend"}
  Tab = {t1}
  Admin = {a1}
  Customer <- MCOne
  Sub <- MCTwo
  Delivery = "any"
  Faults = {"stripe"}
  MaxEvents = 2
SPECIFICATION Spec
INVARIANTS PaidHasTier GrantedIsNotBilled
CHECK_DEADLOCK FALSE
