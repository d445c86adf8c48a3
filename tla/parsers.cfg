CONSTANTS
  Statement <- MCStatement
  Form <- MCForm
  Now = 2026
  Opening <- MCOpening
  Closing <- MCClosing
SPECIFICATION FileSpec
INVARIANTS
  StatementIsRead
CHECK_DEADLOCK FALSE
