SPECIFICATION FairSpec
CONSTANTS
  t1 = t1
  t2 = t2
  t3 = t3
  Txns <- MCTxns
  Services = {bank, shop}
  MaxCalls <- MCMaxCalls
  None = None
INVARIANTS
  TypeOK
  Isolation
  NoLostWakeup
PROPERTIES
  AllReleased
  SerialExecution
CHECK_DEADLOCK FALSE
