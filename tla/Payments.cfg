SPECIFICATION FairSpec
CONSTANTS
  Payments = {p1}
  None = None
  MaxSessions = 2
  MaxAccounts = 2
INVARIANTS
  PaymentsTypeOK
  ChargedOnce
  ChargeNotLost
  DeadLinkHeals
  SessionsNotStranded
PROPERTIES
  SettlementKept
  ChargeNoticed
CHECK_DEADLOCK FALSE
