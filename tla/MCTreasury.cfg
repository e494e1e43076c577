SPECIFICATION TreasuryFairSpec
CONSTANTS
  Users <- MCUsers
  MIN_DELAY = 1
  startTime = 1
  duration = 4
  totalAllocation = 3
  presaleStart = 0
  MONTH = 2
  MONTHLY_AMOUNT = 1
  MAX_MONTHS = 2
  GRANT_AMOUNT = 2
  Calls <- MCCalls
  MaxTx = 3
  MaxTime = 5
INVARIANTS
  TreasuryAddsUp
  VaultsKeepSchedule
PROPERTY
  EverythingIsPaid
CHECK_DEADLOCK FALSE
