SPECIFICATION DeployedSpec
CONSTANTS
  u1 = u1
  u2 = u2
  t1 = t1
  t2 = t2
  t3 = t3
  Users <- MCUsers
  TxIds <- MCTwoTxIds
  SourceRefs <- MCTwoTxIds
  TOTAL_BATCHES = 2
  BATCH_DURATION = 1
  BATCH_BASE_ALLOCATION = 20
  Prices <- MCPricesTwo
  PHASE_DURATION = 1
  MAX_BURN_CAP = 50
  PRESALE_BURN_TARGET = 20
  DDC_UNIT = 20
  MIN_PURCHASE_USDT = 2
  MAX_PURCHASE_USDT = 4
  TREASURY_SWEEP_THRESHOLD_USDT = 5
  DDC_SUPPLY = 100
  UsdtOf <- MCUsdtOf
  StartTimes = {2}
  TgeTimes = {3}
  PurchaseAmounts = {2, 3}
  FundAmounts = {}
  DirectUsdt = {}
  Writers = {}
  DirectRecords = {}
  PresaleLinks = {}
  MaxTime = 7
INVARIANT AdvanceBlockedAfterFinalize
