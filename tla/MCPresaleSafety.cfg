SPECIFICATION DeployedSpec
CONSTANTS
  u1 = u1
  u2 = u2
  t1 = t1
  t2 = t2
  t3 = t3
  Users <- MCUsers
  TxIds <- MCTxIds
  SourceRefs <- MCTxIds
  TOTAL_BATCHES = 3
  BATCH_DURATION = 1
  BATCH_BASE_ALLOCATION = 20
  Prices <- MCPrices
  PHASE_DURATION = 2
  MAX_BURN_CAP = 75
  PRESALE_BURN_TARGET = 30
  DDC_UNIT = 20
  MIN_PURCHASE_USDT = 2
  MAX_PURCHASE_USDT = 4
  TREASURY_SWEEP_THRESHOLD_USDT = 5
  DDC_SUPPLY = 100
  UsdtOf <- MCUsdtOf
  StartTimes = {2}
  TgeTimes = {3, 4}
  PurchaseAmounts = {2, 3}
  FundAmounts = {}
  DirectUsdt = {}
  Writers = {}
  DirectRecords = {}
  PresaleLinks = {}
  MaxTime = 9
INVARIANTS
  TypeOK
  CapacityConserved
  ScheduleWellFormed
  LateKeeperHarmless
  ActiveBatchSells
  SalesAddUp
  SpendCapPerBatch
  ClaimsWithinVesting
  PoolAcceptsFinalize
  PoolBacked
PROPERTIES
  SalesInOpenBatch
  VestedNeverShrinks
SYMMETRY Sym

