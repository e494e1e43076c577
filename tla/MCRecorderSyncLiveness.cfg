SPECIFICATION FairSpec
CONSTANTS
  u1 = u1
  u2 = u2
  t1 = t1
  t2 = t2
  r1 = r1
  r2 = r2
  s1 = s1
  Users = {u1, u2}
  TxIds <- MCTxIds
  SourceRefs <- MCSourceRefs
  BuyerOf <- MCBuyerOf
  DdcOf <- MCDdcOf
  PaidOf <- MCPaidOf
  Relayers = {r1, r2}
  Syncs = {}
  WalletOf <- MCRelayerWallets
  Writers = {}
  Wired = FALSE
  MaxBlocks = 2
  MaxFailures = 1
PROPERTIES
  RelayerCatchesUp
