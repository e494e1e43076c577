SPECIFICATION Spec
CONSTANTS
  u1 = u1
  u2 = u2
  t1 = t1
  t2 = t2
  r1 = r1
  r2 = r2
  s1 = s1
  Users = {u1, u2}
  TxIds <- MCTxIds
  SourceRefs <- MCSourceRefs
  BuyerOf <- MCBuyerOf
  DdcOf <- MCDdcOf
  PaidOf <- MCPaidOf
  Relayers = {}
  Syncs = {s1}
  WalletOf <- MCOwnerWallets
  Writers = {}
  Wired = TRUE
  MaxBlocks = 2
  MaxFailures = 1
INVARIANTS
  RebuildRestoresMirror
