------------------------- MODULE DDCPresaleVesting -------------------------
(***************************************************************************)
(* The contract DDCPresaleVesting with everything it calls: the DDC and    *)
(* USDT ledgers, the reward pool and the recorder.                         *)
(*                                                                         *)
(* An action is one transaction.  The chain executes transactions one at a *)
(* time and undoes a transaction that reverts, so a require is a conjunct  *)
(* of the guard, and a call whose require fails is no step at all.  What   *)
(* is concurrent is the order in which the owner, the buyers, the keeper,  *)
(* the treasury and the relayer get their transactions in, and the block   *)
(* time, which advances between any two of them.                           *)
(***************************************************************************)
EXTENDS BatchSchedule, VestingCurve, DDCRewardPool, DDCPresaleRecorder

CONSTANTS TxIds,               \* the txIds buyers use (never 0)
          DDC_UNIT,            \* base units of a DDC ("1 ether")
          MIN_PURCHASE_USDT,
          MAX_PURCHASE_USDT,   \* per buyer and batch
          TREASURY_SWEEP_THRESHOLD_USDT,
          DDC_SUPPLY,          \* all the DDC there is, minted to the deployer
          UsdtOf               \* the USDT each buyer has to begin with

ASSUME PresaleAssumption ==
  /\ DDC_UNIT \in Nat \ {0}
  /\ MIN_PURCHASE_USDT \in Nat
  /\ MAX_PURCHASE_USDT \in Nat
  /\ TREASURY_SWEEP_THRESHOLD_USDT \in Nat \ {0}
  /\ DDC_SUPPLY \in Nat
  /\ PRESALE_NOMINAL_TOTAL <= DDC_SUPPLY
  /\ 2 * PRESALE_BURN_TARGET <= PRESALE_NOMINAL_TOTAL
  /\ UsdtOf \in [Users -> Nat]
  /\ TxIds \subseteq SourceRefs

\* What the environment may do: the inputs and bounds of a model
CONSTANTS StartTimes,      \* arguments of startPresaleOnce
          TgeTimes,        \* arguments of setTGE
          PurchaseAmounts, \* arguments of buyWithUSDT
          FundAmounts,     \* DDC transfers to the presale
          DirectUsdt,      \* USDT sent to the presale without buying
          Writers,         \* arguments of setWriter
          DirectRecords,   \* what is recorded without a purchase
          PresaleLinks,    \* arguments of setPresaleOnce
          MaxTime          \* where a model's clock stops

ASSUME InputAssumption ==
  /\ StartTimes \subseteq Nat \ {0}
  /\ TgeTimes \subseteq Nat
  /\ PurchaseAmounts \subseteq Nat
  /\ FundAmounts \subseteq Nat
  /\ DirectUsdt \subseteq Nat
  /\ Writers \subseteq Addresses
  /\ DirectRecords \subseteq [user : Users, ddcAmount : Nat, payAmount : Nat,
                              sourceRef : SourceRefs]
  /\ PresaleLinks \subseteq Addresses
  /\ MaxTime \in Nat

VARIABLES
  now,                       \* block.timestamp
  paused,                    \* Pausable
  presaleStart,              \* 0 until the presale is started
  currentBatchId,            \* 0 until the presale is started
  batches,                   \* _batches
  tgeTimestamp,              \* 0 until set
  finalized,
  recorderSet,
  usedTxIds,                 \* _usedTxIds
  userPurchases,             \* _userPurchases, without the timestamps
  spentUsdtPerBatch,
  totalPurchased,            \* nominal DDC of a buyer
  vestingPrincipal,          \* the buyer's half of it
  claimed,
  totalNominalSold,
  totalBuyerPrincipal,
  totalBurnLockedFromSales,
  totalClaimed,
  ddcBalance,                \* the ledger of the DDC token
  usdtBalance                \* the ledger of the USDT token

scheduleVars == <<currentBatchId, batches>>
salesVars == <<usedTxIds, userPurchases, spentUsdtPerBatch, totalPurchased, vestingPrincipal,
               totalNominalSold, totalBuyerPrincipal, totalBurnLockedFromSales>>
claimVars == <<claimed, totalClaimed>>
ownerVars == <<paused, presaleStart, tgeTimestamp, recorderSet>>
tokenVars == <<ddcBalance, usdtBalance>>

vars == <<now, finalized, scheduleVars, salesVars, claimVars, ownerVars, tokenVars,
          poolVars, recorderVars>>

Purchase == [batchId : BatchIds, amountDDC : Nat, paidUSDT : Nat, txId : TxIds]

\* TypeOK: the variables hold values of the Solidity types, and the schedule
\* is within the 40 batches.
TypeOK ==
  /\ now \in Nat \ {0}
  /\ paused \in BOOLEAN
  /\ presaleStart \in Nat
  /\ currentBatchId \in 0..TOTAL_BATCHES
  /\ batches \in [BatchIds -> Batch]
  /\ tgeTimestamp \in Nat
  /\ finalized \in BOOLEAN
  /\ recorderSet \in BOOLEAN
  /\ usedTxIds \in SUBSET TxIds
  /\ userPurchases \in [Users -> Seq(Purchase)]
  /\ spentUsdtPerBatch \in [BatchIds -> [Users -> Nat]]
  /\ totalPurchased \in [Users -> Nat]
  /\ vestingPrincipal \in [Users -> Nat]
  /\ claimed \in [Users -> Nat]
  /\ totalNominalSold \in Nat
  /\ totalBuyerPrincipal \in Nat
  /\ totalBurnLockedFromSales \in Nat
  /\ totalClaimed \in Nat
  /\ ddcBalance \in Balances
  /\ usdtBalance \in Balances
  /\ PoolTypeOK
  /\ RecorderTypeOK

---------------------------------------------------------------------------
(* Deployment *)

\* The constructors: the presale is not started and nothing is sold.  What
\* the deployment adds to them is linked, funded and wired.
Constructed(link, funding, wired, firstWriter) ==
  /\ now = 1
  /\ paused = FALSE
  /\ presaleStart = 0
  /\ currentBatchId = 0
  /\ batches = EmptySchedule.batches
  /\ tgeTimestamp = 0
  /\ finalized = FALSE
  /\ recorderSet = wired
  /\ usedTxIds = {}
  /\ userPurchases = [u \in Users |-> << >>]
  /\ spentUsdtPerBatch = [id \in BatchIds |-> [u \in Users |-> 0]]
  /\ totalPurchased = [u \in Users |-> 0]
  /\ vestingPrincipal = [u \in Users |-> 0]
  /\ claimed = [u \in Users |-> 0]
  /\ totalNominalSold = 0
  /\ totalBuyerPrincipal = 0
  /\ totalBurnLockedFromSales = 0
  /\ totalClaimed = 0
  /\ ddcBalance = [a \in Addresses |-> CASE a = OWNER   -> DDC_SUPPLY - funding
                                        [] a = PRESALE -> funding
                                        [] OTHER       -> 0]
  /\ usdtBalance = [a \in Addresses |-> IF a \in Users THEN UsdtOf[a] ELSE 0]
  /\ PoolInit(link)
  /\ RecorderInit(firstWriter)

\* Right after the constructors: the deployer holds all DDC and is the
\* recorder's writer, and the contracts do not know each other
Init == Constructed(NOBODY, 0, FALSE, OWNER)

\* After deploy_prod.js: the pool is linked, the presale holds its nominal
\* total and is the recorder's writer
DeployedInit == Constructed(PRESALE, PRESALE_NOMINAL_TOTAL, TRUE, PRESALE)

---------------------------------------------------------------------------
(* The owner's calls *)

schedule == [currentBatchId |-> currentBatchId, batches |-> batches]

SetSchedule(s) ==
  /\ currentBatchId' = s.currentBatchId
  /\ batches' = s.batches

StartPresaleOnce(startTime) ==
  /\ presaleStart = 0
  /\ startTime >= now
  /\ presaleStart' = startTime
  /\ SetSchedule(StartedSchedule(schedule, startTime))
  /\ UNCHANGED <<now, finalized, paused, tgeTimestamp, recorderSet, salesVars, claimVars,
                 tokenVars, poolVars, recorderVars>>

SetRecorderOnce ==
  /\ ~recorderSet
  /\ recorderSet' = TRUE
  /\ UNCHANGED <<now, finalized, paused, presaleStart, tgeTimestamp, scheduleVars, salesVars,
                 claimVars, tokenVars, poolVars, recorderVars>>

Pause ==
  /\ ~paused
  /\ paused' = TRUE
  /\ UNCHANGED <<now, finalized, presaleStart, tgeTimestamp, recorderSet, scheduleVars, salesVars,
                 claimVars, tokenVars, poolVars, recorderVars>>

Unpause ==
  /\ paused
  /\ paused' = FALSE
  /\ UNCHANGED <<now, finalized, presaleStart, tgeTimestamp, recorderSet, scheduleVars, salesVars,
                 claimVars, tokenVars, poolVars, recorderVars>>

\* Mutant: the TGE can be moved
SetTGEAgain(tge) ==
  /\ tge > now
  /\ tgeTimestamp' = tge
  /\ UNCHANGED <<now, finalized, paused, presaleStart, recorderSet, scheduleVars, salesVars,
                 claimVars, tokenVars, poolVars, recorderVars>>

SetTGE(tge) ==
  /\ tgeTimestamp = 0
  /\ tge > now
  /\ tgeTimestamp' = tge
  /\ UNCHANGED <<now, finalized, paused, presaleStart, recorderSet, scheduleVars, salesVars,
                 claimVars, tokenVars, poolVars, recorderVars>>

LinkRewardPool(address) ==
  /\ SetPresaleOnce(address)
  /\ UNCHANGED <<now, finalized, ownerVars, scheduleVars, salesVars, claimVars, tokenVars,
                 recorderVars>>

ChangeWriter(address) ==
  /\ SetWriter(address)
  /\ UNCHANGED <<now, finalized, ownerVars, scheduleVars, salesVars, claimVars, tokenVars, poolVars>>

\* The deployer's transfer that funds the presale with DDC
FundPresale(amount) ==
  /\ CanTransfer(ddcBalance, OWNER, amount)
  /\ ddcBalance' = Transfer(ddcBalance, OWNER, PRESALE, amount)
  /\ UNCHANGED <<now, finalized, ownerVars, scheduleVars, salesVars, claimVars, usdtBalance,
                 poolVars, recorderVars>>

---------------------------------------------------------------------------
(* Batches *)

\* _syncBatches does nothing once the presale is finalized
Synced(s) == IF finalized THEN s ELSE SyncLoop(s, now)

AdvanceIfEnded ==
  /\ SetSchedule(Synced(schedule))
  /\ UNCHANGED <<now, finalized, ownerVars, salesVars, claimVars, tokenVars, poolVars, recorderVars>>

\* Mutant: active before it starts
ActiveEarly(id) ==
  /\ ~finalized
  /\ id = EffectiveCurrentBatchId(schedule, now)
  /\ ~batches[id].isClosed

\* The isActive flag of the view batchInfo
isActive(id) ==
  /\ ~finalized
  /\ id = EffectiveCurrentBatchId(schedule, now)
  /\ now >= batches[id].startTime
  /\ ~batches[id].isClosed

---------------------------------------------------------------------------
(* Buying *)

\* Mutant: sells before the start
BatchOpenEarly(b) == now <= b.endTime /\ ~b.isClosed

\* The batch is open for buying at this very second
BatchOpen(b) == b.startTime <= now /\ now <= b.endTime /\ ~b.isClosed

\* DDC for an amount of USDT at a batch's price, rounded down
AmountDDC(usdtAmount, b) == (usdtAmount * DDC_UNIT) \div b.priceUSDT

\* The halves of a purchase; the odd unit is burn-locked
BuyerPart(ddcAmount) == ddcAmount \div 2
\* Mutant: the odd unit is lost
BurnPartHalf(ddcAmount) == ddcAmount \div 2
BurnPart(ddcAmount) == ddcAmount - BuyerPart(ddcAmount)

\* Mutant: the limit is per purchase
WithinLimitsOnce(user, usdtAmount, batchId) ==
  usdtAmount >= MIN_PURCHASE_USDT /\ usdtAmount <= MAX_PURCHASE_USDT

WithinLimits(user, usdtAmount, batchId) ==
  /\ usdtAmount >= MIN_PURCHASE_USDT
  /\ spentUsdtPerBatch[batchId][user] + usdtAmount <= MAX_PURCHASE_USDT

\* Mutant: the cap is compared before the sale
FitsBeforeSale(ddcAmount, b) == ddcAmount > 0 /\ b.sold < b.hardCap

FitsBatch(ddcAmount, b) == ddcAmount > 0 /\ b.sold + ddcAmount <= b.hardCap

\* The requires buyWithUSDT states itself, before and after its first sync
BuyAllowed(user, usdtAmount, txId) ==
  /\ ~paused
  /\ txId \notin usedTxIds
  /\ ~finalized
  /\ presaleStart # 0 /\ currentBatchId # 0
  /\ LET id == Synced(schedule).currentBatchId
         b  == Synced(schedule).batches[id]
     IN  /\ BatchOpen(b)
         /\ WithinLimits(user, usdtAmount, id)
         /\ FitsBatch(AmountDDC(usdtAmount, b), b)

SellFrom(s, ddcAmount) ==
  [s EXCEPT !.batches[s.currentBatchId].sold = @ + ddcAmount]

\* Mutant: rounds up
SweptAmountUp(bal) ==
  ((bal[PRESALE] + TREASURY_SWEEP_THRESHOLD_USDT - 1) \div TREASURY_SWEEP_THRESHOLD_USDT)
    * TREASURY_SWEEP_THRESHOLD_USDT

\* Mutant: sweeps everything once the threshold is reached
SweptAmountAll(bal) ==
  IF bal[PRESALE] >= TREASURY_SWEEP_THRESHOLD_USDT THEN bal[PRESALE] ELSE 0

\* _autoSweepRaisedFunds: whole multiples of the threshold go to the treasury
SweptAmount(bal) ==
  (bal[PRESALE] \div TREASURY_SWEEP_THRESHOLD_USDT) * TREASURY_SWEEP_THRESHOLD_USDT

AutoSweep(bal) == Transfer(bal, PRESALE, TREASURY, SweptAmount(bal))

\* The totals and the buyer's record
RecordSale(user, usdtAmount, ddcAmount, batchId, txId) ==
  /\ usedTxIds' = usedTxIds \cup {txId}
  /\ spentUsdtPerBatch' = [spentUsdtPerBatch EXCEPT ![batchId][user] = @ + usdtAmount]
  /\ totalPurchased' = [totalPurchased EXCEPT ![user] = @ + ddcAmount]
  /\ totalNominalSold' = totalNominalSold + ddcAmount
  /\ vestingPrincipal' = [vestingPrincipal EXCEPT ![user] = @ + BuyerPart(ddcAmount)]
  /\ totalBuyerPrincipal' = totalBuyerPrincipal + BuyerPart(ddcAmount)
  /\ totalBurnLockedFromSales' = totalBurnLockedFromSales + BurnPart(ddcAmount)
  /\ userPurchases' =
       [userPurchases EXCEPT ![user] =
          Append(@, [batchId |-> batchId, amountDDC |-> ddcAmount,
                     paidUSDT |-> usdtAmount, txId |-> txId])]

\* Mutant: the amounts are swapped
NotifyRecorderSwapped(user, ddcAmount, usdtAmount, txId) ==
  IF recorderSet
  THEN RecordPurchase(PRESALE, user, usdtAmount, ddcAmount, txId)
  ELSE UNCHANGED recorderVars

\* The call of the recorder, which reverts the purchase when it reverts
NotifyRecorder(user, ddcAmount, usdtAmount, txId) ==
  IF recorderSet
  THEN RecordPurchase(PRESALE, user, ddcAmount, usdtAmount, txId)
  ELSE UNCHANGED recorderVars

BuyWithUSDT(user, usdtAmount, txId) ==
  /\ BuyAllowed(user, usdtAmount, txId)
  /\ CanTransfer(usdtBalance, user, usdtAmount)
  /\ LET s   == Synced(schedule)
         id  == s.currentBatchId
         ddc == AmountDDC(usdtAmount, s.batches[id])
     IN  /\ RecordSale(user, usdtAmount, ddc, id, txId)
         /\ NotifyRecorder(user, ddc, usdtAmount, txId)
         /\ SetSchedule(Synced(SellFrom(s, ddc)))
  /\ usdtBalance' = AutoSweep(Transfer(usdtBalance, user, PRESALE, usdtAmount))
  /\ UNCHANGED <<now, finalized, ownerVars, claimVars, ddcBalance, poolVars>>

---------------------------------------------------------------------------
(* Claiming *)

Unlocked(user) == UnlockedTotal(vestingPrincipal[user], tgeTimestamp, now)

\* Mutant: forgets what was claimed before
ClaimableAgain(user) == Unlocked(user)

\* Mutant: pausing stops the claims too
ClaimableUnlessPaused(user) ==
  IF ~paused /\ Unlocked(user) > claimed[user] THEN Unlocked(user) - claimed[user] ELSE 0

claimable(user) ==
  IF Unlocked(user) > claimed[user] THEN Unlocked(user) - claimed[user] ELSE 0

locked(user) ==
  IF vestingPrincipal[user] > Unlocked(user) THEN vestingPrincipal[user] - Unlocked(user) ELSE 0

Claim(user) ==
  LET amount == claimable(user)
  IN  /\ amount > 0
      /\ CanTransfer(ddcBalance, PRESALE, amount)
      /\ claimed' = [claimed EXCEPT ![user] = @ + amount]
      /\ totalClaimed' = totalClaimed + amount
      /\ ddcBalance' = Transfer(ddcBalance, PRESALE, user, amount)
      /\ UNCHANGED <<now, finalized, ownerVars, scheduleVars, salesVars, usdtBalance, poolVars,
                     recorderVars>>

---------------------------------------------------------------------------
(* Finalizing *)

BuyerReserveRequired == totalBuyerPrincipal - totalClaimed

\* Mutant: leaves out the half of the sales that is burn-locked
ResidualOfNominal == PRESALE_NOMINAL_TOTAL - totalNominalSold

ResidualToRewardPool == PRESALE_NOMINAL_TOTAL - totalBuyerPrincipal

\* Mutant: counts the buyers' half as burn-locked
BurnTopUpOfNominal ==
  IF totalNominalSold >= PRESALE_BURN_TARGET THEN 0 ELSE PRESALE_BURN_TARGET - totalNominalSold

\* What is missing for the pool's burn target, as far as the residual goes
BurnTopUp ==
  LET missing == IF totalBurnLockedFromSales >= PRESALE_BURN_TARGET THEN 0
                 ELSE PRESALE_BURN_TARGET - totalBurnLockedFromSales
  IN  IF missing > ResidualToRewardPool THEN ResidualToRewardPool ELSE missing

\* The last batch is the current one and is over
LastBatchOver(s) ==
  /\ s.currentBatchId = TOTAL_BATCHES
  /\ LET b == s.batches[TOTAL_BATCHES] IN b.isClosed \/ now > b.endTime

\* Mutant: forgets the buyers' reserve
ResidualFunded == ddcBalance[PRESALE] >= ResidualToRewardPool

FinalizeFunded == ddcBalance[PRESALE] >= BuyerReserveRequired + ResidualToRewardPool

\* Mutant: may be repeated
CanFinalizeAgain == LastBatchOver(Synced(schedule)) /\ FinalizeFunded

\* The requires of finalize itself
CanFinalize == ~finalized /\ LastBatchOver(Synced(schedule)) /\ FinalizeFunded

Finalize ==
  /\ CanFinalize
  /\ finalized' = TRUE
  /\ SetSchedule(Synced(schedule))
  /\ ddcBalance' = Transfer(ddcBalance, PRESALE, REWARD_POOL, ResidualToRewardPool)
  /\ AccountPresaleReconciliation(PRESALE, ResidualToRewardPool, BurnTopUp)
  /\ UNCHANGED <<now, ownerVars, salesVars, claimVars, usdtBalance, recorderVars>>

---------------------------------------------------------------------------
(* The raised USDT *)

SweepRaisedFundsToTreasury ==
  /\ SweptAmount(usdtBalance) > 0
  /\ usdtBalance' = AutoSweep(usdtBalance)
  /\ UNCHANGED <<now, finalized, ownerVars, scheduleVars, salesVars, claimVars, ddcBalance,
                 poolVars, recorderVars>>

WithdrawRaisedFunds ==
  /\ finalized
  /\ usdtBalance' = Transfer(usdtBalance, PRESALE, TREASURY, usdtBalance[PRESALE])
  /\ UNCHANGED <<now, finalized, ownerVars, scheduleVars, salesVars, claimVars, ddcBalance,
                 poolVars, recorderVars>>

\* Anybody may send USDT to the contract's address
SendUsdt(user, amount) ==
  /\ CanTransfer(usdtBalance, user, amount)
  /\ usdtBalance' = Transfer(usdtBalance, user, PRESALE, amount)
  /\ UNCHANGED <<now, finalized, ownerVars, scheduleVars, salesVars, claimVars, ddcBalance,
                 poolVars, recorderVars>>

---------------------------------------------------------------------------
(* The recorder called by itself *)

\* The writer or the owner records what no purchase brought: the scripts that
\* rebuild the recorder do, under references of their own, and nothing keeps
\* one from using a txId before its buyer does.  The presale itself, when it
\* is the writer, records from within a purchase only.
RecordDirectly(entry) ==
  /\ \E caller \in {writer, OWNER} \ {PRESALE} :
       RecordPurchase(caller, entry.user, entry.ddcAmount, entry.payAmount, entry.sourceRef)
  /\ UNCHANGED <<now, finalized, ownerVars, scheduleVars, salesVars, claimVars, tokenVars, poolVars>>

---------------------------------------------------------------------------

\* The next block
Tick ==
  /\ now < MaxTime
  /\ now' = now + 1
  /\ UNCHANGED <<finalized, ownerVars, scheduleVars, salesVars, claimVars, tokenVars, poolVars,
                 recorderVars>>

OwnerNext ==
  \/ \E t \in StartTimes : StartPresaleOnce(t)
  \/ SetRecorderOnce
  \/ Pause
  \/ Unpause
  \/ \E t \in TgeTimes : SetTGE(t)
  \/ \E a \in PresaleLinks : LinkRewardPool(a)
  \/ \E a \in Writers : ChangeWriter(a)
  \/ \E amount \in FundAmounts : FundPresale(amount)

Next ==
  \/ OwnerNext
  \/ AdvanceIfEnded
  \/ \E u \in Users, amount \in PurchaseAmounts, id \in TxIds : BuyWithUSDT(u, amount, id)
  \/ \E u \in Users : Claim(u)
  \/ Finalize
  \/ SweepRaisedFundsToTreasury
  \/ WithdrawRaisedFunds
  \/ \E u \in Users, amount \in DirectUsdt : SendUsdt(u, amount)
  \/ \E entry \in DirectRecords : RecordDirectly(entry)
  \/ Tick

Spec == Init /\ [][Next]_vars

DeployedSpec == DeployedInit /\ [][Next]_vars

\* Blocks keep coming, the keeper (keeper_advance_batches.js) keeps calling
\* advanceIfEnded, and somebody who wants the presale finalized or the own
\* DDC keeps trying: both calls are open to anybody.
Fairness ==
  /\ WF_vars(Tick)
  /\ WF_vars(AdvanceIfEnded)
  /\ WF_vars(Finalize)
  /\ \A u \in Users : WF_vars(Claim(u))

FairDeployedSpec == DeployedSpec /\ Fairness
===========================================================================
