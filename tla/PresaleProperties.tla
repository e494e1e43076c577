-------------------------- MODULE PresaleProperties --------------------------
(***************************************************************************)
(* What must hold of DDCPresaleVesting and the contracts it calls.  The    *)
(* runs check these properties on small instances; the module              *)
(* PresaleProofs proves some of them for all values of the constants.      *)
(***************************************************************************)
EXTENDS DDCPresaleVesting, Functions, SequencesExt

\* USDT a buyer paid and DDC the buyer bought, from the list of purchases
PaidBy(u) == SumFunction([i \in DOMAIN userPurchases[u] |-> userPurchases[u][i].paidUSDT])
BoughtBy(u) == SumFunction([i \in DOMAIN userPurchases[u] |-> userPurchases[u][i].amountDDC])
BoughtInBatch(u, id) == {i \in DOMAIN userPurchases[u] : userPurchases[u][i].batchId = id}
PaidInBatch(u, id) == SumFunction([i \in BoughtInBatch(u, id) |-> userPurchases[u][i].paidUSDT])

---------------------------------------------------------------------------
(* The allocation *)

\* Every DDC of the nominal total is sold, is still on sale in the current
\* batch, or waits in a batch that has not been opened: rolling unsold
\* amounts over neither loses nor creates any.  Hence the presale is never
\* oversold, and finalize's subtraction from the nominal total cannot revert.
CapacityConserved ==
  presaleStart # 0 =>
    /\ totalNominalSold + Unsold(batches[currentBatchId])
         + (TOTAL_BATCHES - currentBatchId) * BATCH_BASE_ALLOCATION = PRESALE_NOMINAL_TOTAL
    /\ \A id \in BatchIds : batches[id].sold <= batches[id].hardCap

\* The batches follow one another without a gap: each starts when its
\* predecessor ended, or earlier because the predecessor sold out, and brings
\* along exactly what the predecessor left.  Batches above the current one are
\* untouched, so the branch of _syncBatches for a batch that is already open
\* is never taken.
ScheduleWellFormed ==
  /\ currentBatchId = 0 <=> presaleStart = 0
  /\ \A id \in BatchIds : id > currentBatchId => batches[id] = Unopened
  /\ \A id \in 1..currentBatchId-1 :
       LET b == batches[id]  n == batches[id+1]
       IN  /\ b.isClosed
           /\ b.startTime <= n.startTime /\ n.startTime <= b.endTime
           /\ n.startTime < b.endTime => SoldOut(b)
           /\ n.rolloverIn = Unsold(b)
           /\ n.endTime = n.startTime + BATCH_DURATION
  /\ currentBatchId # 0 /\ batches[currentBatchId].isClosed => currentBatchId = TOTAL_BATCHES

\* When the keeper calls does not matter: a sync now and one later leave the
\* schedule that a single later sync leaves.
LateKeeperHarmless ==
  \A t \in now..now + TOTAL_BATCHES * BATCH_DURATION :
    SyncLoop(SyncLoop(schedule, now), t) = SyncLoop(schedule, t)

\* A purchase goes to the first batch that is neither sold out nor over, at
\* that batch's price and within its window: nobody pays the price of a later
\* batch while an earlier one still sells.
SalesInOpenBatch ==
  [][\A u \in Users : userPurchases'[u] # userPurchases[u] =>
       LET p == Last(userPurchases'[u])
           b == batches'[p.batchId]
       IN  /\ b.startTime <= now /\ now <= b.endTime
           /\ p.amountDDC = (p.paidUSDT * DDC_UNIT) \div Prices[p.batchId - 1]
           /\ \A id \in 1..p.batchId-1 : SoldOut(batches'[id]) \/ now > batches'[id].endTime
           /\ p.batchId = currentBatchId' \/ SoldOut(b)]_vars

\* What batchInfo shows as active and what a purchase would be sold from part
\* only between the end of a batch and the next sync: what is shown is the
\* batch that sells, and it is open, or the current one, whose time is over;
\* a batch that is open is shown unless such a one hides it; and after a sync
\* the two agree.
ActiveBatchSells ==
  LET synced == Synced(schedule)
      selling == synced.currentBatchId
  IN  /\ \A id \in BatchIds : isActive(id) =>
           \/ id = selling /\ BatchOpen(synced.batches[id])
           \/ id = currentBatchId /\ Expired(batches[id], now)
      /\ selling # 0 /\ BatchOpen(synced.batches[selling]) /\ ~finalized =>
           \E id \in BatchIds : isActive(id)
      /\ EffectiveCurrentBatchId(synced, now) = selling

\* Finalizing is irreversible: no batch, sale or reconciled amount changes
\* after it.
FinalizedIsFinal ==
  [][finalized => /\ finalized'
                  /\ UNCHANGED <<scheduleVars, salesVars, cumulativeBurnAccounted,
                                 burnLockedBalance, rewardEligibleBalance>>]_vars

Allocation == INSTANCE TokenAllocation WITH
  Buyers <- Users, Total <- PRESALE_NOMINAL_TOTAL, BurnTarget <- PRESALE_BURN_TARGET,
  sold <- totalNominalSold, principal <- vestingPrincipal, paid <- claimed,
  closed <- finalized, pooled <- totalAccounted, burnt <- burnLockedBalance

\* The presale, its buyers' claims and the pool deal out the allocation as
\* TokenAllocation promises: batches, roundings, vesting and every other call
\* only decide when and how much, and after finalize buyers are paid and
\* nothing else is dealt out again.
IsAllocation == Allocation!AllocationSpec

---------------------------------------------------------------------------
(* The books *)

\* The totals agree with the buyers' accounts, the batches and the list of
\* purchases: sums of principals, of nominal amounts and of claims, and the
\* split of each purchase into halves.
SalesAddUp ==
  /\ SumFunction(vestingPrincipal) = totalBuyerPrincipal
  /\ SumFunction(totalPurchased) = totalNominalSold
  /\ SumFunction(claimed) = totalClaimed
  /\ SumFunction([id \in BatchIds |-> batches[id].sold]) = totalNominalSold
  /\ totalBuyerPrincipal + totalBurnLockedFromSales = totalNominalSold
  /\ totalBuyerPrincipal <= totalBurnLockedFromSales
  /\ \A u \in Users : totalPurchased[u] = BoughtBy(u)

\* No buyer spends more than the limit in one batch, counted from the
\* purchases the contract lists.
SpendCapPerBatch ==
  \A u \in Users, id \in BatchIds : PaidInBatch(u, id) <= MAX_PURCHASE_USDT

\* What the recorder lists of a purchase
EntryOf(p) == [ddcAmount |-> p.amountDDC, payAmount |-> p.paidUSDT, sourceRef |-> p.txId]

\* Once the presale is wired, its recorder lists every purchase once and in
\* the buyer's order, and has nothing else under a purchase's txId, whoever
\* becomes its writer and whatever the writer and the owner record besides;
\* its totals never fall behind what the buyer bought and paid.
RecorderMirrorsSales ==
  /\ usedTxIds \subseteq recordedSourceRef
  /\ \A u \in Users :
       LET sales == userPurchases[u]
           listed == listUserPurchases(u)
           Lists(k, i) == listed[k] = EntryOf(sales[i])
       IN  /\ \A i \in DOMAIN sales : \E k \in DOMAIN listed : Lists(k, i)
           /\ \A k \in DOMAIN listed :
                listed[k].sourceRef \in usedTxIds => \E i \in DOMAIN sales : Lists(k, i)
           /\ \A i, j \in DOMAIN sales, k, l \in DOMAIN listed :
                Lists(k, i) /\ Lists(l, j) => (i < j <=> k < l)
           /\ userTotals[u].ddc >= totalPurchased[u]
           /\ userTotals[u].usdt >= PaidBy(u)

ListedDdc(u) == SumFunction([k \in DOMAIN recordedPurchases[u] |-> recordedPurchases[u][k].ddcAmount])
ListedUsdt(u) == SumFunction([k \in DOMAIN recordedPurchases[u] |-> recordedPurchases[u][k].payAmount])

\* Whoever records, by purchases or directly, and whenever the presale is
\* wired: a user's totals are the sums of the user's entries, and a reference
\* that was ever accepted stands in one entry of one user and in one of the
\* global list, which has no others.
RecorderAddsUp ==
  /\ \A u \in Users : userTotals[u] = [ddc |-> ListedDdc(u), usdt |-> ListedUsdt(u)]
  /\ \A u, v \in Users : \A k \in DOMAIN recordedPurchases[u], l \in DOMAIN recordedPurchases[v] :
       recordedPurchases[u][k].sourceRef = recordedPurchases[v][l].sourceRef => u = v /\ k = l
  /\ \A i, j \in DOMAIN globalPurchases :
       globalPurchases[i].sourceRef = globalPurchases[j].sourceRef => i = j
  /\ \A u \in Users : Range(recordedPurchases[u]) \subseteq Range(globalPurchases)
  /\ \A e \in Range(globalPurchases) : \E u \in Users : e \in Range(recordedPurchases[u])
  /\ recordedSourceRef = {e.sourceRef : e \in Range(globalPurchases)}

\* Before finalize the treasury receives whole multiples of the threshold
\* only, and a purchase never leaves a full multiple behind.
SweepsWholeChunks ==
  [][/\ ~finalized =>
          (usdtBalance'[TREASURY] - usdtBalance[TREASURY]) % TREASURY_SWEEP_THRESHOLD_USDT = 0
     /\ salesVars' # salesVars => usdtBalance'[PRESALE] < TREASURY_SWEEP_THRESHOLD_USDT]_vars

---------------------------------------------------------------------------
(* Claims and the reserve *)

\* A buyer never holds more than what has vested, and what is claimed,
\* claimable and locked is the principal.
ClaimsWithinVesting ==
  \A u \in Users :
    /\ claimed[u] <= Unlocked(u)
    /\ claimed[u] + claimable(u) + locked(u) = vestingPrincipal[u]

\* What has vested never shrinks again, whatever the order of purchases,
\* setTGE, ticks and claims.
VestedNeverShrinks ==
  [][\A u \in Users : Unlocked(u)' >= Unlocked(u)]_vars

\* After finalize the presale still holds every DDC it owes its buyers.
ReserveCoversClaims ==
  finalized => ddcBalance[PRESALE] >= totalBuyerPrincipal - totalClaimed

\* A presale that is over, funded and linked can be finalized: the pool
\* accepts the amounts finalize computes, so its requires never revert it.
PoolAcceptsFinalize ==
  ~finalized /\ presale = PRESALE /\ LastBatchOver(Synced(schedule)) =>
    ReconciliationAccepted(PRESALE, ResidualToRewardPool, BurnTopUp)

\* The pool has received every DDC it accounts for and keeps the burn cap.
\* What it shows as missing to the burn target after finalize is what the
\* sales burn-locked, up to the target, and that much it holds as eligible
\* for rewards: the target is met if just these are counted as burn-locked.
PoolBacked ==
  /\ totalAccounted <= ddcBalance[REWARD_POOL]
  /\ cumulativeBurnAccounted = burnLockedBalance
  /\ burnLockedBalance <= MAX_BURN_CAP
  /\ finalized =>
       /\ remainingPresaleBurnTarget =
            IF totalBurnLockedFromSales < PRESALE_BURN_TARGET THEN totalBurnLockedFromSales
            ELSE PRESALE_BURN_TARGET
       /\ remainingPresaleBurnTarget <= rewardEligibleBalance

---------------------------------------------------------------------------
(* Progress *)

\* A deployed presale that was started is finalized in the end.
EventuallyFinalized == presaleStart # 0 ~> finalized

\* Once the TGE is set, every buyer ends up with the whole principal, paused
\* or not.
BuyersPaidInFull ==
  \A u \in Users : tgeTimestamp # 0 ~> [](claimed[u] = vestingPrincipal[u])

---------------------------------------------------------------------------
(* What the repository's documents and tests say and the code does not do *)

\* TEST_RUNS.md: "advance is blocked after finalize"
AdvanceBlockedAfterFinalize == finalized => ~ENABLED AdvanceIfEnded

\* COIN_ALLOCATION_MANIFEST.md: of the public presale, "Buyer portion 50%;
\* remaining 50% burn-locked"
HalfIsBurnLocked == finalized => burnLockedBalance >= PRESALE_NOMINAL_TOTAL \div 2

\* DECISIONS.md: "Buy flow remains uncoupled from recorder external calls"
BuyUncoupledFromRecorder ==
  \A u \in Users, amount \in PurchaseAmounts, id \in TxIds :
    BuyAllowed(u, amount, id) /\ CanTransfer(usdtBalance, u, amount)
      => ENABLED BuyWithUSDT(u, amount, id)
=============================================================================
