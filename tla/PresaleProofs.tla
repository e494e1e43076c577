---------------------------- MODULE PresaleProofs ----------------------------
(***************************************************************************)
(* Proofs about DDCPresaleVesting and the contracts it calls, for every    *)
(* number of batches and buyers, every price, limit, funding and clock,    *)
(* and for every order of transactions: from the bare constructors (Spec)  *)
(* and from the deployment (DeployedSpec).                                 *)
(*                                                                         *)
(* None of the properties is inductive alone.  The reserve that finalize   *)
(* checks is a natural number only because nobody has claimed more than    *)
(* the principal, which rests on the release curve; the residual is        *)
(* positive only because the presale is never oversold, which rests on the *)
(* schedule.  InductiveInv is the conjunction that carries itself.         *)
(***************************************************************************)
EXTENDS PresaleProperties, ScheduleProofs

---------------------------------------------------------------------------
(* Ledgers *)

\* A transfer that is covered leaves a ledger of naturals.
LEMMA TransferType ==
  ASSUME NEW bal \in Balances, NEW from \in Addresses, NEW to \in Addresses,
         NEW amount \in Nat, CanTransfer(bal, from, amount)
  PROVE  Transfer(bal, from, to, amount) \in Balances
BY DEF Transfer, CanTransfer, Balances

\* It moves the amount and touches no third account.
LEMMA TransferMoves ==
  ASSUME NEW bal \in Balances, NEW from \in Addresses, NEW to \in Addresses,
         NEW amount \in Nat, from # to
  PROVE  /\ Transfer(bal, from, to, amount)[from] = bal[from] - amount
         /\ Transfer(bal, from, to, amount)[to] = bal[to] + amount
         /\ \A a \in Addresses \ {from, to} : Transfer(bal, from, to, amount)[a] = bal[a]
BY DEF Transfer, Balances

---------------------------------------------------------------------------
(* The inductive invariant *)

\* The schedule is right and settled, and what is not sold remains on sale.
SaleInv ==
  /\ currentBatchId = 0 <=> presaleStart = 0
  /\ currentBatchId = 0 => batches = EmptySchedule.batches /\ totalNominalSold = 0 /\ ~finalized
  /\ currentBatchId # 0 =>
       /\ ScheduleInv(schedule, now) /\ Settled(schedule)
       /\ totalNominalSold + Remaining(schedule) = PRESALE_NOMINAL_TOTAL

\* The halves of what was sold
HalvesInv ==
  /\ totalBuyerPrincipal + totalBurnLockedFromSales = totalNominalSold
  /\ totalBuyerPrincipal <= totalBurnLockedFromSales

\* The buyers' accounts and their sums
AccountsInv ==
  /\ SumFunction(vestingPrincipal) = totalBuyerPrincipal
  /\ SumFunction(claimed) = totalClaimed
  /\ \A u \in Users : claimed[u] <= Unlocked(u)

\* What the reward pool and the presale hold
HoldingsInv ==
  /\ ~finalized => cumulativeBurnAccounted = 0
  /\ PoolBacked
  /\ ReserveCoversClaims

InductiveInv == TypeOK /\ SaleInv /\ HalvesInv /\ AccountsInv /\ HoldingsInv

---------------------------------------------------------------------------
(* The initial states *)

LEMMA ConstructedInv ==
  ASSUME NEW link \in Addresses \cup {NOBODY}, NEW funding \in Nat, funding <= DDC_SUPPLY,
         NEW wired \in BOOLEAN, NEW firstWriter \in Addresses,
         Constructed(link, funding, wired, firstWriter)
  PROVE  InductiveInv
<1>1. TypeOK
  <2>1. batches \in [BatchIds -> Batch]
    BY UnopenedType DEF Constructed, EmptySchedule
  <2>2. ddcBalance \in Balances
    BY PresaleAssumption DEF Constructed, Balances
  <2>3. usdtBalance \in Balances
    BY PresaleAssumption DEF Constructed, Balances
  <2>4. PoolTypeOK /\ RecorderTypeOK
    BY DEF Constructed, PoolInit, PoolTypeOK, RecorderInit, RecorderTypeOK, Totals
  <2>5. /\ now \in Nat \ {0} /\ presaleStart \in Nat
        /\ currentBatchId \in 0..TOTAL_BATCHES /\ tgeTimestamp \in Nat
    BY ScheduleAssumption DEF Constructed
  <2>7. paused \in BOOLEAN /\ finalized \in BOOLEAN /\ recorderSet \in BOOLEAN
    BY DEF Constructed
  <2>6. /\ usedTxIds \in SUBSET TxIds
        /\ userPurchases \in [Users -> Seq(Purchase)]
        /\ spentUsdtPerBatch \in [BatchIds -> [Users -> Nat]]
        /\ totalPurchased \in [Users -> Nat]
        /\ vestingPrincipal \in [Users -> Nat]
        /\ claimed \in [Users -> Nat]
        /\ totalNominalSold \in Nat /\ totalBuyerPrincipal \in Nat
        /\ totalBurnLockedFromSales \in Nat /\ totalClaimed \in Nat
    BY DEF Constructed
  <2> QED BY <2>1, <2>2, <2>3, <2>4, <2>5, <2>6, <2>7 DEF TypeOK
<1>2. SaleInv
  BY DEF Constructed, SaleInv
<1>3. HalvesInv
  BY DEF Constructed, HalvesInv
<1>4. AccountsInv
  <2>1. SumFunction(vestingPrincipal) = totalBuyerPrincipal /\ SumFunction(claimed) = totalClaimed
    BY SumZero, UsersAssumption DEF Constructed
  <2>2. \A u \in Users : claimed[u] <= Unlocked(u)
    BY DEF Constructed, Unlocked, UnlockedTotal
  <2> QED BY <2>1, <2>2 DEF AccountsInv
<1>5. HoldingsInv
  <2>1. REWARD_POOL \in Addresses /\ REWARD_POOL # OWNER /\ REWARD_POOL # PRESALE
    BY DEF Addresses, REWARD_POOL, OWNER, PRESALE
  <2>2. ddcBalance[REWARD_POOL] = 0
    BY <2>1 DEF Constructed
  <2> QED BY <2>2, BurnAssumption
          DEF HoldingsInv, PoolBacked, ReserveCoversClaims, Constructed, PoolInit, totalAccounted
<1> QED BY <1>1, <1>2, <1>3, <1>4, <1>5 DEF InductiveInv

LEMMA NominalTotal == PRESALE_NOMINAL_TOTAL \in Nat \ {0}
BY ScheduleAssumption DEF PRESALE_NOMINAL_TOTAL

LEMMA InitInv == Init \/ DeployedInit => InductiveInv
<1>1. /\ OWNER \in Addresses /\ PRESALE \in Addresses
      /\ NOBODY \in Addresses \cup {NOBODY} /\ PRESALE \in Addresses \cup {NOBODY}
      /\ TRUE \in BOOLEAN /\ FALSE \in BOOLEAN
      /\ 0 \in Nat /\ 0 <= DDC_SUPPLY
      /\ PRESALE_NOMINAL_TOTAL \in Nat /\ PRESALE_NOMINAL_TOTAL <= DDC_SUPPLY
  BY PresaleAssumption, NominalTotal DEF Addresses
<1>2. ASSUME Init PROVE InductiveInv
  BY <1>1, <1>2, ConstructedInv DEF Init
<1>3. ASSUME DeployedInit PROVE InductiveInv
  BY <1>1, <1>3, ConstructedInv DEF DeployedInit
<1> QED BY <1>2, <1>3

---------------------------------------------------------------------------
(* Batches and sales *)

LEMMA ScheduleType ==
  ASSUME TypeOK
  PROVE  schedule \in Schedule
BY DEF TypeOK, schedule, Schedule

LEMMA SetScheduleIs ==
  ASSUME NEW s \in Schedule, SetSchedule(s)
  PROVE  schedule' = s /\ batches' \in [BatchIds -> Batch] /\ currentBatchId' \in 0..TOTAL_BATCHES
BY DEF SetSchedule, schedule, Schedule

\* A sync that finds nothing due changes nothing.
LEMMA SyncLoopIdle ==
  ASSUME NEW s, NEW t, ~Due(s, t)
  PROVE  SyncLoop(s, t) = s
<1>1. SyncStep(s, t) = s
  BY DEF SyncStep
<1>2. SyncLoop(s, t) \in {s}
  BY <1>1, SyncLoopInvariant
<1> QED BY <1>2

\* What the loop leaves is settled.
LEMMA SyncLoopSettles ==
  ASSUME NEW t \in Nat, NEW s, ScheduleInv(s, t)
  PROVE  /\ ScheduleInv(SyncLoop(s, t), t) /\ Settled(SyncLoop(s, t))
         /\ Remaining(SyncLoop(s, t)) = Remaining(s)
         /\ SyncLoop(s, t) \in Schedule
<1>1. /\ ScheduleInv(SyncLoop(s, t), t)
      /\ Remaining(SyncLoop(s, t)) = Remaining(s)
      /\ ~Due(SyncLoop(s, t), t)
  BY SyncLoopKeeps
<1>2. SyncLoop(s, t) \in Schedule /\ SyncLoop(s, t).currentBatchId # 0
  BY <1>1 DEF ScheduleInv
<1>3. Settled(SyncLoop(s, t))
  BY <1>1, <1>2 DEF Due, Settled
<1> QED BY <1>1, <1>2, <1>3

\* The sync of a transaction
LEMMA SyncedSchedule ==
  ASSUME TypeOK, SaleInv
  PROVE  /\ Synced(schedule) \in Schedule
         /\ currentBatchId = 0 => Synced(schedule) = schedule
         /\ currentBatchId # 0 =>
              /\ ScheduleInv(Synced(schedule), now) /\ Settled(Synced(schedule))
              /\ Remaining(Synced(schedule)) = Remaining(schedule)
<1>1. schedule \in Schedule /\ now \in Nat /\ schedule.currentBatchId = currentBatchId
  BY ScheduleType DEF TypeOK, schedule
<1>2. CASE currentBatchId = 0
  <2>1. SyncLoop(schedule, now) = schedule
    BY <1>1, <1>2, SyncLoopIdle DEF Due
  <2> QED BY <1>1, <1>2, <2>1 DEF Synced
<1>3. CASE currentBatchId # 0
  <2>1. ScheduleInv(schedule, now) /\ Settled(schedule)
    BY <1>3 DEF SaleInv
  <2>2. /\ ScheduleInv(SyncLoop(schedule, now), now) /\ Settled(SyncLoop(schedule, now))
        /\ Remaining(SyncLoop(schedule, now)) = Remaining(schedule)
        /\ SyncLoop(schedule, now) \in Schedule
    BY <1>1, <2>1, SyncLoopSettles
  <2> QED BY <1>1, <1>3, <2>1, <2>2 DEF Synced
<1> QED BY <1>2, <1>3

\* A sale that fits keeps the schedule right, and takes from what remains.
LEMMA SellFromKeeps ==
  ASSUME NEW t \in Nat, NEW s, ScheduleInv(s, t), NEW ddc \in Nat,
         NEW b, b = s.batches[s.currentBatchId], ~b.isClosed, b.startTime <= t, t <= b.endTime,
         FitsBatch(ddc, b)
  PROVE  /\ ScheduleInv(SellFrom(s, ddc), t)
         /\ ddc + Remaining(SellFrom(s, ddc)) = Remaining(s)
<1> DEFINE id == s.currentBatchId
           c == [b EXCEPT !.sold = @ + ddc]
           r == SellFrom(s, ddc)
<1>1. s \in Schedule /\ id \in BatchIds /\ b \in Batch /\ OpenedWell(b, id, t) /\ ~b.isClosed
  BY CurrentBatch DEF ScheduleInv
<1>2. s.batches \in [BatchIds -> Batch]
  BY <1>1 DEF Schedule
<1>3. c \in Batch
  BY <1>1 DEF Batch
<1>4. /\ c.priceUSDT = b.priceUSDT /\ c.rolloverIn = b.rolloverIn /\ c.hardCap = b.hardCap
      /\ c.startTime = b.startTime /\ c.endTime = b.endTime /\ c.isClosed = b.isClosed
      /\ c.sold = b.sold + ddc
  BY <1>1 DEF Batch
<1>5. r = [s EXCEPT !.batches = [s.batches EXCEPT ![id] = c]]
  BY DEF SellFrom
<1> HIDE DEF c, r
<1>6. r \in Schedule /\ r.currentBatchId = id /\ r.batches = [s.batches EXCEPT ![id] = c]
  BY <1>1, <1>2, <1>3, <1>5 DEF Schedule
<1>7. r.batches[id] = c /\ \A j \in BatchIds \ {id} : r.batches[j] = s.batches[j]
  BY <1>1, <1>2, <1>6
<1>8. OpenedWell(c, id, t)
  BY <1>1, <1>3, <1>4 DEF OpenedWell, FitsBatch, Batch
<1>9. ASSUME NEW a, Follows(b, a) PROVE Follows(c, a)
  BY <1>4, <1>9 DEF Follows
<1>10. ASSUME NEW j \in BatchIds, j < id PROVE Follows(r.batches[j+1], r.batches[j])
  <2>1. Follows(s.batches[j+1], s.batches[j])
    BY <1>10 DEF ScheduleInv
  <2>2. r.batches[j] = s.batches[j] /\ j + 1 \in BatchIds
    BY <1>1, <1>7, <1>10, ScheduleAssumption DEF BatchIds
  <2>3. CASE j + 1 = id
    BY <1>7, <1>9, <2>1, <2>2, <2>3
  <2>4. CASE j + 1 # id
    BY <1>7, <2>1, <2>2, <2>4
  <2> QED BY <2>3, <2>4
<1>11. ASSUME NEW j \in BatchIds, j <= id PROVE OpenedWell(r.batches[j], j, t)
  BY <1>7, <1>8, <1>11 DEF ScheduleInv
<1>12. ASSUME NEW j \in BatchIds, id < j PROVE r.batches[j] = Unopened
  BY <1>1, <1>7, <1>12 DEF ScheduleInv, BatchIds
<1>13. ScheduleInv(r, t)
  BY <1>1, <1>4, <1>6, <1>7, <1>10, <1>11, <1>12 DEF ScheduleInv
<1>14. Unsold(b) = ddc + Unsold(c) /\ Unsold(c) \in Nat
  BY <1>1, <1>3, <1>4 DEF Unsold, FitsBatch, Batch
<1>15. (TOTAL_BATCHES - id) * BATCH_BASE_ALLOCATION \in Int
  BY <1>1, ScheduleAssumption DEF BatchIds
<1>16. ddc + Remaining(r) = Remaining(s)
  BY <1>6, <1>7, <1>14, <1>15 DEF Remaining
<1> QED BY <1>13, <1>16 DEF r

\* Starting the presale
LEMMA StartedKeeps ==
  ASSUME TypeOK, SaleInv, currentBatchId = 0, NEW start \in Nat \ {0}
  PROVE  LET s == StartedSchedule(schedule, start)
         IN  /\ s \in Schedule /\ s.currentBatchId = 1
             /\ ScheduleInv(s, now) /\ Settled(s) /\ Remaining(s) = PRESALE_NOMINAL_TOTAL
<1> DEFINE s == StartedSchedule(schedule, start)
           b == OpenedBatch(1, 0, start)
<1>1. 1 \in BatchIds /\ TOTAL_BATCHES \in Nat \ {0} /\ BATCH_BASE_ALLOCATION \in Nat \ {0}
  BY ScheduleAssumption DEF BatchIds
<1>2. b \in Batch
  BY <1>1, OpenedBatchType
<1>3. batches = [id \in BatchIds |-> Unopened]
  BY DEF SaleInv, EmptySchedule
<1>4. s = [currentBatchId |-> 1, batches |-> [batches EXCEPT ![1] = b]]
  BY DEF StartedSchedule, schedule
<1>5. /\ b.priceUSDT = Prices[0] /\ b.hardCap = BATCH_BASE_ALLOCATION /\ b.sold = 0
      /\ b.startTime = start /\ b.endTime = start + BATCH_DURATION /\ ~b.isClosed
  BY <1>1 DEF OpenedBatch
<1> HIDE DEF s, b
<1>6. /\ s \in Schedule /\ s.currentBatchId = 1 /\ s.batches[1] = b
      /\ \A j \in BatchIds \ {1} : s.batches[j] = Unopened
  BY <1>1, <1>2, <1>3, <1>4, UnopenedType DEF Schedule
<1>7. OpenedWell(b, 1, now) /\ ~SoldOut(b) /\ Unsold(b) = BATCH_BASE_ALLOCATION
  BY <1>1, <1>5 DEF OpenedWell, SoldOut, Unsold
<1>8. ScheduleInv(s, now) /\ Settled(s)
  BY <1>1, <1>5, <1>6, <1>7 DEF ScheduleInv, Settled, BatchIds
<1>9. Remaining(s) = BATCH_BASE_ALLOCATION + (TOTAL_BATCHES - 1) * BATCH_BASE_ALLOCATION
  BY <1>6, <1>7 DEF Remaining
<1>10. \A k \in Nat \ {0}, a \in Nat : a + (k - 1) * a = k * a
  OBVIOUS
<1>11. Remaining(s) = PRESALE_NOMINAL_TOTAL
  BY <1>1, <1>9, <1>10 DEF PRESALE_NOMINAL_TOTAL
<1> QED BY <1>6, <1>8, <1>11 DEF s

---------------------------------------------------------------------------
(* Type correctness *)

LEMMA AddressesKnown ==
  /\ {OWNER, TREASURY, RELAYER, PRESALE, REWARD_POOL} \subseteq Addresses
  /\ Users \subseteq Addresses
  /\ PRESALE # OWNER /\ PRESALE # REWARD_POOL /\ PRESALE # TREASURY /\ REWARD_POOL # OWNER
  /\ PRESALE \notin Users /\ REWARD_POOL \notin Users /\ TREASURY \notin Users
BY UsersAssumption DEF Addresses, OWNER, TREASURY, RELAYER, PRESALE, REWARD_POOL

\* A sweep is covered by what it sweeps.
LEMMA SweptIsCovered ==
  ASSUME NEW bal \in Balances
  PROVE  SweptAmount(bal) \in Nat /\ CanTransfer(bal, PRESALE, SweptAmount(bal))
<1>1. bal[PRESALE] \in Nat
  BY AddressesKnown DEF Balances
<1>2. TREASURY_SWEEP_THRESHOLD_USDT \in Nat \ {0}
  BY PresaleAssumption
<1>3. \A a \in Nat, d \in Nat \ {0} : (a \div d) * d \in Nat /\ (a \div d) * d <= a
  OBVIOUS
<1> QED BY <1>1, <1>2, <1>3 DEF SweptAmount, CanTransfer

LEMMA AutoSweepType ==
  ASSUME NEW bal \in Balances
  PROVE  AutoSweep(bal) \in Balances
BY SweptIsCovered, TransferType, AddressesKnown DEF AutoSweep

LEMMA OwnerTypeOK ==
  ASSUME TypeOK, SaleInv, OwnerNext
  PROVE  TypeOK'
<1>1. ASSUME NEW start \in StartTimes, StartPresaleOnce(start) PROVE TypeOK'
  <2>1. start \in Nat \ {0} /\ currentBatchId = 0
    BY <1>1, InputAssumption DEF StartPresaleOnce, SaleInv
  <2>2. batches' \in [BatchIds -> Batch] /\ currentBatchId' \in 0..TOTAL_BATCHES
    BY <1>1, <2>1, StartedKeeps, SetScheduleIs DEF StartPresaleOnce
  <2> QED BY <1>1, <2>1, <2>2
          DEF TypeOK, StartPresaleOnce, salesVars, claimVars, tokenVars, poolVars, recorderVars,
              PoolTypeOK, RecorderTypeOK
<1>2. ASSUME SetRecorderOnce PROVE TypeOK'
  BY <1>2 DEF TypeOK, SetRecorderOnce, scheduleVars, salesVars, claimVars, tokenVars, poolVars,
              recorderVars, PoolTypeOK, RecorderTypeOK
<1>3. ASSUME Pause PROVE TypeOK'
  BY <1>3 DEF TypeOK, Pause, scheduleVars, salesVars, claimVars, tokenVars, poolVars,
              recorderVars, PoolTypeOK, RecorderTypeOK
<1>4. ASSUME Unpause PROVE TypeOK'
  BY <1>4 DEF TypeOK, Unpause, scheduleVars, salesVars, claimVars, tokenVars, poolVars,
              recorderVars, PoolTypeOK, RecorderTypeOK
<1>5. ASSUME NEW tge \in TgeTimes, SetTGE(tge) PROVE TypeOK'
  BY <1>5, InputAssumption
     DEF TypeOK, SetTGE, scheduleVars, salesVars, claimVars, tokenVars, poolVars,
         recorderVars, PoolTypeOK, RecorderTypeOK
<1>6. ASSUME NEW a \in PresaleLinks, LinkRewardPool(a) PROVE TypeOK'
  BY <1>6, InputAssumption
     DEF TypeOK, LinkRewardPool, SetPresaleOnce, ownerVars, scheduleVars, salesVars, claimVars,
         tokenVars, recorderVars, PoolTypeOK, RecorderTypeOK
<1>7. ASSUME NEW a \in Writers, ChangeWriter(a) PROVE TypeOK'
  BY <1>7, InputAssumption
     DEF TypeOK, ChangeWriter, SetWriter, ownerVars, scheduleVars, salesVars, claimVars,
         tokenVars, poolVars, PoolTypeOK, RecorderTypeOK
<1>8. ASSUME NEW amount \in FundAmounts, FundPresale(amount) PROVE TypeOK'
  <2>1. amount \in Nat
    BY InputAssumption
  <2>2. ddcBalance' \in Balances
    BY <1>8, <2>1, TransferType, AddressesKnown DEF FundPresale, TypeOK
  <2> QED BY <1>8, <2>2
          DEF TypeOK, FundPresale, ownerVars, scheduleVars, salesVars, claimVars, poolVars,
              recorderVars, PoolTypeOK, RecorderTypeOK
<1> QED BY <1>1, <1>2, <1>3, <1>4, <1>5, <1>6, <1>7, <1>8 DEF OwnerNext

\* The batch a purchase goes to
LEMMA BuyBatch ==
  ASSUME TypeOK, SaleInv, NEW u \in Users, NEW amount \in PurchaseAmounts, NEW id \in TxIds,
         BuyAllowed(u, amount, id),
         NEW s, s = Synced(schedule), NEW b, b = s.batches[s.currentBatchId],
         NEW ddc, ddc = AmountDDC(amount, b)
  PROVE  /\ s \in Schedule /\ s.currentBatchId \in BatchIds /\ b \in Batch
         /\ currentBatchId # 0 /\ ~finalized
         /\ BatchOpen(b) /\ FitsBatch(ddc, b)
         /\ ddc \in Nat /\ amount \in Nat
         /\ ScheduleInv(s, now) /\ Remaining(s) = Remaining(schedule)
         /\ BuyerPart(ddc) \in Nat /\ BurnPart(ddc) \in Nat
         /\ BuyerPart(ddc) + BurnPart(ddc) = ddc /\ BuyerPart(ddc) <= BurnPart(ddc)
<1>1. currentBatchId # 0 /\ ~finalized /\ BatchOpen(b) /\ FitsBatch(ddc, b)
  BY DEF BuyAllowed
<1>2. ScheduleInv(s, now) /\ Remaining(s) = Remaining(schedule)
  BY <1>1, SyncedSchedule
<1>3. s \in Schedule /\ s.currentBatchId \in BatchIds /\ b \in Batch
      /\ OpenedWell(b, s.currentBatchId, now)
  BY <1>2, CurrentBatch DEF ScheduleInv
<1>4. b.priceUSDT \in Nat \ {0}
  BY <1>3, ScheduleAssumption DEF OpenedWell, BatchIds
<1>5. amount \in Nat /\ amount * DDC_UNIT \in Nat
  <2>1. amount \in Nat
    BY InputAssumption
  <2>2. DDC_UNIT \in Nat
    BY PresaleAssumption
  <2> QED BY <2>1, <2>2
<1>6. ddc \in Nat
  BY <1>4, <1>5, DivMonotone DEF AmountDDC
<1>7. /\ BuyerPart(ddc) \in Nat /\ BurnPart(ddc) \in Nat
      /\ BuyerPart(ddc) + BurnPart(ddc) = ddc /\ BuyerPart(ddc) <= BurnPart(ddc)
  BY <1>6 DEF BuyerPart, BurnPart
<1> QED BY <1>1, <1>2, <1>3, <1>5, <1>6, <1>7

\* The schedule a purchase leaves
LEMMA BuySchedule ==
  ASSUME TypeOK, SaleInv, NEW u \in Users, NEW amount \in PurchaseAmounts, NEW id \in TxIds,
         BuyAllowed(u, amount, id),
         NEW s, s = Synced(schedule), NEW b, b = s.batches[s.currentBatchId],
         NEW ddc, ddc = AmountDDC(amount, b)
  PROVE  LET r == Synced(SellFrom(s, ddc))
         IN  /\ r \in Schedule /\ ScheduleInv(r, now) /\ Settled(r)
             /\ ddc + Remaining(r) = Remaining(schedule)
<1> DEFINE x == SellFrom(s, ddc)
<1>1. /\ ~finalized /\ BatchOpen(b) /\ FitsBatch(ddc, b) /\ ddc \in Nat
      /\ ScheduleInv(s, now) /\ Remaining(s) = Remaining(schedule)
  BY BuyBatch
<1>2. now \in Nat /\ ~b.isClosed /\ b.startTime <= now /\ now <= b.endTime
  BY <1>1 DEF BatchOpen, TypeOK
<1> HIDE DEF x
<1>3. ScheduleInv(x, now) /\ ddc + Remaining(x) = Remaining(s)
  BY <1>1, <1>2, SellFromKeeps DEF x
<1>4. /\ ScheduleInv(SyncLoop(x, now), now) /\ Settled(SyncLoop(x, now))
      /\ Remaining(SyncLoop(x, now)) = Remaining(x) /\ SyncLoop(x, now) \in Schedule
  BY <1>2, <1>3, SyncLoopSettles
<1>5. Synced(x) = SyncLoop(x, now)
  BY <1>1 DEF Synced
<1> QED BY <1>1, <1>3, <1>4, <1>5 DEF x

\* What is recorded has its type, whoever records it.
LEMMA RecordType ==
  ASSUME RecorderTypeOK, NEW caller, NEW u \in Users, NEW ddc \in Nat, NEW amount \in Nat,
         NEW ref \in SourceRefs, RecordPurchase(caller, u, ddc, amount, ref)
  PROVE  RecorderTypeOK'
<1> DEFINE e == [ddcAmount |-> ddc, payAmount |-> amount, sourceRef |-> ref]
<1>1. e \in RecorderEntry
  BY DEF RecorderEntry
<1>2. /\ recordedPurchases' = [recordedPurchases EXCEPT ![u] = Append(@, e)]
      /\ globalPurchases' = Append(globalPurchases, e)
      /\ recordedSourceRef' = recordedSourceRef \cup {ref} /\ writer' = writer
      /\ userTotals' = [userTotals EXCEPT ![u] = AddToTotals(@, ddc, amount)]
  BY DEF RecordPurchase
<1> HIDE DEF e
<1>3. /\ recordedPurchases \in [Users -> Seq(RecorderEntry)]
      /\ globalPurchases \in Seq(RecorderEntry) /\ userTotals \in [Users -> Totals]
  BY DEF RecorderTypeOK
<1>4. recordedPurchases' \in [Users -> Seq(RecorderEntry)]
  BY <1>1, <1>2, <1>3
<1>5. globalPurchases' \in Seq(RecorderEntry)
  BY <1>1, <1>2, <1>3
<1>6. userTotals' \in [Users -> Totals]
  BY <1>2, <1>3 DEF AddToTotals, Totals
<1> QED BY <1>2, <1>4, <1>5, <1>6 DEF RecorderTypeOK

LEMMA BuyTypeOK ==
  ASSUME TypeOK, SaleInv, NEW u \in Users, NEW amount \in PurchaseAmounts, NEW id \in TxIds,
         BuyWithUSDT(u, amount, id)
  PROVE  TypeOK'
<1> DEFINE s == Synced(schedule)
           b == s.batches[s.currentBatchId]
           ddc == AmountDDC(amount, b)
           r == Synced(SellFrom(s, ddc))
<1>1. BuyAllowed(u, amount, id) /\ CanTransfer(usdtBalance, u, amount)
  BY DEF BuyWithUSDT
<1>2. /\ s.currentBatchId \in BatchIds /\ ddc \in Nat /\ amount \in Nat
      /\ BuyerPart(ddc) \in Nat /\ BurnPart(ddc) \in Nat
  BY <1>1, BuyBatch
<1>3. r \in Schedule
  BY <1>1, BuySchedule
<1>4. /\ RecordSale(u, amount, ddc, s.currentBatchId, id)
      /\ NotifyRecorder(u, ddc, amount, id)
      /\ SetSchedule(r)
      /\ usdtBalance' = AutoSweep(Transfer(usdtBalance, u, PRESALE, amount))
      /\ UNCHANGED <<now, finalized, ownerVars, claimVars, ddcBalance, poolVars>>
  BY DEF BuyWithUSDT
<1> HIDE DEF s, b, ddc, r
<1>5. batches' \in [BatchIds -> Batch] /\ currentBatchId' \in 0..TOTAL_BATCHES
  BY <1>3, <1>4, SetScheduleIs
<1>6. usdtBalance' \in Balances
  <2>1. Transfer(usdtBalance, u, PRESALE, amount) \in Balances
    BY <1>1, <1>2, TransferType, AddressesKnown DEF TypeOK
  <2> QED BY <1>4, <2>1, AutoSweepType
<1>7. /\ usedTxIds' \in SUBSET TxIds
      /\ spentUsdtPerBatch' \in [BatchIds -> [Users -> Nat]]
      /\ totalPurchased' \in [Users -> Nat] /\ vestingPrincipal' \in [Users -> Nat]
      /\ totalNominalSold' \in Nat /\ totalBuyerPrincipal' \in Nat
      /\ totalBurnLockedFromSales' \in Nat
  <2>1. usedTxIds' \in SUBSET TxIds
    BY <1>4 DEF RecordSale, TypeOK
  <2>2. spentUsdtPerBatch' \in [BatchIds -> [Users -> Nat]]
    <3>1. /\ spentUsdtPerBatch \in [BatchIds -> [Users -> Nat]]
          /\ spentUsdtPerBatch' =
               [spentUsdtPerBatch EXCEPT ![s.currentBatchId][u] = @ + amount]
      BY <1>4 DEF RecordSale, TypeOK
    <3>2. [spentUsdtPerBatch[s.currentBatchId] EXCEPT ![u] = @ + amount] \in [Users -> Nat]
      BY <1>2, <3>1
    <3> QED BY <1>2, <3>1, <3>2
  <2>3. totalPurchased' \in [Users -> Nat] /\ vestingPrincipal' \in [Users -> Nat]
    <3>1. /\ totalPurchased \in [Users -> Nat] /\ vestingPrincipal \in [Users -> Nat]
          /\ totalPurchased' = [totalPurchased EXCEPT ![u] = @ + ddc]
          /\ vestingPrincipal' = [vestingPrincipal EXCEPT ![u] = @ + BuyerPart(ddc)]
      BY <1>4 DEF RecordSale, TypeOK
    <3> QED BY <1>2, <3>1
  <2>4. /\ totalNominalSold' \in Nat /\ totalBuyerPrincipal' \in Nat
        /\ totalBurnLockedFromSales' \in Nat
    <3>1. /\ totalNominalSold \in Nat /\ totalBuyerPrincipal \in Nat
          /\ totalBurnLockedFromSales \in Nat
          /\ totalNominalSold' = totalNominalSold + ddc
          /\ totalBuyerPrincipal' = totalBuyerPrincipal + BuyerPart(ddc)
          /\ totalBurnLockedFromSales' = totalBurnLockedFromSales + BurnPart(ddc)
      BY <1>4 DEF RecordSale, TypeOK
    <3> QED BY <1>2, <3>1
  <2> QED BY <2>1, <2>2, <2>3, <2>4
<1>8. userPurchases' \in [Users -> Seq(Purchase)]
  <2> DEFINE p == [batchId |-> s.currentBatchId, amountDDC |-> ddc,
                   paidUSDT |-> amount, txId |-> id]
  <2>1. p \in Purchase
    BY <1>2 DEF Purchase
  <2>2. userPurchases' = [userPurchases EXCEPT ![u] = Append(@, p)]
    BY <1>4 DEF RecordSale
  <2> HIDE DEF p
  <2>3. userPurchases \in [Users -> Seq(Purchase)]
    BY DEF TypeOK
  <2>4. Append(userPurchases[u], p) \in Seq(Purchase)
    BY <2>1, <2>3
  <2> QED BY <2>2, <2>3, <2>4
<1>9. RecorderTypeOK'
  <2>1. CASE recorderSet
    BY <1>2, <1>4, <2>1, RecordType, PresaleAssumption DEF NotifyRecorder, TypeOK
  <2>2. CASE ~recorderSet
    BY <1>4, <2>2 DEF NotifyRecorder, recorderVars, RecorderTypeOK, TypeOK
  <2> QED BY <2>1, <2>2
<1> QED BY <1>4, <1>5, <1>6, <1>7, <1>8, <1>9
        DEF TypeOK, ownerVars, claimVars, poolVars, PoolTypeOK

\* Nobody has claimed more than there is principal: the reserve finalize
\* computes is a natural number.
LEMMA ReserveIsNatural ==
  ASSUME TypeOK, AccountsInv
  PROVE  totalClaimed <= totalBuyerPrincipal /\ BuyerReserveRequired \in Nat
<1>1. ASSUME NEW u \in Users PROVE claimed[u] <= vestingPrincipal[u]
  <2>1. /\ claimed[u] \in Nat /\ vestingPrincipal[u] \in Nat
        /\ tgeTimestamp \in Nat /\ now \in Nat
    BY DEF TypeOK
  <2>2. Unlocked(u) \in Nat /\ Unlocked(u) <= vestingPrincipal[u]
    BY <2>1, UnlockedBounds DEF Unlocked
  <2>3. claimed[u] <= Unlocked(u)
    BY DEF AccountsInv
  <2> QED BY <2>1, <2>2, <2>3
<1>2. /\ claimed \in [Users -> Nat] /\ vestingPrincipal \in [Users -> Nat]
      /\ totalClaimed \in Nat /\ totalBuyerPrincipal \in Nat
  BY DEF TypeOK
<1>3. totalClaimed <= totalBuyerPrincipal
  BY <1>1, <1>2, SumMonotone, UsersAssumption DEF AccountsInv
<1> QED BY <1>2, <1>3 DEF BuyerReserveRequired

\* The presale is never oversold: what finalize leaves to the pool is positive.
LEMMA NeverOversold ==
  ASSUME TypeOK, SaleInv, HalvesInv
  PROVE  /\ totalNominalSold <= PRESALE_NOMINAL_TOTAL
         /\ ResidualToRewardPool \in Nat \ {0}
         /\ BurnTopUp \in Nat /\ BurnTopUp <= ResidualToRewardPool
<1>1. /\ totalNominalSold \in Nat /\ totalBuyerPrincipal \in Nat
      /\ totalBurnLockedFromSales \in Nat
  BY DEF TypeOK
<1>2. totalNominalSold <= PRESALE_NOMINAL_TOTAL
  <2>1. CASE currentBatchId = 0
    BY <2>1, NominalTotal DEF SaleInv
  <2>2. CASE currentBatchId # 0
    <3>1. /\ ScheduleInv(schedule, now)
          /\ totalNominalSold + Remaining(schedule) = PRESALE_NOMINAL_TOTAL
      BY <2>2 DEF SaleInv
    <3>2. /\ schedule.currentBatchId \in BatchIds
          /\ schedule.batches[schedule.currentBatchId] \in Batch
      BY <3>1, CurrentBatch
    <3>3. TOTAL_BATCHES - schedule.currentBatchId \in Nat /\ BATCH_BASE_ALLOCATION \in Nat
      BY <3>2, ScheduleAssumption DEF BatchIds
    <3>4. (TOTAL_BATCHES - schedule.currentBatchId) * BATCH_BASE_ALLOCATION \in Nat
      BY <3>3
    <3>5. Unsold(schedule.batches[schedule.currentBatchId]) \in Nat
      BY <3>2, UnsoldType
    <3>6. Remaining(schedule) \in Nat
      BY <3>4, <3>5 DEF Remaining
    <3> QED BY <1>1, <3>1, <3>6, NominalTotal
  <2> QED BY <2>1, <2>2
<1>3. ResidualToRewardPool \in Nat \ {0}
  BY <1>1, <1>2, NominalTotal DEF ResidualToRewardPool, HalvesInv
<1> QED BY <1>1, <1>2, <1>3, BurnAssumption DEF BurnTopUp

LEMMA ClaimableType ==
  ASSUME TypeOK, AccountsInv, NEW u \in Users
  PROVE  /\ Unlocked(u) \in Nat /\ Unlocked(u) <= vestingPrincipal[u]
         /\ claimable(u) \in Nat /\ claimed[u] + claimable(u) = Unlocked(u)
         /\ locked(u) \in Nat /\ Unlocked(u) + locked(u) = vestingPrincipal[u]
<1>1. /\ claimed[u] \in Nat /\ vestingPrincipal[u] \in Nat
      /\ tgeTimestamp \in Nat /\ now \in Nat
  BY DEF TypeOK
<1>2. Unlocked(u) \in Nat /\ Unlocked(u) <= vestingPrincipal[u]
  BY <1>1, UnlockedBounds DEF Unlocked
<1>3. claimed[u] <= Unlocked(u)
  BY DEF AccountsInv
<1> QED BY <1>1, <1>2, <1>3 DEF claimable, locked

LEMMA ClaimTypeOK ==
  ASSUME TypeOK, AccountsInv, NEW u \in Users, Claim(u)
  PROVE  TypeOK'
<1>1. claimable(u) \in Nat
  BY ClaimableType
<1>2. claimed' \in [Users -> Nat] /\ totalClaimed' \in Nat
  BY <1>1 DEF Claim, TypeOK
<1>3. ddcBalance' \in Balances
  BY <1>1, TransferType, AddressesKnown DEF Claim, TypeOK
<1> QED BY <1>2, <1>3
        DEF Claim, TypeOK, ownerVars, scheduleVars, salesVars, poolVars, recorderVars,
            PoolTypeOK, RecorderTypeOK

LEMMA FinalizeTypeOK ==
  ASSUME TypeOK, SaleInv, HalvesInv, AccountsInv, Finalize
  PROVE  TypeOK'
<1>1. /\ ResidualToRewardPool \in Nat /\ BurnTopUp \in Nat /\ BurnTopUp <= ResidualToRewardPool
      /\ BuyerReserveRequired \in Nat
  BY NeverOversold, ReserveIsNatural
<1>2. batches' \in [BatchIds -> Batch] /\ currentBatchId' \in 0..TOTAL_BATCHES
  BY SyncedSchedule, SetScheduleIs DEF Finalize
<1>3. ddcBalance' \in Balances
  <2>1. ddcBalance \in Balances /\ ddcBalance[PRESALE] \in Nat
    BY AddressesKnown DEF TypeOK, Balances
  <2>2. CanTransfer(ddcBalance, PRESALE, ResidualToRewardPool)
    BY <1>1, <2>1 DEF Finalize, CanFinalize, FinalizeFunded, CanTransfer
  <2> QED BY <1>1, <2>1, <2>2, TransferType, AddressesKnown DEF Finalize
<1>4. PoolTypeOK'
  BY <1>1 DEF Finalize, AccountPresaleReconciliation, TypeOK, PoolTypeOK
<1> QED BY <1>2, <1>3, <1>4
        DEF Finalize, TypeOK, ownerVars, salesVars, claimVars, recorderVars, RecorderTypeOK

LEMMA UsdtTypeOK ==
  ASSUME TypeOK,
         \/ SweepRaisedFundsToTreasury
         \/ WithdrawRaisedFunds
         \/ \E u \in Users, amount \in DirectUsdt : SendUsdt(u, amount)
  PROVE  TypeOK'
<1>1. usdtBalance \in Balances /\ usdtBalance[PRESALE] \in Nat
  BY AddressesKnown DEF TypeOK, Balances
<1>2. usdtBalance' \in Balances
  <2>1. CASE SweepRaisedFundsToTreasury
    BY <1>1, <2>1, AutoSweepType DEF SweepRaisedFundsToTreasury
  <2>2. CASE WithdrawRaisedFunds
    <3>1. CanTransfer(usdtBalance, PRESALE, usdtBalance[PRESALE])
      BY <1>1 DEF CanTransfer
    <3> QED BY <1>1, <2>2, <3>1, TransferType, AddressesKnown DEF WithdrawRaisedFunds
  <2>3. ASSUME NEW u \in Users, NEW amount \in DirectUsdt, SendUsdt(u, amount)
        PROVE  usdtBalance' \in Balances
    <3>1. amount \in Nat
      BY InputAssumption
    <3> QED BY <1>1, <2>3, <3>1, TransferType, AddressesKnown DEF SendUsdt
  <2> QED BY <2>1, <2>2, <2>3
<1>3. UNCHANGED <<now, finalized, ownerVars, scheduleVars, salesVars, claimVars, ddcBalance,
                  poolVars, recorderVars>>
  BY DEF SweepRaisedFundsToTreasury, WithdrawRaisedFunds, SendUsdt
<1> QED BY <1>2, <1>3
        DEF TypeOK, ownerVars, scheduleVars, salesVars, claimVars, poolVars, recorderVars,
            PoolTypeOK, RecorderTypeOK

LEMMA NextTypeOK ==
  ASSUME InductiveInv, [Next]_vars
  PROVE  TypeOK'
<1> USE DEF InductiveInv
<1>1. CASE OwnerNext
  BY <1>1, OwnerTypeOK
<1>2. CASE AdvanceIfEnded
  <2>1. batches' \in [BatchIds -> Batch] /\ currentBatchId' \in 0..TOTAL_BATCHES
    BY <1>2, SyncedSchedule, SetScheduleIs DEF AdvanceIfEnded
  <2> QED BY <1>2, <2>1
          DEF AdvanceIfEnded, TypeOK, ownerVars, salesVars, claimVars, tokenVars, poolVars,
              recorderVars, PoolTypeOK, RecorderTypeOK
<1>3. ASSUME NEW u \in Users, NEW amount \in PurchaseAmounts, NEW id \in TxIds,
             BuyWithUSDT(u, amount, id)
      PROVE  TypeOK'
  BY <1>3, BuyTypeOK
<1>4. ASSUME NEW u \in Users, Claim(u) PROVE TypeOK'
  BY <1>4, ClaimTypeOK
<1>5. CASE Finalize
  BY <1>5, FinalizeTypeOK
<1>6. CASE \/ SweepRaisedFundsToTreasury
           \/ WithdrawRaisedFunds
           \/ \E u \in Users, amount \in DirectUsdt : SendUsdt(u, amount)
  BY <1>6, UsdtTypeOK
<1>9. ASSUME NEW entry \in DirectRecords, RecordDirectly(entry) PROVE TypeOK'
  <2>1. RecorderTypeOK'
    BY <1>9, InputAssumption, RecordType DEF RecordDirectly, TypeOK
  <2> QED BY <1>9, <2>1
          DEF RecordDirectly, TypeOK, ownerVars, scheduleVars, salesVars, claimVars, tokenVars,
              poolVars, PoolTypeOK
<1>7. CASE Tick
  BY <1>7
     DEF Tick, TypeOK, ownerVars, scheduleVars, salesVars, claimVars, tokenVars, poolVars,
         recorderVars, PoolTypeOK, RecorderTypeOK
<1>8. CASE UNCHANGED vars
  BY <1>8
     DEF vars, TypeOK, ownerVars, scheduleVars, salesVars, claimVars, tokenVars, poolVars,
         recorderVars, PoolTypeOK, RecorderTypeOK
<1> QED BY <1>1, <1>2, <1>3, <1>4, <1>5, <1>6, <1>7, <1>8, <1>9 DEF Next

---------------------------------------------------------------------------
(* The schedule *)

\* Whoever sets a schedule that is right, settled and accounts for all DDC
LEMMA SaleInvFrom ==
  ASSUME NEW s \in Schedule, SetSchedule(s), s.currentBatchId # 0, presaleStart' # 0,
         ScheduleInv(s, now'), Settled(s),
         totalNominalSold' + Remaining(s) = PRESALE_NOMINAL_TOTAL
  PROVE  SaleInv'
<1>1. schedule' = s /\ currentBatchId' = s.currentBatchId
  BY SetScheduleIs DEF SetSchedule
<1> QED BY <1>1 DEF SaleInv

LEMMA NextSaleInv ==
  ASSUME InductiveInv, [Next]_vars
  PROVE  SaleInv'
<1> USE DEF InductiveInv
<1> DEFINE s == Synced(schedule)
<1>1. ASSUME NEW start \in StartTimes, StartPresaleOnce(start) PROVE SaleInv'
  <2> DEFINE r == StartedSchedule(schedule, start)
  <2>1. start \in Nat \ {0} /\ currentBatchId = 0 /\ totalNominalSold = 0
    BY <1>1, InputAssumption DEF StartPresaleOnce, SaleInv
  <2>2. /\ r \in Schedule /\ r.currentBatchId = 1
        /\ ScheduleInv(r, now) /\ Settled(r) /\ Remaining(r) = PRESALE_NOMINAL_TOTAL
    BY <2>1, StartedKeeps
  <2>3. /\ SetSchedule(r) /\ presaleStart' = start /\ now' = now
        /\ totalNominalSold' = totalNominalSold
    BY <1>1 DEF StartPresaleOnce, salesVars
  <2> HIDE DEF r
  <2>4. totalNominalSold' + Remaining(r) = PRESALE_NOMINAL_TOTAL
    BY <2>1, <2>2, <2>3, NominalTotal
  <2> QED BY <2>1, <2>2, <2>3, <2>4, SaleInvFrom
<1>2. ASSUME SetSchedule(s), UNCHANGED <<now, presaleStart, totalNominalSold>>,
             currentBatchId = 0 => finalized' = finalized
      PROVE  SaleInv'
  <2>1. CASE currentBatchId = 0
    <3>1. s = schedule
      BY <2>1, SyncedSchedule
    <3>2. currentBatchId' = currentBatchId /\ batches' = batches
      BY <1>2, <3>1 DEF SetSchedule, schedule
    <3> QED BY <1>2, <2>1, <3>2 DEF SaleInv
  <2>2. CASE currentBatchId # 0
    <3>1. /\ s \in Schedule /\ ScheduleInv(s, now) /\ Settled(s)
          /\ Remaining(s) = Remaining(schedule)
      BY <2>2, SyncedSchedule
    <3>2. /\ totalNominalSold + Remaining(schedule) = PRESALE_NOMINAL_TOTAL
          /\ presaleStart # 0
      BY <2>2 DEF SaleInv
    <3>3. s.currentBatchId # 0
      BY <3>1 DEF ScheduleInv
    <3> HIDE DEF s
    <3> QED BY <1>2, <3>1, <3>2, <3>3, SaleInvFrom
  <2> QED BY <2>1, <2>2
<1>3. CASE AdvanceIfEnded
  BY <1>2, <1>3 DEF AdvanceIfEnded, ownerVars, salesVars
<1>4. CASE Finalize
  <2>1. currentBatchId # 0
    <3>1. s.currentBatchId = TOTAL_BATCHES /\ TOTAL_BATCHES # 0
      BY <1>4, ScheduleAssumption DEF Finalize, CanFinalize, LastBatchOver
    <3> QED BY <3>1, SyncedSchedule DEF schedule
  <2> QED BY <1>2, <1>4, <2>1 DEF Finalize, ownerVars, salesVars
<1>5. ASSUME NEW u \in Users, NEW amount \in PurchaseAmounts, NEW id \in TxIds,
             BuyWithUSDT(u, amount, id)
      PROVE  SaleInv'
  <2> DEFINE b == s.batches[s.currentBatchId]
             ddc == AmountDDC(amount, b)
             r == Synced(SellFrom(s, ddc))
  <2>1. BuyAllowed(u, amount, id)
    BY <1>5 DEF BuyWithUSDT
  <2>2. ddc \in Nat /\ currentBatchId # 0
    BY <2>1, BuyBatch
  <2>3. /\ r \in Schedule /\ ScheduleInv(r, now) /\ Settled(r)
        /\ ddc + Remaining(r) = Remaining(schedule)
    BY <2>1, BuySchedule
  <2>4. /\ SetSchedule(r) /\ totalNominalSold' = totalNominalSold + ddc
        /\ now' = now /\ presaleStart' = presaleStart
    BY <1>5 DEF BuyWithUSDT, RecordSale, ownerVars
  <2> HIDE DEF s, b, ddc, r
  <2>5. /\ totalNominalSold + Remaining(schedule) = PRESALE_NOMINAL_TOTAL
        /\ presaleStart # 0 /\ totalNominalSold \in Nat
    BY <2>2 DEF SaleInv, TypeOK
  <2>6. Remaining(r) \in Int
    <3>1. r.currentBatchId \in BatchIds /\ r.batches[r.currentBatchId] \in Batch
      BY <2>3, CurrentBatch
    <3>2. (TOTAL_BATCHES - r.currentBatchId) * BATCH_BASE_ALLOCATION \in Int
      BY <3>1, ScheduleAssumption DEF BatchIds
    <3> QED BY <3>1, <3>2, UnsoldType DEF Remaining
  <2>7. totalNominalSold' + Remaining(r) = PRESALE_NOMINAL_TOTAL
    BY <2>2, <2>3, <2>4, <2>5, <2>6
  <2>8. r.currentBatchId # 0 /\ presaleStart' # 0 /\ ScheduleInv(r, now')
    BY <2>3, <2>4, <2>5 DEF ScheduleInv
  <2> QED BY <2>3, <2>4, <2>7, <2>8, SaleInvFrom
<1>6. CASE Tick
  <2>1. /\ UNCHANGED <<presaleStart, currentBatchId, batches, totalNominalSold, finalized>>
        /\ now \in Nat /\ now' \in Nat /\ now <= now'
    BY <1>6 DEF Tick, TypeOK, ownerVars, scheduleVars, salesVars
  <2>2. schedule' = schedule
    BY <2>1 DEF schedule
  <2>3. ASSUME ScheduleInv(schedule, now), Settled(schedule) PROVE ScheduleInv(schedule, now')
    BY <2>1, <2>3, LaterInv
  <2> QED BY <2>1, <2>2, <2>3 DEF SaleInv
<1>7. ASSUME UNCHANGED <<now, presaleStart, scheduleVars, totalNominalSold, finalized>>
      PROVE  SaleInv'
  BY <1>7 DEF SaleInv, scheduleVars, schedule
<1>8. ASSUME \/ SetRecorderOnce \/ Pause \/ Unpause
             \/ \E t \in TgeTimes : SetTGE(t)
             \/ \E a \in PresaleLinks : LinkRewardPool(a)
             \/ \E a \in Writers : ChangeWriter(a)
             \/ \E entry \in DirectRecords : RecordDirectly(entry)
             \/ \E amount \in FundAmounts : FundPresale(amount)
             \/ \E u \in Users : Claim(u)
             \/ SweepRaisedFundsToTreasury \/ WithdrawRaisedFunds
             \/ \E u \in Users, amount \in DirectUsdt : SendUsdt(u, amount)
             \/ UNCHANGED vars
      PROVE  SaleInv'
  BY <1>7, <1>8
     DEF SetRecorderOnce, Pause, Unpause, SetTGE, LinkRewardPool, ChangeWriter, RecordDirectly,
         FundPresale,
         Claim, SweepRaisedFundsToTreasury, WithdrawRaisedFunds, SendUsdt, vars, ownerVars,
         salesVars
<1> QED BY <1>1, <1>3, <1>4, <1>5, <1>6, <1>8 DEF Next, OwnerNext

LEMMA NextHalvesInv ==
  ASSUME InductiveInv, [Next]_vars
  PROVE  HalvesInv'
<1> USE DEF InductiveInv
<1>1. ASSUME NEW u \in Users, NEW amount \in PurchaseAmounts, NEW id \in TxIds,
             BuyWithUSDT(u, amount, id)
      PROVE  HalvesInv'
  <2> DEFINE s == Synced(schedule)
             ddc == AmountDDC(amount, s.batches[s.currentBatchId])
  <2>1. /\ ddc \in Nat /\ BuyerPart(ddc) \in Nat /\ BurnPart(ddc) \in Nat
        /\ BuyerPart(ddc) + BurnPart(ddc) = ddc /\ BuyerPart(ddc) <= BurnPart(ddc)
    BY <1>1, BuyBatch DEF BuyWithUSDT
  <2>2. /\ totalNominalSold' = totalNominalSold + ddc
        /\ totalBuyerPrincipal' = totalBuyerPrincipal + BuyerPart(ddc)
        /\ totalBurnLockedFromSales' = totalBurnLockedFromSales + BurnPart(ddc)
    BY <1>1 DEF BuyWithUSDT, RecordSale
  <2>3. /\ totalNominalSold \in Nat /\ totalBuyerPrincipal \in Nat
        /\ totalBurnLockedFromSales \in Nat
        /\ totalBuyerPrincipal + totalBurnLockedFromSales = totalNominalSold
        /\ totalBuyerPrincipal <= totalBurnLockedFromSales
    BY DEF TypeOK, HalvesInv
  <2> HIDE DEF ddc, InductiveInv
  <2> QED BY <2>1, <2>2, <2>3 DEF HalvesInv
<1>2. ASSUME UNCHANGED <<totalNominalSold, totalBuyerPrincipal, totalBurnLockedFromSales>>
      PROVE  HalvesInv'
  BY <1>2 DEF HalvesInv
<1> QED BY <1>1, <1>2
        DEF Next, OwnerNext, StartPresaleOnce, SetRecorderOnce, Pause, Unpause, SetTGE,
            LinkRewardPool, ChangeWriter, RecordDirectly,
            FundPresale, AdvanceIfEnded, Claim, Finalize,
            SweepRaisedFundsToTreasury, WithdrawRaisedFunds, SendUsdt, Tick, vars, salesVars

---------------------------------------------------------------------------
(* The buyers' accounts *)

\* A step takes no principal away, turns no clock back and moves no TGE.
LEMMA StepMonotone ==
  ASSUME InductiveInv, [Next]_vars, NEW u \in Users
  PROVE  /\ vestingPrincipal'[u] \in Nat /\ vestingPrincipal[u] <= vestingPrincipal'[u]
         /\ now' \in Nat /\ now <= now'
         /\ tgeTimestamp' \in Nat /\ (tgeTimestamp' = tgeTimestamp \/ tgeTimestamp = 0)
<1>1. /\ vestingPrincipal \in [Users -> Nat] /\ now \in Nat /\ tgeTimestamp \in Nat
      /\ TypeOK /\ SaleInv
  BY DEF InductiveInv, TypeOK
<1>2. /\ vestingPrincipal' \in [Users -> Nat] /\ now' \in Nat /\ tgeTimestamp' \in Nat
  BY NextTypeOK DEF TypeOK
<1>3. vestingPrincipal[u] <= vestingPrincipal'[u]
  <2>1. ASSUME NEW v \in Users, NEW amount \in PurchaseAmounts, NEW id \in TxIds,
               BuyWithUSDT(v, amount, id)
        PROVE  vestingPrincipal[u] <= vestingPrincipal'[u]
    <3> DEFINE s == Synced(schedule)
               part == BuyerPart(AmountDDC(amount, s.batches[s.currentBatchId]))
    <3>1. part \in Nat
      BY <1>1, <2>1, BuyBatch DEF BuyWithUSDT
    <3>2. vestingPrincipal' = [vestingPrincipal EXCEPT ![v] = @ + part]
      BY <2>1 DEF BuyWithUSDT, RecordSale
    <3> HIDE DEF part
    <3> QED BY <1>1, <3>1, <3>2
  <2>2. ASSUME UNCHANGED vestingPrincipal PROVE vestingPrincipal[u] <= vestingPrincipal'[u]
    BY <1>1, <2>2
  <2> QED BY <2>1, <2>2
          DEF Next, OwnerNext, StartPresaleOnce, SetRecorderOnce, Pause, Unpause, SetTGE,
              LinkRewardPool, ChangeWriter, RecordDirectly,
              FundPresale, AdvanceIfEnded, Claim, Finalize,
              SweepRaisedFundsToTreasury, WithdrawRaisedFunds, SendUsdt, Tick, vars, salesVars
<1>4. now <= now'
  <2>1. CASE Tick
    BY <1>1, <2>1 DEF Tick
  <2>2. ASSUME UNCHANGED now PROVE now <= now'
    BY <1>1, <2>2
  <2> QED BY <2>1, <2>2
          DEF Next, OwnerNext, StartPresaleOnce, SetRecorderOnce, Pause, Unpause, SetTGE,
              LinkRewardPool, ChangeWriter, RecordDirectly,
              FundPresale, AdvanceIfEnded, BuyWithUSDT, Claim,
              Finalize, SweepRaisedFundsToTreasury, WithdrawRaisedFunds, SendUsdt, vars
<1>5. tgeTimestamp' = tgeTimestamp \/ tgeTimestamp = 0
  BY DEF Next, OwnerNext, StartPresaleOnce, SetRecorderOnce, Pause, Unpause, SetTGE,
         LinkRewardPool, ChangeWriter, RecordDirectly,
         FundPresale, AdvanceIfEnded, BuyWithUSDT, Claim,
         Finalize, SweepRaisedFundsToTreasury, WithdrawRaisedFunds, SendUsdt, Tick, vars,
         ownerVars
<1> QED BY <1>1, <1>2, <1>3, <1>4, <1>5

LEMMA StepUnlocks ==
  ASSUME InductiveInv, [Next]_vars, NEW u \in Users
  PROVE  /\ Unlocked(u) \in Nat /\ Unlocked(u)' \in Nat
         /\ Unlocked(u) <= Unlocked(u)'
<1>1. /\ vestingPrincipal[u] \in Nat /\ now \in Nat /\ tgeTimestamp \in Nat
  BY DEF InductiveInv, TypeOK
<1>2. /\ vestingPrincipal'[u] \in Nat /\ vestingPrincipal[u] <= vestingPrincipal'[u]
      /\ now' \in Nat /\ now <= now'
      /\ tgeTimestamp' \in Nat /\ (tgeTimestamp' = tgeTimestamp \/ tgeTimestamp = 0)
  BY StepMonotone
<1>3. UnlockedTotal(vestingPrincipal[u], tgeTimestamp, now)
        <= UnlockedTotal(vestingPrincipal'[u], tgeTimestamp', now')
  BY <1>1, <1>2, UnlockedGrows
<1>4. /\ UnlockedTotal(vestingPrincipal[u], tgeTimestamp, now) \in Nat
      /\ UnlockedTotal(vestingPrincipal'[u], tgeTimestamp', now') \in Nat
  BY <1>1, <1>2, UnlockedBounds
<1> QED BY <1>3, <1>4 DEF Unlocked

LEMMA NextAccountsInv ==
  ASSUME InductiveInv, [Next]_vars
  PROVE  AccountsInv'
<1>1. /\ vestingPrincipal \in [Users -> Nat] /\ claimed \in [Users -> Nat]
      /\ totalBuyerPrincipal \in Nat /\ totalClaimed \in Nat
      /\ SumFunction(vestingPrincipal) = totalBuyerPrincipal /\ SumFunction(claimed) = totalClaimed
      /\ \A u \in Users : claimed[u] <= Unlocked(u)
      /\ TypeOK /\ SaleInv /\ AccountsInv
  BY DEF InductiveInv, TypeOK, AccountsInv
<1>2. SumFunction(vestingPrincipal') = totalBuyerPrincipal'
  <2>1. ASSUME NEW v \in Users, NEW amount \in PurchaseAmounts, NEW id \in TxIds,
               BuyWithUSDT(v, amount, id)
        PROVE  SumFunction(vestingPrincipal') = totalBuyerPrincipal'
    <3> DEFINE s == Synced(schedule)
               part == BuyerPart(AmountDDC(amount, s.batches[s.currentBatchId]))
    <3>1. part \in Nat
      BY <1>1, <2>1, BuyBatch DEF BuyWithUSDT
    <3>2. /\ vestingPrincipal' = [vestingPrincipal EXCEPT ![v] = @ + part]
          /\ totalBuyerPrincipal' = totalBuyerPrincipal + part
      BY <2>1 DEF BuyWithUSDT, RecordSale
    <3> HIDE DEF part
    <3>3. /\ vestingPrincipal' \in [Users -> Nat] /\ vestingPrincipal'[v] = vestingPrincipal[v] + part
          /\ \A u \in Users \ {v} : vestingPrincipal'[u] = vestingPrincipal[u]
      BY <1>1, <3>1, <3>2
    <3>4. SumFunction(vestingPrincipal') = SumFunction(vestingPrincipal) + part
      BY <1>1, <3>1, <3>3, SumRaise, UsersAssumption
    <3> QED BY <1>1, <3>2, <3>4
  <2>2. ASSUME UNCHANGED <<vestingPrincipal, totalBuyerPrincipal>>
        PROVE  SumFunction(vestingPrincipal') = totalBuyerPrincipal'
    BY <1>1, <2>2
  <2> QED BY <2>1, <2>2
          DEF Next, OwnerNext, StartPresaleOnce, SetRecorderOnce, Pause, Unpause, SetTGE,
              LinkRewardPool, ChangeWriter, RecordDirectly,
              FundPresale, AdvanceIfEnded, Claim, Finalize,
              SweepRaisedFundsToTreasury, WithdrawRaisedFunds, SendUsdt, Tick, vars, salesVars
<1>3. \A u \in Users : Unlocked(u) \in Nat /\ Unlocked(u)' \in Nat /\ Unlocked(u) <= Unlocked(u)'
  BY StepUnlocks
<1>4. SumFunction(claimed') = totalClaimed' /\ \A u \in Users : claimed'[u] <= Unlocked(u)'
  <2>1. ASSUME NEW v \in Users, Claim(v)
        PROVE  SumFunction(claimed') = totalClaimed' /\ \A u \in Users : claimed'[u] <= Unlocked(u)'
    <3>1. claimable(v) \in Nat /\ claimed[v] + claimable(v) = Unlocked(v)
      BY <1>1, ClaimableType
    <3>2. /\ claimed' = [claimed EXCEPT ![v] = @ + claimable(v)]
          /\ totalClaimed' = totalClaimed + claimable(v)
      BY <2>1 DEF Claim
    <3>3. SumFunction(claimed') = totalClaimed'
      <4>1. /\ claimed' \in [Users -> Nat] /\ claimed'[v] = claimed[v] + claimable(v)
            /\ \A u \in Users \ {v} : claimed'[u] = claimed[u]
        BY <1>1, <3>1, <3>2
      <4>2. SumFunction(claimed') = SumFunction(claimed) + claimable(v)
        BY <1>1, <3>1, <4>1, SumRaise, UsersAssumption
      <4> QED BY <1>1, <3>2, <4>2
    <3>4. ASSUME NEW u \in Users PROVE claimed'[u] <= Unlocked(u)
      BY <1>1, <1>3, <3>1, <3>2
    <3>5. ASSUME NEW u \in Users PROVE claimed'[u] <= Unlocked(u)'
      <4>1. claimed'[u] \in Nat
        BY <1>1, <3>1, <3>2
      <4> QED BY <1>3, <3>4, <4>1
    <3> QED BY <3>3, <3>5
  <2>2. ASSUME UNCHANGED claimVars
        PROVE  SumFunction(claimed') = totalClaimed' /\ \A u \in Users : claimed'[u] <= Unlocked(u)'
    <3>1. claimed' = claimed /\ totalClaimed' = totalClaimed
      BY <2>2 DEF claimVars
    <3>2. ASSUME NEW u \in Users PROVE claimed'[u] <= Unlocked(u)'
      <4>1. claimed[u] \in Nat /\ claimed[u] <= Unlocked(u)
        BY <1>1
      <4> QED BY <1>3, <3>1, <4>1
    <3> QED BY <1>1, <3>1, <3>2
  <2> QED BY <2>1, <2>2
          DEF Next, OwnerNext, StartPresaleOnce, SetRecorderOnce, Pause, Unpause, SetTGE,
              LinkRewardPool, ChangeWriter, RecordDirectly,
              FundPresale, AdvanceIfEnded, BuyWithUSDT, Finalize,
              SweepRaisedFundsToTreasury, WithdrawRaisedFunds, SendUsdt, Tick, vars
<1> QED BY <1>2, <1>4 DEF AccountsInv

---------------------------------------------------------------------------
(* What the pool and the presale hold *)

LEMMA FinalizeHoldings ==
  ASSUME InductiveInv, Finalize
  PROVE  HoldingsInv'
<1>1. /\ TypeOK /\ SaleInv /\ HalvesInv /\ AccountsInv /\ HoldingsInv
      /\ ~finalized
  BY DEF InductiveInv, Finalize, CanFinalize
<1>2. /\ ResidualToRewardPool \in Nat /\ BurnTopUp \in Nat /\ BurnTopUp <= ResidualToRewardPool
      /\ BuyerReserveRequired \in Nat
  BY <1>1, NeverOversold, ReserveIsNatural
<1>3. /\ ddcBalance \in Balances /\ ddcBalance[PRESALE] \in Nat /\ ddcBalance[REWARD_POOL] \in Nat
  BY <1>1, AddressesKnown DEF TypeOK, Balances
<1>4. /\ cumulativeBurnAccounted = 0 /\ burnLockedBalance = 0
      /\ rewardEligibleBalance \in Nat /\ rewardEligibleBalance <= ddcBalance[REWARD_POOL]
  BY <1>1, <1>3 DEF HoldingsInv, PoolBacked, totalAccounted, TypeOK, PoolTypeOK
<1>5. /\ finalized'
      /\ ddcBalance' = Transfer(ddcBalance, PRESALE, REWARD_POOL, ResidualToRewardPool)
      /\ burnLockedBalance' = burnLockedBalance + BurnTopUp
      /\ rewardEligibleBalance' = rewardEligibleBalance + (ResidualToRewardPool - BurnTopUp)
      /\ cumulativeBurnAccounted' = cumulativeBurnAccounted + BurnTopUp
      /\ cumulativeBurnAccounted + BurnTopUp <= MAX_BURN_CAP
      /\ UNCHANGED <<totalBuyerPrincipal, totalBurnLockedFromSales, totalClaimed>>
  BY DEF Finalize, AccountPresaleReconciliation, ReconciliationAccepted, salesVars, claimVars
<1>6. /\ ddcBalance'[PRESALE] = ddcBalance[PRESALE] - ResidualToRewardPool
      /\ ddcBalance'[REWARD_POOL] = ddcBalance[REWARD_POOL] + ResidualToRewardPool
  BY <1>2, <1>3, <1>5, TransferMoves, AddressesKnown
<1>7. PoolBacked'
  <2>1. burnLockedBalance' = BurnTopUp /\ cumulativeBurnAccounted' = BurnTopUp
    BY <1>2, <1>4, <1>5
  <2>2. burnLockedBalance' + rewardEligibleBalance' <= ddcBalance'[REWARD_POOL]
    BY <1>2, <1>3, <1>4, <1>5, <1>6, <2>1
  <2>3. burnLockedBalance' <= MAX_BURN_CAP
    BY <1>2, <1>4, <1>5, <2>1
  <2>4. LET missing == IF BurnTopUp >= PRESALE_BURN_TARGET THEN 0
                       ELSE PRESALE_BURN_TARGET - BurnTopUp
        IN  /\ missing = IF totalBurnLockedFromSales < PRESALE_BURN_TARGET
                         THEN totalBurnLockedFromSales ELSE PRESALE_BURN_TARGET
            /\ missing <= ResidualToRewardPool - BurnTopUp
    <3>1. /\ totalBurnLockedFromSales \in Nat /\ totalBuyerPrincipal \in Nat
          /\ totalBuyerPrincipal <= totalBurnLockedFromSales
          /\ totalBuyerPrincipal + totalBurnLockedFromSales = totalNominalSold
          /\ totalNominalSold <= PRESALE_NOMINAL_TOTAL
      BY <1>1, NeverOversold DEF TypeOK, HalvesInv
    <3>2. PRESALE_BURN_TARGET \in Nat /\ 2 * PRESALE_BURN_TARGET <= PRESALE_NOMINAL_TOTAL
      BY BurnAssumption, PresaleAssumption
    <3>3. /\ 2 * totalBuyerPrincipal <= PRESALE_NOMINAL_TOTAL
          /\ PRESALE_BURN_TARGET <= PRESALE_NOMINAL_TOTAL - totalBuyerPrincipal
      BY <3>1, <3>2, NominalTotal
    <3>4. BurnTopUp = IF totalBurnLockedFromSales >= PRESALE_BURN_TARGET THEN 0
                      ELSE PRESALE_BURN_TARGET - totalBurnLockedFromSales
      BY <3>1, <3>2, <3>3, NominalTotal DEF BurnTopUp, ResidualToRewardPool
    <3> QED BY <3>1, <3>2, <3>3, <3>4, NominalTotal DEF ResidualToRewardPool
  <2>5. /\ remainingPresaleBurnTarget' =
             IF totalBurnLockedFromSales' < PRESALE_BURN_TARGET
             THEN totalBurnLockedFromSales' ELSE PRESALE_BURN_TARGET
        /\ remainingPresaleBurnTarget' <= rewardEligibleBalance'
    <3>1. /\ remainingPresaleBurnTarget' = IF BurnTopUp >= PRESALE_BURN_TARGET THEN 0
                                           ELSE PRESALE_BURN_TARGET - BurnTopUp
          /\ totalBurnLockedFromSales' = totalBurnLockedFromSales
      BY <1>5, <2>1 DEF remainingPresaleBurnTarget
    <3>2. /\ PRESALE_BURN_TARGET \in Nat /\ rewardEligibleBalance \in Nat
          /\ totalBurnLockedFromSales \in Nat
      BY <1>1, BurnAssumption DEF TypeOK, PoolTypeOK
    <3>3. /\ ResidualToRewardPool - BurnTopUp \in Nat
          /\ rewardEligibleBalance' = rewardEligibleBalance + (ResidualToRewardPool - BurnTopUp)
      BY <1>2, <1>4, <1>5
    <3> QED BY <2>4, <3>1, <3>2, <3>3
  <2> QED BY <2>1, <2>2, <2>3, <2>5 DEF PoolBacked, totalAccounted
<1>8. ReserveCoversClaims'
  <2>1. ddcBalance[PRESALE] >= BuyerReserveRequired + ResidualToRewardPool
    BY DEF Finalize, CanFinalize, FinalizeFunded
  <2>2. ddcBalance'[PRESALE] >= BuyerReserveRequired
    BY <1>2, <1>3, <1>6, <2>1
  <2> QED BY <1>5, <2>2 DEF ReserveCoversClaims, BuyerReserveRequired
<1> QED BY <1>5, <1>7, <1>8 DEF HoldingsInv

LEMMA ClaimHoldings ==
  ASSUME InductiveInv, NEW u \in Users, Claim(u)
  PROVE  HoldingsInv'
<1>1. TypeOK /\ AccountsInv /\ HoldingsInv
  BY DEF InductiveInv
<1>2. /\ ddcBalance \in Balances /\ ddcBalance[PRESALE] \in Nat
      /\ totalClaimed \in Nat /\ totalBuyerPrincipal \in Nat
  BY <1>1, AddressesKnown DEF TypeOK, Balances
<1>3. claimable(u) \in Nat
  BY <1>1, ClaimableType
<1>4. /\ ddcBalance' = Transfer(ddcBalance, PRESALE, u, claimable(u))
      /\ totalClaimed' = totalClaimed + claimable(u)
      /\ UNCHANGED <<finalized, salesVars, poolVars>>
  BY DEF Claim
<1>5. /\ u \in Addresses /\ PRESALE \in Addresses /\ u # PRESALE
      /\ REWARD_POOL \in Addresses \ {PRESALE, u}
  BY AddressesKnown
<1>6. /\ ddcBalance'[PRESALE] = ddcBalance[PRESALE] - claimable(u)
      /\ ddcBalance'[REWARD_POOL] = ddcBalance[REWARD_POOL]
  BY <1>2, <1>3, <1>4, <1>5, TransferMoves
<1>7. PoolBacked'
  BY <1>1, <1>4, <1>6
     DEF HoldingsInv, PoolBacked, totalAccounted, remainingPresaleBurnTarget, salesVars, poolVars
<1>8. ReserveCoversClaims'
  <2>1. ASSUME finalized' PROVE ddcBalance'[PRESALE] >= totalBuyerPrincipal' - totalClaimed'
    <3>1. totalBuyerPrincipal' = totalBuyerPrincipal /\ finalized
      BY <1>4, <2>1 DEF salesVars
    <3>2. ddcBalance[PRESALE] >= totalBuyerPrincipal - totalClaimed
      BY <1>1, <3>1 DEF HoldingsInv, ReserveCoversClaims
    <3> QED BY <1>2, <1>3, <1>4, <1>6, <3>1, <3>2
  <2> QED BY <2>1 DEF ReserveCoversClaims
<1> QED BY <1>1, <1>4, <1>7, <1>8 DEF HoldingsInv, poolVars

LEMMA FundHoldings ==
  ASSUME InductiveInv, NEW amount \in FundAmounts, FundPresale(amount)
  PROVE  HoldingsInv'
<1>1. TypeOK /\ HoldingsInv /\ AccountsInv
  BY DEF InductiveInv
<1>2. /\ ddcBalance \in Balances /\ ddcBalance[PRESALE] \in Nat
      /\ totalClaimed \in Nat /\ totalBuyerPrincipal \in Nat /\ amount \in Nat
  BY <1>1, AddressesKnown, InputAssumption DEF TypeOK, Balances
<1>3. /\ ddcBalance' = Transfer(ddcBalance, OWNER, PRESALE, amount)
      /\ UNCHANGED <<finalized, salesVars, claimVars, poolVars>>
  BY DEF FundPresale
<1>4. OWNER \in Addresses /\ PRESALE \in Addresses /\ OWNER # PRESALE
      /\ REWARD_POOL \in Addresses \ {OWNER, PRESALE}
  BY AddressesKnown
<1>5. /\ ddcBalance'[PRESALE] = ddcBalance[PRESALE] + amount
      /\ ddcBalance'[REWARD_POOL] = ddcBalance[REWARD_POOL]
  BY <1>2, <1>3, <1>4, TransferMoves
<1>6. PoolBacked'
  BY <1>1, <1>3, <1>5
     DEF HoldingsInv, PoolBacked, totalAccounted, remainingPresaleBurnTarget, salesVars, poolVars
<1>7. ReserveCoversClaims'
  <2>1. ASSUME finalized' PROVE ddcBalance'[PRESALE] >= totalBuyerPrincipal' - totalClaimed'
    <3>1. /\ totalBuyerPrincipal' = totalBuyerPrincipal /\ totalClaimed' = totalClaimed
          /\ finalized
      BY <1>3, <2>1 DEF salesVars, claimVars
    <3>2. ddcBalance[PRESALE] >= totalBuyerPrincipal - totalClaimed
      BY <1>1, <3>1 DEF HoldingsInv, ReserveCoversClaims
    <3> QED BY <1>2, <1>5, <3>1, <3>2
  <2> QED BY <2>1 DEF ReserveCoversClaims
<1> QED BY <1>1, <1>3, <1>6, <1>7 DEF HoldingsInv, poolVars

LEMMA NextHoldingsInv ==
  ASSUME InductiveInv, [Next]_vars
  PROVE  HoldingsInv'
<1>1. HoldingsInv
  BY DEF InductiveInv
<1>2. ASSUME NEW u \in Users, NEW amount \in PurchaseAmounts, NEW id \in TxIds,
             BuyWithUSDT(u, amount, id)
      PROVE  HoldingsInv'
  <2>1. ~finalized /\ ~finalized' /\ UNCHANGED <<ddcBalance, poolVars>>
    BY <1>2 DEF BuyWithUSDT, BuyAllowed
  <2> QED BY <1>1, <2>1
          DEF HoldingsInv, PoolBacked, ReserveCoversClaims, totalAccounted, poolVars
<1>3. ASSUME NEW a \in PresaleLinks, LinkRewardPool(a) PROVE HoldingsInv'
  BY <1>1, <1>3
     DEF LinkRewardPool, SetPresaleOnce, HoldingsInv, PoolBacked, ReserveCoversClaims,
         remainingPresaleBurnTarget, totalAccounted, salesVars, claimVars, tokenVars
<1>4. ASSUME UNCHANGED <<finalized, salesVars, claimVars, ddcBalance, poolVars>>
      PROVE  HoldingsInv'
  BY <1>1, <1>4
     DEF HoldingsInv, PoolBacked, ReserveCoversClaims, totalAccounted,
         remainingPresaleBurnTarget, salesVars, claimVars, poolVars
<1>5. ASSUME \/ SetRecorderOnce \/ Pause \/ Unpause
             \/ \E t \in StartTimes : StartPresaleOnce(t)
             \/ \E t \in TgeTimes : SetTGE(t)
             \/ \E a \in Writers : ChangeWriter(a)
             \/ \E entry \in DirectRecords : RecordDirectly(entry)
             \/ AdvanceIfEnded
             \/ SweepRaisedFundsToTreasury \/ WithdrawRaisedFunds
             \/ \E u \in Users, amount \in DirectUsdt : SendUsdt(u, amount)
             \/ Tick \/ UNCHANGED vars
      PROVE  HoldingsInv'
  BY <1>4, <1>5
     DEF SetRecorderOnce, Pause, Unpause, StartPresaleOnce, SetTGE, ChangeWriter, RecordDirectly,
         AdvanceIfEnded,
         SweepRaisedFundsToTreasury, WithdrawRaisedFunds, SendUsdt, Tick, vars, tokenVars
<1> QED BY <1>2, <1>3, <1>5, FinalizeHoldings, ClaimHoldings, FundHoldings DEF Next, OwnerNext

---------------------------------------------------------------------------
(* The theorems *)

LEMMA Invariance == Spec \/ DeployedSpec => []InductiveInv
<1>1. Init \/ DeployedInit => InductiveInv
  BY InitInv
<1>2. InductiveInv /\ [Next]_vars => InductiveInv'
  BY NextTypeOK, NextSaleInv, NextHalvesInv, NextAccountsInv, NextHoldingsInv DEF InductiveInv
<1> QED BY <1>1, <1>2, PTL DEF Spec, DeployedSpec

\* The variables hold values of the Solidity types; in particular no balance
\* and no account of the contracts goes below zero.
THEOREM TypeCorrect == Spec \/ DeployedSpec => []TypeOK
<1>1. InductiveInv => TypeOK
  BY DEF InductiveInv
<1> QED BY <1>1, Invariance, PTL

\* Rolling over what a batch leaves unsold neither loses nor creates DDC, and
\* no batch sells more than its hard cap.
THEOREM NothingLostOrOversold == Spec \/ DeployedSpec => []CapacityConserved
<1>1. ASSUME InductiveInv PROVE CapacityConserved
  <2>1. ASSUME presaleStart # 0
        PROVE  /\ totalNominalSold + Unsold(batches[currentBatchId])
                    + (TOTAL_BATCHES - currentBatchId) * BATCH_BASE_ALLOCATION
                      = PRESALE_NOMINAL_TOTAL
               /\ \A id \in BatchIds : batches[id].sold <= batches[id].hardCap
    <3>1. /\ ScheduleInv(schedule, now)
          /\ totalNominalSold + Remaining(schedule) = PRESALE_NOMINAL_TOTAL
          /\ totalNominalSold \in Nat
      BY <1>1, <2>1 DEF InductiveInv, SaleInv, TypeOK
    <3>2. /\ currentBatchId \in BatchIds /\ batches[currentBatchId] \in Batch
      BY <3>1, CurrentBatch DEF schedule
    <3>3. /\ Unsold(batches[currentBatchId]) \in Int
          /\ (TOTAL_BATCHES - currentBatchId) * BATCH_BASE_ALLOCATION \in Int
      BY <3>2, UnsoldType, ScheduleAssumption DEF BatchIds
    <3>4. /\ totalNominalSold + Unsold(batches[currentBatchId])
               + (TOTAL_BATCHES - currentBatchId) * BATCH_BASE_ALLOCATION = PRESALE_NOMINAL_TOTAL
      BY <3>1, <3>3 DEF Remaining, schedule
    <3>5. ASSUME NEW id \in BatchIds PROVE batches[id].sold <= batches[id].hardCap
      <4>1. CASE id <= currentBatchId
        BY <3>1, <4>1 DEF ScheduleInv, OpenedWell, schedule
      <4>2. CASE currentBatchId < id
        <5>1. batches[id] = Unopened
          BY <3>1, <4>2 DEF ScheduleInv, schedule
        <5> QED BY <5>1 DEF Unopened
      <4> QED BY <3>2, <4>1, <4>2 DEF BatchIds
    <3> QED BY <3>4, <3>5
  <2> QED BY <2>1 DEF CapacityConserved
<1> QED BY <1>1, Invariance, PTL

\* The batches follow one another without a gap and hand over exactly what
\* they leave; no batch above the current one is ever open.
THEOREM BatchesFollow == Spec \/ DeployedSpec => []ScheduleWellFormed
<1>1. ASSUME InductiveInv PROVE ScheduleWellFormed
  <2>1. currentBatchId = 0 <=> presaleStart = 0
    BY <1>1 DEF InductiveInv, SaleInv
  <2>2. CASE currentBatchId = 0
    <3>1. \A id \in BatchIds : batches[id] = Unopened
      BY <1>1, <2>2 DEF InductiveInv, SaleInv, EmptySchedule
    <3> QED BY <2>1, <2>2, <3>1 DEF ScheduleWellFormed
  <2>3. CASE currentBatchId # 0
    <3>1. ScheduleInv(schedule, now)
      BY <1>1, <2>3 DEF InductiveInv, SaleInv
    <3>2. currentBatchId \in BatchIds /\ batches \in [BatchIds -> Batch]
      BY <3>1, CurrentBatch DEF ScheduleInv, Schedule, schedule
    <3>3. \A id \in BatchIds : id > currentBatchId => batches[id] = Unopened
      BY <3>1, <3>2 DEF ScheduleInv, schedule, BatchIds
    <3>4. ASSUME NEW id \in 1..currentBatchId-1
          PROVE  LET b == batches[id]  n == batches[id+1]
                 IN  /\ b.isClosed
                     /\ b.startTime <= n.startTime /\ n.startTime <= b.endTime
                     /\ n.startTime < b.endTime => SoldOut(b)
                     /\ n.rolloverIn = Unsold(b)
                     /\ n.endTime = n.startTime + BATCH_DURATION
      <4>1. id \in BatchIds /\ id < currentBatchId /\ id + 1 \in BatchIds
            /\ id + 1 <= currentBatchId
        BY <3>2, ScheduleAssumption DEF BatchIds
      <4>2. Follows(batches[id+1], batches[id])
        BY <3>1, <4>1 DEF ScheduleInv, schedule
      <4>3. OpenedWell(batches[id+1], id + 1, now)
        BY <3>1, <4>1 DEF ScheduleInv, schedule
      <4> QED BY <4>2, <4>3 DEF Follows, OpenedWell
    <3>5. batches[currentBatchId].isClosed => currentBatchId = TOTAL_BATCHES
      BY <3>1 DEF ScheduleInv, schedule
    <3> QED BY <2>1, <3>3, <3>4, <3>5 DEF ScheduleWellFormed
  <2> QED BY <2>2, <2>3
<1> QED BY <1>1, Invariance, PTL

\* A keeper that comes late finds the schedule a punctual one would have left.
THEOREM KeeperMayBeLate == Spec \/ DeployedSpec => []LateKeeperHarmless
<1>1. ASSUME InductiveInv PROVE LateKeeperHarmless
  <2>1. ASSUME NEW t \in now..now + TOTAL_BATCHES * BATCH_DURATION
        PROVE  SyncLoop(SyncLoop(schedule, now), t) = SyncLoop(schedule, t)
    <3>1. now \in Nat /\ t \in Nat /\ now <= t
      <4>1. now \in Nat /\ TOTAL_BATCHES * BATCH_DURATION \in Nat
        BY <1>1, ScheduleAssumption DEF InductiveInv, TypeOK
      <4> QED BY <4>1
    <3>2. CASE currentBatchId = 0
      <4>1. SyncLoop(schedule, now) = schedule
        BY <3>2, SyncLoopIdle DEF Due, schedule
      <4> QED BY <4>1
    <3>3. CASE currentBatchId # 0
      <4>1. ScheduleInv(schedule, now) /\ Settled(schedule)
        BY <1>1, <3>3 DEF InductiveInv, SaleInv
      <4> QED BY <3>1, <4>1, SyncLoopTwice
    <3> QED BY <3>2, <3>3
  <2> QED BY <2>1 DEF LateKeeperHarmless
<1> QED BY <1>1, Invariance, PTL

\* No batch above the current one is open yet, so the view's walk ends where it begins.
LEMMA EffectiveIsCurrent ==
  ASSUME NEW t \in Nat, NEW s, ScheduleInv(s, t)
  PROVE  EffectiveCurrentBatchId(s, t) = s.currentBatchId
<1> DEFINE cid == s.currentBatchId
           Reached(i) == \A j \in cid..i : s.batches[j].startTime # 0
           stops == {i \in cid..TOTAL_BATCHES :
                       i # 0 /\ Reached(i) /\ (Live(s.batches[i], t) \/ i = TOTAL_BATCHES)}
<1>1. cid \in BatchIds /\ TOTAL_BATCHES \in Nat
  BY CurrentBatch, ScheduleAssumption
<1>2. EffectiveCurrentBatchId(s, t) =
        IF cid = 0 \/ stops = {} THEN cid ELSE CHOOSE i \in stops : \A j \in stops : i <= j
  BY DEF EffectiveCurrentBatchId
<1>3. ASSUME NEW i \in stops PROVE i = cid
  <2>1. i \in BatchIds /\ cid <= i /\ i \in cid..i
    BY <1>1 DEF BatchIds
  <2>2. s.batches[i].startTime # 0
    BY <2>1
  <2>3. cid < i => s.batches[i] = Unopened
    BY <2>1 DEF ScheduleInv
  <2>4. ~(cid < i)
    BY <2>2, <2>3 DEF Unopened
  <2> QED BY <1>1, <2>1, <2>4 DEF BatchIds
<1> HIDE DEF stops
<1>4. CASE stops = {}
  BY <1>2, <1>4
<1>5. CASE stops # {}
  <2>1. stops = {cid} /\ cid <= cid
    BY <1>1, <1>3, <1>5 DEF BatchIds
  <2>2. \E i \in stops : \A j \in stops : i <= j
    BY <2>1
  <2>3. (CHOOSE i \in stops : \A j \in stops : i <= j) \in stops
    BY <2>2
  <2> QED BY <1>2, <2>1, <2>3
<1> QED BY <1>4, <1>5

\* What batchInfo shows as active is the open batch a purchase would be sold from, or
\* the current one after its end: there the view lags behind until somebody syncs.
THEOREM ActiveBatchIsSold == Spec \/ DeployedSpec => []ActiveBatchSells
<1>1. ASSUME InductiveInv, currentBatchId = 0 PROVE ActiveBatchSells
  <2>1. Synced(schedule) = schedule
    BY <1>1, SyncedSchedule DEF InductiveInv
  <2>2. EffectiveCurrentBatchId(schedule, now) = 0 /\ schedule.currentBatchId = 0
    BY <1>1 DEF EffectiveCurrentBatchId, schedule
  <2> QED BY <2>1, <2>2 DEF ActiveBatchSells, isActive, BatchIds
<1>2. ASSUME InductiveInv, currentBatchId # 0 PROVE ActiveBatchSells
  <2> DEFINE b == batches[currentBatchId]
             synced == Synced(schedule)
             selling == synced.currentBatchId
  <2>1. /\ ScheduleInv(schedule, now) /\ Settled(schedule) /\ now \in Nat
        /\ ScheduleInv(synced, now)
    BY <1>2, SyncedSchedule DEF InductiveInv, SaleInv, TypeOK
  <2>2. /\ currentBatchId \in BatchIds /\ OpenedWell(b, currentBatchId, now) /\ b \in Batch
        /\ EffectiveCurrentBatchId(schedule, now) = currentBatchId
        /\ EffectiveCurrentBatchId(synced, now) = selling
    BY <2>1, CurrentBatch, EffectiveIsCurrent DEF schedule
  <2>3. b.startTime \in Nat /\ b.endTime \in Nat /\ b.startTime <= b.endTime
    BY <2>2, ScheduleAssumption DEF OpenedWell, Batch
  <2>4. \A id \in BatchIds :
          isActive(id) <=> ~finalized /\ id = currentBatchId /\ now >= b.startTime /\ ~b.isClosed
    BY <2>2 DEF isActive
  <2>5. Due(schedule, now) <=> Expired(b, now) /\ ~b.isClosed
    BY <1>2, <2>1 DEF Due, Settled, schedule
  <2>6. ~Due(schedule, now) => selling = currentBatchId /\ synced.batches[selling] = b
    BY SyncLoopIdle DEF Synced, schedule
  <2> HIDE DEF b, synced, selling
  <2>7. ASSUME NEW id \in BatchIds, isActive(id)
        PROVE  \/ id = selling /\ BatchOpen(synced.batches[id])
               \/ id = currentBatchId /\ Expired(b, now)
    <3>1. id = currentBatchId /\ now >= b.startTime /\ ~b.isClosed
      BY <2>4, <2>7
    <3>2. ~Expired(b, now) => BatchOpen(b)
      BY <2>1, <2>3, <3>1 DEF Expired, BatchOpen
    <3> QED BY <2>5, <2>6, <3>1, <3>2
  <2>8. ASSUME BatchOpen(synced.batches[selling]), ~finalized
        PROVE  isActive(currentBatchId)
    <3>1. CASE Due(schedule, now)
      BY <2>1, <2>2, <2>3, <2>4, <2>5, <2>8, <3>1 DEF Expired
    <3>2. CASE ~Due(schedule, now)
      BY <2>1, <2>2, <2>3, <2>4, <2>6, <2>8, <3>2 DEF BatchOpen
    <3> QED BY <3>1, <3>2
  <2> QED BY <2>2, <2>7, <2>8 DEF ActiveBatchSells, b, synced, selling
<1>3. InductiveInv => ActiveBatchSells
  BY <1>1, <1>2
<1> QED BY <1>3, Invariance, PTL

\* Finalizing is irreversible.
THEOREM FinalizeIsForGood == Spec \/ DeployedSpec => FinalizedIsFinal
<1> DEFINE A == finalized => /\ finalized'
                             /\ UNCHANGED <<scheduleVars, salesVars, cumulativeBurnAccounted,
                                            burnLockedBalance, rewardEligibleBalance>>
<1>1. ASSUME InductiveInv, [Next]_vars PROVE A
  <2> SUFFICES ASSUME finalized
               PROVE  /\ finalized'
                      /\ UNCHANGED <<scheduleVars, salesVars, cumulativeBurnAccounted,
                                     burnLockedBalance, rewardEligibleBalance>>
    OBVIOUS
  <2>1. presaleStart # 0
    BY <1>1 DEF InductiveInv, SaleInv
  <2>2. CASE AdvanceIfEnded
    <3>1. Synced(schedule) = schedule
      BY DEF Synced
    <3> QED BY <2>2, <3>1
            DEF AdvanceIfEnded, SetSchedule, schedule, scheduleVars, poolVars
  <2>3. ~Finalize
    BY DEF Finalize, CanFinalize
  <2>4. ASSUME NEW u \in Users, NEW amount \in PurchaseAmounts, NEW id \in TxIds
        PROVE  ~BuyWithUSDT(u, amount, id)
    BY DEF BuyWithUSDT, BuyAllowed
  <2>5. ASSUME NEW t \in StartTimes PROVE ~StartPresaleOnce(t)
    BY <2>1 DEF StartPresaleOnce
  <2>6. ASSUME NEW a \in PresaleLinks, LinkRewardPool(a)
        PROVE  UNCHANGED <<finalized, scheduleVars, salesVars, cumulativeBurnAccounted,
                           burnLockedBalance, rewardEligibleBalance>>
    BY <2>6 DEF LinkRewardPool, SetPresaleOnce
  <2>7. ASSUME \/ SetRecorderOnce \/ Pause \/ Unpause
               \/ \E t \in TgeTimes : SetTGE(t)
               \/ \E a \in Writers : ChangeWriter(a)
               \/ \E entry \in DirectRecords : RecordDirectly(entry)
               \/ \E amount \in FundAmounts : FundPresale(amount)
               \/ \E u \in Users : Claim(u)
               \/ SweepRaisedFundsToTreasury \/ WithdrawRaisedFunds
               \/ \E u \in Users, amount \in DirectUsdt : SendUsdt(u, amount)
               \/ Tick \/ UNCHANGED vars
        PROVE  UNCHANGED <<finalized, scheduleVars, salesVars, poolVars>>
    BY <2>7
       DEF SetRecorderOnce, Pause, Unpause, SetTGE, ChangeWriter, RecordDirectly,
           FundPresale, Claim,
           SweepRaisedFundsToTreasury, WithdrawRaisedFunds, SendUsdt, Tick, vars
  <2> QED BY <1>1, <2>2, <2>3, <2>4, <2>5, <2>6, <2>7 DEF Next, OwnerNext, poolVars
<1> QED BY <1>1, Invariance, PTL DEF Spec, DeployedSpec, FinalizedIsFinal

\* Nobody holds more than what has vested, and what is claimed, claimable and
\* locked is the principal.
THEOREM ClaimsAreVested == Spec \/ DeployedSpec => []ClaimsWithinVesting
<1>1. ASSUME InductiveInv PROVE ClaimsWithinVesting
  <2>1. ASSUME NEW u \in Users
        PROVE  /\ claimed[u] <= Unlocked(u)
               /\ claimed[u] + claimable(u) + locked(u) = vestingPrincipal[u]
    <3>1. TypeOK /\ AccountsInv
      BY <1>1 DEF InductiveInv
    <3>2. claimed[u] + claimable(u) = Unlocked(u) /\ Unlocked(u) + locked(u) = vestingPrincipal[u]
      BY <3>1, ClaimableType
    <3>3. claimed[u] <= Unlocked(u)
      BY <3>1 DEF AccountsInv
    <3> QED BY <3>2, <3>3
  <2> QED BY <2>1 DEF ClaimsWithinVesting
<1> QED BY <1>1, Invariance, PTL

\* What has vested never shrinks, across the phases of the curve and their
\* roundings and whatever is bought meanwhile.
THEOREM VestingIsMonotone == Spec \/ DeployedSpec => VestedNeverShrinks
<1>1. ASSUME InductiveInv, [Next]_vars PROVE \A u \in Users : Unlocked(u)' >= Unlocked(u)
  <2>1. ASSUME NEW u \in Users PROVE Unlocked(u)' >= Unlocked(u)
    <3>1. Unlocked(u) \in Nat /\ Unlocked(u)' \in Nat /\ Unlocked(u) <= Unlocked(u)'
      BY <1>1, StepUnlocks
    <3> QED BY <3>1
  <2> QED BY <2>1
<1> QED BY <1>1, Invariance, PTL DEF Spec, DeployedSpec, VestedNeverShrinks

\* After finalize the presale holds every DDC it still owes its buyers.
THEOREM ReserveIsKept == Spec \/ DeployedSpec => []ReserveCoversClaims
<1>1. InductiveInv => ReserveCoversClaims
  BY DEF InductiveInv, HoldingsInv
<1> QED BY <1>1, Invariance, PTL

\* The reward pool accepts what finalize computes.
THEOREM PoolNeverBlocksFinalize == Spec \/ DeployedSpec => []PoolAcceptsFinalize
<1>1. ASSUME InductiveInv PROVE PoolAcceptsFinalize
  <2>1. ASSUME ~finalized, presale = PRESALE
        PROVE  ReconciliationAccepted(PRESALE, ResidualToRewardPool, BurnTopUp)
    <3>1. /\ ResidualToRewardPool \in Nat \ {0}
          /\ BurnTopUp \in Nat /\ BurnTopUp <= ResidualToRewardPool
      BY <1>1, NeverOversold DEF InductiveInv
    <3>2. cumulativeBurnAccounted = 0
      BY <1>1, <2>1 DEF InductiveInv, HoldingsInv
    <3>3. BurnTopUp <= PRESALE_BURN_TARGET
      <4>1. totalBurnLockedFromSales \in Nat /\ PRESALE_BURN_TARGET \in Nat
        BY <1>1, BurnAssumption DEF InductiveInv, TypeOK
      <4> QED BY <3>1, <4>1 DEF BurnTopUp
    <3> QED BY <2>1, <3>1, <3>2, <3>3, BurnAssumption DEF ReconciliationAccepted
  <2> QED BY <2>1 DEF PoolAcceptsFinalize
<1> QED BY <1>1, Invariance, PTL

\* The reward pool has received what it accounts for and stays within the burn cap;
\* after finalize it shows as missing to the burn target just what the sales
\* burn-locked, up to the target, and holds that much as eligible for rewards.
THEOREM PoolIsBacked == Spec \/ DeployedSpec => []PoolBacked
<1>1. InductiveInv => PoolBacked
  BY DEF InductiveInv, HoldingsInv
<1> QED BY <1>1, Invariance, PTL
---------------------------------------------------------------------------
(* Purchases and sweeps *)

\* Every batch that was left was sold out or over.
LeftForReason(s, t) ==
  \A id \in BatchIds : id < s.currentBatchId => SoldOut(s.batches[id]) \/ Expired(s.batches[id], t)

\* Two records of a batch that differ at most in whether it is closed
SameWindow(c, b) ==
  /\ c.startTime = b.startTime /\ c.endTime = b.endTime
  /\ c.sold = b.sold /\ c.hardCap = b.hardCap

\* What later is left of a schedule's opened batches
Retains(r, s) ==
  /\ s.currentBatchId <= r.currentBatchId
  /\ \A id \in BatchIds : id <= s.currentBatchId => SameWindow(r.batches[id], s.batches[id])

LEMMA StepRetains ==
  ASSUME NEW t \in Nat, NEW s, ScheduleInv(s, t), LeftForReason(s, t)
  PROVE  LeftForReason(SyncStep(s, t), t) /\ Retains(SyncStep(s, t), s)
<1> DEFINE id == s.currentBatchId
           b == s.batches[id]
<1>1. id \in BatchIds /\ b \in Batch
  BY CurrentBatch
<1>2. CASE ~Due(s, t)
  <2>1. SyncStep(s, t) = s
    BY <1>2 DEF SyncStep
  <2> QED BY <1>1, <2>1 DEF Retains, SameWindow, BatchIds
<1>3. CASE Due(s, t) /\ id = TOTAL_BATCHES
  <2> DEFINE r == Closing(s)
  <2>1. SyncStep(s, t) = r
    BY <1>3 DEF SyncStep, Closing
  <2>2. /\ r.currentBatchId = id /\ r.batches[id] = [b EXCEPT !.isClosed = TRUE]
        /\ \A j \in BatchIds \ {id} : r.batches[j] = s.batches[j]
    BY CloseShape
  <2>3. SameWindow(r.batches[id], b)
    BY <1>1, <2>2, ClosedKeeps DEF SameWindow
  <2> HIDE DEF r, id, b
  <2>4. LeftForReason(r, t)
    BY <1>1, <2>2 DEF LeftForReason, BatchIds, id
  <2>5. ASSUME NEW j \in BatchIds
        PROVE  SameWindow(r.batches[j], s.batches[j])
    BY <2>2, <2>3 DEF SameWindow, b
  <2>6. Retains(r, s)
    BY <1>1, <2>2, <2>5 DEF Retains, BatchIds, id
  <2> QED BY <2>1, <2>4, <2>6
<1>4. CASE Due(s, t) /\ id # TOTAL_BATCHES
  <2> DEFINE r == Advance(s, t)
  <2>1. SyncStep(s, t) = r
    BY <1>4 DEF SyncStep
  <2>2. /\ r.currentBatchId = id + 1 /\ r.batches[id] = [b EXCEPT !.isClosed = TRUE]
        /\ \A j \in BatchIds \ {id, id + 1} : r.batches[j] = s.batches[j]
    BY <1>4, AdvanceShape
  <2>3. SameWindow(r.batches[id], b)
    BY <1>1, <2>2, ClosedKeeps DEF SameWindow
  <2>4. SoldOut(b) \/ Expired(b, t)
    BY <1>4 DEF Due
  <2> HIDE DEF r, id, b
  <2>5. ASSUME NEW j \in BatchIds, j < r.currentBatchId
        PROVE  SoldOut(r.batches[j]) \/ Expired(r.batches[j], t)
    <3>1. CASE j = id
      BY <2>3, <2>4, <3>1 DEF SameWindow, SoldOut, Expired
    <3>2. CASE j # id
      <4>1. j < id /\ r.batches[j] = s.batches[j]
        BY <1>1, <2>2, <2>5, <3>2 DEF BatchIds
      <4> QED BY <4>1 DEF LeftForReason, id
    <3> QED BY <3>1, <3>2
  <2>6. ASSUME NEW j \in BatchIds, j <= id
        PROVE  SameWindow(r.batches[j], s.batches[j])
    <3>1. CASE j = id
      BY <2>3, <3>1 DEF b
    <3>2. CASE j # id
      BY <1>1, <2>2, <2>6, <3>2 DEF BatchIds, SameWindow
    <3> QED BY <3>1, <3>2
  <2>7. id <= r.currentBatchId
    BY <1>1, <2>2 DEF BatchIds
  <2> QED BY <2>1, <2>5, <2>6, <2>7 DEF LeftForReason, Retains, id
<1> QED BY <1>2, <1>3, <1>4

LEMMA LoopRetains ==
  ASSUME NEW t \in Nat, NEW s, ScheduleInv(s, t), LeftForReason(s, t)
  PROVE  LeftForReason(SyncLoop(s, t), t) /\ Retains(SyncLoop(s, t), s)
<1> DEFINE G == {x \in Schedule : ScheduleInv(x, t) /\ LeftForReason(x, t) /\ Retains(x, s)}
<1>1. s \in G
  <2>1. s.currentBatchId \in BatchIds
    BY CurrentBatch
  <2> QED BY <2>1 DEF Retains, SameWindow, BatchIds, ScheduleInv
<1>2. ASSUME NEW x \in G PROVE SyncStep(x, t) \in G
  <2> DEFINE y == SyncStep(x, t)
  <2>1. ScheduleInv(y, t) /\ LeftForReason(y, t) /\ Retains(y, x)
    BY SyncStepKeeps, StepRetains
  <2>2. /\ s.currentBatchId \in BatchIds /\ x.currentBatchId \in BatchIds
        /\ y.currentBatchId \in BatchIds
    BY <2>1, CurrentBatch
  <2> HIDE DEF y
  <2>3. s.currentBatchId <= x.currentBatchId /\ x.currentBatchId <= y.currentBatchId
    BY <2>1 DEF Retains
  <2>4. ASSUME NEW id \in BatchIds, id <= s.currentBatchId
        PROVE  SameWindow(y.batches[id], s.batches[id])
    <3>1. id <= x.currentBatchId
      BY <2>2, <2>3, <2>4 DEF BatchIds
    <3>2. SameWindow(y.batches[id], x.batches[id]) /\ SameWindow(x.batches[id], s.batches[id])
      BY <2>1, <2>4, <3>1 DEF Retains
    <3> QED BY <3>2 DEF SameWindow
  <2>5. s.currentBatchId <= y.currentBatchId
    BY <2>2, <2>3 DEF BatchIds
  <2>6. Retains(y, s)
    BY <2>4, <2>5 DEF Retains
  <2> QED BY <2>1, <2>6 DEF y, ScheduleInv
<1> HIDE DEF G
<1>3. SyncLoop(s, t) \in G
  BY <1>1, <1>2, SyncLoopInvariant
<1> QED BY <1>3 DEF G

\* The schedule a purchase leaves, and the one it is made in
LEMMA BuyLeaves ==
  ASSUME TypeOK, SaleInv, NEW u \in Users, NEW amount \in PurchaseAmounts, NEW id \in TxIds,
         BuyAllowed(u, amount, id), currentBatchId # 0 => LeftForReason(schedule, now),
         NEW s, s = Synced(schedule), NEW b, b = s.batches[s.currentBatchId],
         NEW ddc, ddc = AmountDDC(amount, b)
  PROVE  LET r == Synced(SellFrom(s, ddc))
             c == r.batches[s.currentBatchId]
         IN  /\ LeftForReason(r, now)
             /\ s.currentBatchId <= r.currentBatchId
             /\ c.startTime = b.startTime /\ c.endTime = b.endTime
<1> DEFINE x == SellFrom(s, ddc)
           cid == s.currentBatchId
<1>1. /\ ~finalized /\ currentBatchId # 0 /\ BatchOpen(b) /\ FitsBatch(ddc, b) /\ ddc \in Nat
      /\ ScheduleInv(s, now) /\ cid \in BatchIds /\ b \in Batch /\ s \in Schedule
  BY BuyBatch
<1>2. now \in Nat /\ ~b.isClosed /\ b.startTime <= now /\ now <= b.endTime
  BY <1>1 DEF BatchOpen, TypeOK
<1>3. s = SyncLoop(schedule, now) /\ Synced(x) = SyncLoop(x, now)
  BY <1>1 DEF Synced
<1>4. LeftForReason(s, now)
  BY <1>1, <1>2, <1>3, LoopRetains DEF SaleInv
<1>5. s.batches \in [BatchIds -> Batch]
  BY <1>1 DEF Schedule
<1>6. /\ x.currentBatchId = cid
      /\ x.batches = [s.batches EXCEPT ![cid] = [b EXCEPT !.sold = @ + ddc]]
  BY <1>1 DEF SellFrom, Schedule
<1>7. ScheduleInv(x, now)
  BY <1>1, <1>2, SellFromKeeps
<1> HIDE DEF x
<1>8. LeftForReason(x, now)
  <2>1. \A j \in BatchIds : j < cid => x.batches[j] = s.batches[j]
    BY <1>1, <1>5, <1>6 DEF BatchIds
  <2> QED BY <1>4, <1>6, <2>1 DEF LeftForReason
<1>9. x.batches[cid] = [b EXCEPT !.sold = @ + ddc]
  BY <1>1, <1>5, <1>6
<1>10. x.batches[cid].startTime = b.startTime /\ x.batches[cid].endTime = b.endTime
  BY <1>1, <1>9 DEF Batch
<1>11. LeftForReason(SyncLoop(x, now), now) /\ Retains(SyncLoop(x, now), x)
  BY <1>2, <1>7, <1>8, LoopRetains
<1>12. cid <= cid
  BY <1>1 DEF BatchIds
<1>13. /\ cid <= SyncLoop(x, now).currentBatchId
       /\ SameWindow(SyncLoop(x, now).batches[cid], x.batches[cid])
  BY <1>1, <1>6, <1>11, <1>12 DEF Retains
<1> QED BY <1>3, <1>10, <1>11, <1>13 DEF SameWindow, x

\* What is inductive about it, once the presale is started
Passed == currentBatchId # 0 => LeftForReason(schedule, now)

LEMMA NextPassed ==
  ASSUME InductiveInv, Passed, [Next]_vars
  PROVE  Passed'
<1> USE DEF InductiveInv
<1>1. schedule' = [currentBatchId |-> currentBatchId', batches |-> batches']
  BY DEF schedule
<1>2. ASSUME NEW start \in StartTimes, StartPresaleOnce(start) PROVE Passed'
  <2>1. currentBatchId' = 1
    BY <1>2 DEF StartPresaleOnce, SetSchedule, StartedSchedule
  <2> QED BY <1>1, <2>1 DEF Passed, LeftForReason, BatchIds
<1>3. ASSUME SetSchedule(Synced(schedule)), now' = now PROVE Passed'
  <2>1. schedule' = Synced(schedule) /\ currentBatchId' = Synced(schedule).currentBatchId
    BY <1>3, SyncedSchedule, SetScheduleIs DEF SetSchedule
  <2>2. CASE currentBatchId = 0
    <3>1. Synced(schedule).currentBatchId = 0
      BY <2>2, SyncedSchedule DEF schedule
    <3> QED BY <2>1, <3>1 DEF Passed
  <2>3. CASE currentBatchId # 0
    <3>1. ScheduleInv(schedule, now) /\ LeftForReason(schedule, now) /\ now \in Nat
      BY <2>3 DEF SaleInv, Passed, TypeOK
    <3>2. LeftForReason(Synced(schedule), now)
      BY <3>1, LoopRetains DEF Synced
    <3> QED BY <1>3, <2>1, <3>2 DEF Passed
  <2> QED BY <2>2, <2>3
<1>4. ASSUME NEW u \in Users, NEW amount \in PurchaseAmounts, NEW id \in TxIds,
             BuyWithUSDT(u, amount, id)
      PROVE  Passed'
  <2> DEFINE s == Synced(schedule)
             ddc == AmountDDC(amount, s.batches[s.currentBatchId])
             r == Synced(SellFrom(s, ddc))
  <2>1. BuyAllowed(u, amount, id) /\ SetSchedule(r) /\ now' = now
    BY <1>4 DEF BuyWithUSDT
  <2>2. r \in Schedule
    BY <2>1, BuySchedule
  <2>3. LeftForReason(r, now)
    BY <2>1, BuyLeaves DEF Passed
  <2> HIDE DEF r
  <2>4. schedule' = r
    BY <2>1, <2>2, SetScheduleIs
  <2> QED BY <2>1, <2>3, <2>4 DEF Passed
<1>5. CASE Tick
  <2>1. schedule' = schedule /\ currentBatchId' = currentBatchId /\ now' = now + 1
    BY <1>1, <1>5 DEF Tick, scheduleVars, schedule
  <2> SUFFICES ASSUME currentBatchId # 0, NEW id \in BatchIds, id < schedule.currentBatchId
               PROVE  SoldOut(schedule.batches[id]) \/ Expired(schedule.batches[id], now + 1)
    BY <2>1 DEF Passed, LeftForReason
  <2>2. SoldOut(schedule.batches[id]) \/ Expired(schedule.batches[id], now)
    BY DEF Passed, LeftForReason
  <2>3. now \in Nat /\ schedule.batches[id].endTime \in Nat
    BY DEF TypeOK, Batch, schedule
  <2> QED BY <2>2, <2>3 DEF Expired
<1>6. ASSUME UNCHANGED <<scheduleVars, now>> PROVE Passed'
  BY <1>1, <1>6 DEF Passed, scheduleVars, schedule
<1>7. ASSUME \/ SetRecorderOnce \/ Pause \/ Unpause
             \/ \E t \in TgeTimes : SetTGE(t)
             \/ \E a \in PresaleLinks : LinkRewardPool(a)
             \/ \E a \in Writers : ChangeWriter(a)
             \/ \E entry \in DirectRecords : RecordDirectly(entry)
             \/ \E amount \in FundAmounts : FundPresale(amount)
             \/ \E u \in Users : Claim(u)
             \/ SweepRaisedFundsToTreasury \/ WithdrawRaisedFunds
             \/ \E u \in Users, amount \in DirectUsdt : SendUsdt(u, amount)
             \/ UNCHANGED vars
      PROVE  Passed'
  BY <1>6, <1>7
     DEF SetRecorderOnce, Pause, Unpause, SetTGE, LinkRewardPool, ChangeWriter, RecordDirectly,
         FundPresale, Claim,
         SweepRaisedFundsToTreasury, WithdrawRaisedFunds, SendUsdt, vars
<1>8. ASSUME AdvanceIfEnded \/ Finalize PROVE Passed'
  BY <1>3, <1>8 DEF AdvanceIfEnded, Finalize
<1> QED BY <1>2, <1>4, <1>5, <1>7, <1>8 DEF Next, OwnerNext

\* Nobody pays the price of a later batch while an earlier one still sells.
THEOREM PurchasesGoToTheOpenBatch == Spec \/ DeployedSpec => SalesInOpenBatch
<1> DEFINE A == \A u \in Users : userPurchases'[u] # userPurchases[u] =>
                  LET p == Last(userPurchases'[u])
                      b == batches'[p.batchId]
                  IN  /\ b.startTime <= now /\ now <= b.endTime
                      /\ p.amountDDC = (p.paidUSDT * DDC_UNIT) \div Prices[p.batchId - 1]
                      /\ \A id \in 1..p.batchId-1 :
                           SoldOut(batches'[id]) \/ now > batches'[id].endTime
                      /\ p.batchId = currentBatchId' \/ SoldOut(b)
<1>1. Init \/ DeployedInit => Passed
  BY DEF Init, DeployedInit, Constructed, Passed
<1>2. InductiveInv /\ Passed /\ [Next]_vars => Passed'
  BY NextPassed
<1>3. ASSUME InductiveInv, Passed, [Next]_vars PROVE A
  <2> USE <1>3 DEF InductiveInv
  <2>1. ASSUME NEW w \in Users, NEW amount \in PurchaseAmounts, NEW id \in TxIds,
               BuyWithUSDT(w, amount, id)
        PROVE  A
    <3> DEFINE s == Synced(schedule)
               cid == s.currentBatchId
               b == s.batches[cid]
               ddc == AmountDDC(amount, b)
               r == Synced(SellFrom(s, ddc))
               p == [batchId |-> cid, amountDDC |-> ddc, paidUSDT |-> amount, txId |-> id]
    <3>1. /\ BuyAllowed(w, amount, id) /\ SetSchedule(r)
          /\ userPurchases' = [userPurchases EXCEPT ![w] = Append(@, p)]
      BY <2>1 DEF BuyWithUSDT, RecordSale
    <3>2. r \in Schedule /\ ScheduleInv(r, now)
      BY <3>1, BuySchedule
    <3>3. cid \in BatchIds /\ b \in Batch /\ BatchOpen(b) /\ ScheduleInv(s, now)
          /\ OpenedWell(b, cid, now) /\ ddc \in Nat /\ amount \in Nat
      BY <3>1, BuyBatch, CurrentBatch
    <3>4. /\ LeftForReason(r, now) /\ cid <= r.currentBatchId
          /\ r.batches[cid].startTime = b.startTime /\ r.batches[cid].endTime = b.endTime
      BY <3>1, BuyLeaves DEF Passed
    <3>5. ddc = (amount * DDC_UNIT) \div Prices[cid - 1]
      BY <3>3 DEF AmountDDC, OpenedWell
    <3>6. p \in Purchase
      BY <3>1, <3>3 DEF Purchase
    <3> HIDE DEF r, b, ddc, cid
    <3>7. batches' = r.batches /\ currentBatchId' = r.currentBatchId
      BY <3>1 DEF SetSchedule
    <3>8. p.batchId = cid /\ p.amountDDC = ddc /\ p.paidUSDT = amount
      OBVIOUS
    <3> HIDE DEF p
    <3>9. ASSUME NEW u \in Users, userPurchases'[u] # userPurchases[u]
          PROVE  Last(userPurchases'[u]) = p
      <4>1. userPurchases[w] \in Seq(Purchase)
        BY DEF TypeOK
      <4>2. u = w /\ userPurchases'[u] = Append(userPurchases[w], p)
        BY <3>1, <3>9 DEF TypeOK
      <4> QED BY <3>6, <4>1, <4>2 DEF Last
    <3>10. now \in Nat /\ r.currentBatchId \in BatchIds
      BY <3>2, CurrentBatch DEF TypeOK
    <3>11. batches'[cid].startTime <= now /\ now <= batches'[cid].endTime
      BY <3>3, <3>4, <3>7 DEF BatchOpen
    <3>12. ASSUME NEW j \in BatchIds, j < r.currentBatchId
           PROVE  SoldOut(batches'[j]) \/ now > batches'[j].endTime
      BY <3>4, <3>7, <3>12 DEF LeftForReason, Expired
    <3>13. ASSUME NEW j \in 1..cid-1
           PROVE  SoldOut(batches'[j]) \/ now > batches'[j].endTime
      <4>1. cid \in 1..TOTAL_BATCHES /\ r.currentBatchId \in 1..TOTAL_BATCHES
        BY <3>3, <3>10 DEF BatchIds
      <4>2. j \in BatchIds /\ j < r.currentBatchId
        BY <3>4, <4>1, ScheduleAssumption DEF BatchIds
      <4> QED BY <3>12, <4>2
    <3>14. cid = currentBatchId' \/ SoldOut(batches'[cid])
      <4>1. CASE cid = r.currentBatchId
        BY <3>7, <4>1
      <4>2. CASE cid # r.currentBatchId
        <5>1. cid < r.currentBatchId
          BY <3>3, <3>4, <3>10, <4>2 DEF BatchIds
        <5>2. batches'[cid].endTime \in Nat
          BY <3>3, <3>4, <3>7 DEF Batch
        <5> QED BY <3>3, <3>10, <3>11, <3>12, <5>1, <5>2
      <4> QED BY <4>1, <4>2
    <3> QED BY <3>5, <3>8, <3>9, <3>11, <3>13, <3>14
  <2>2. ASSUME UNCHANGED userPurchases PROVE A
    BY <2>2
  <2> HIDE DEF A
  <2>3. ASSUME \/ OwnerNext \/ AdvanceIfEnded
               \/ \E entry \in DirectRecords : RecordDirectly(entry)
               \/ \E u \in Users : Claim(u)
               \/ Finalize \/ SweepRaisedFundsToTreasury \/ WithdrawRaisedFunds
               \/ \E u \in Users, amount \in DirectUsdt : SendUsdt(u, amount)
               \/ Tick \/ UNCHANGED vars
        PROVE  UNCHANGED userPurchases
    BY <2>3
       DEF OwnerNext, StartPresaleOnce, SetRecorderOnce, Pause, Unpause, SetTGE, LinkRewardPool,
           ChangeWriter, RecordDirectly,
           FundPresale, AdvanceIfEnded, Claim, Finalize, SweepRaisedFundsToTreasury,
           WithdrawRaisedFunds, SendUsdt, Tick, vars, salesVars
  <2> QED BY <2>1, <2>2, <2>3 DEF Next
<1> QED BY <1>1, <1>2, <1>3, Invariance, PTL DEF Spec, DeployedSpec, SalesInOpenBatch

\* Whole multiples of the threshold leave less than the threshold behind.
LEMMA WholeChunks ==
  ASSUME NEW bal \in Balances
  PROVE  LET after == AutoSweep(bal)
         IN  /\ (after[TREASURY] - bal[TREASURY]) % TREASURY_SWEEP_THRESHOLD_USDT = 0
             /\ after[PRESALE] < TREASURY_SWEEP_THRESHOLD_USDT
<1> DEFINE T == TREASURY_SWEEP_THRESHOLD_USDT
           x == bal[PRESALE]
           q == x \div T
<1>1. T \in Nat \ {0} /\ x \in Nat /\ bal[TREASURY] \in Nat
  BY PresaleAssumption, AddressesKnown DEF Balances
<1>2. SweptAmount(bal) = q * T /\ SweptAmount(bal) \in Nat
  BY SweptIsCovered DEF SweptAmount
<1>3. /\ AutoSweep(bal)[PRESALE] = x - q * T
      /\ AutoSweep(bal)[TREASURY] = bal[TREASURY] + q * T
  BY <1>2, SweptIsCovered, TransferMoves, AddressesKnown DEF AutoSweep
<1>4. q \in Nat /\ x - q * T < T
  <2>1. \A d \in Nat \ {0}, a \in Nat : a \div d \in Nat /\ a - (a \div d) * d < d
    OBVIOUS
  <2> QED BY <1>1, <2>1
<1>5. (q * T) % T = 0
  <2> HIDE DEF q, T
  <2>1. \A k \in Nat, d \in Nat \ {0} : (k * d) % d = 0
    OBVIOUS
  <2> QED BY <1>1, <1>4, <2>1
<1> HIDE DEF q, T, x
<1>6. q * T \in Nat
  BY <1>2
<1>7. (bal[TREASURY] + q * T) - bal[TREASURY] = q * T
  BY <1>1, <1>6
<1> QED BY <1>3, <1>4, <1>5, <1>7 DEF T

\* Before finalize the treasury receives whole multiples of the threshold only.
THEOREM TreasuryGetsWholeChunks == Spec \/ DeployedSpec => SweepsWholeChunks
<1> DEFINE T == TREASURY_SWEEP_THRESHOLD_USDT
           A == /\ ~finalized => (usdtBalance'[TREASURY] - usdtBalance[TREASURY]) % T = 0
                /\ salesVars' # salesVars => usdtBalance'[PRESALE] < T
<1>1. ASSUME InductiveInv, [Next]_vars PROVE A
  <2> USE <1>1 DEF InductiveInv
  <2>1. usdtBalance \in Balances /\ usdtBalance[TREASURY] \in Nat
    BY AddressesKnown DEF TypeOK, Balances
  <2>2. T \in Nat \ {0} /\ 0 % T = 0
    <3>1. \A d \in Nat \ {0} : 0 % d = 0
      OBVIOUS
    <3> QED BY <3>1, PresaleAssumption
  <2>3. ASSUME usdtBalance'[TREASURY] = usdtBalance[TREASURY], UNCHANGED salesVars PROVE A
    BY <2>1, <2>2, <2>3
  <2>4. ASSUME NEW u \in Users, NEW amount \in PurchaseAmounts, NEW id \in TxIds,
               BuyWithUSDT(u, amount, id)
        PROVE  A
    <3> DEFINE bal == Transfer(usdtBalance, u, PRESALE, amount)
    <3>1. amount \in Nat /\ CanTransfer(usdtBalance, u, amount) /\ usdtBalance' = AutoSweep(bal)
      BY <2>4, InputAssumption DEF BuyWithUSDT
    <3>2. bal \in Balances /\ bal[TREASURY] = usdtBalance[TREASURY]
      <4>1. u \in Addresses /\ PRESALE \in Addresses /\ TREASURY \in Addresses \ {u, PRESALE}
            /\ u # PRESALE
        BY AddressesKnown
      <4>2. bal \in Balances
        BY <2>1, <3>1, <4>1, TransferType
      <4>3. bal[TREASURY] = usdtBalance[TREASURY]
        BY <2>1, <3>1, <4>1, TransferMoves
      <4> QED BY <4>2, <4>3
    <3> HIDE DEF bal
    <3> QED BY <3>1, <3>2, WholeChunks
  <2>5. CASE SweepRaisedFundsToTreasury
    <3>1. usdtBalance' = AutoSweep(usdtBalance) /\ UNCHANGED salesVars
      BY <2>5 DEF SweepRaisedFundsToTreasury
    <3> QED BY <2>1, <3>1, WholeChunks
  <2>6. CASE WithdrawRaisedFunds
    BY <2>6 DEF WithdrawRaisedFunds
  <2>7. ASSUME NEW u \in Users, NEW amount \in DirectUsdt, SendUsdt(u, amount) PROVE A
    <3>1. amount \in Nat
      BY InputAssumption
    <3>2. usdtBalance'[TREASURY] = usdtBalance[TREASURY]
      BY <2>1, <2>7, <3>1, TransferMoves, AddressesKnown DEF SendUsdt
    <3> QED BY <2>3, <2>7, <3>2 DEF SendUsdt
  <2> HIDE DEF A
  <2>8. ASSUME \/ OwnerNext \/ AdvanceIfEnded
               \/ \E entry \in DirectRecords : RecordDirectly(entry)
               \/ \E u \in Users : Claim(u)
               \/ Finalize \/ Tick \/ UNCHANGED vars
        PROVE  UNCHANGED <<usdtBalance, salesVars>>
    BY <2>8
       DEF OwnerNext, StartPresaleOnce, SetRecorderOnce, Pause, Unpause, SetTGE, LinkRewardPool,
           ChangeWriter, RecordDirectly,
           FundPresale, AdvanceIfEnded, Claim, Finalize, Tick, vars, tokenVars
  <2> QED BY <2>3, <2>4, <2>5, <2>6, <2>7, <2>8 DEF Next
<1> QED BY <1>1, Invariance, PTL DEF Spec, DeployedSpec, SweepsWholeChunks

---------------------------------------------------------------------------
(* The books *)

\* What was paid and bought by the purchases at the places I of a list
Paid(q, I) == SumFunction([i \in I |-> q[i].paidUSDT])
Bought(q, I) == SumFunction([i \in I |-> q[i].amountDDC])
Of(q, id) == {i \in DOMAIN q : q[i].batchId = id}

\* r is the list q with p at its end
Appended(r, q, p) == r = Append(q, p)

LEMMA SumsOfPlaces ==
  ASSUME NEW q \in Seq(Purchase), NEW I \in SUBSET (DOMAIN q)
  PROVE  /\ IsFiniteSet(I)
         /\ [i \in I |-> q[i].paidUSDT] \in [I -> Nat]
         /\ [i \in I |-> q[i].amountDDC] \in [I -> Nat]
         /\ Paid(q, I) \in Nat /\ Bought(q, I) \in Nat
<1>1. Len(q) \in Nat /\ DOMAIN q = 1..Len(q)
  OBVIOUS
<1>2. IsFiniteSet(I)
  <2>1. IsFiniteSet(1..Len(q))
    BY <1>1, FS_Interval
  <2> QED BY <1>1, <2>1, FS_Subset
<1>3. \A i \in I : q[i] \in Purchase
  OBVIOUS
<1>4. /\ [i \in I |-> q[i].paidUSDT] \in [I -> Nat]
      /\ [i \in I |-> q[i].amountDDC] \in [I -> Nat]
  BY <1>3 DEF Purchase
<1>5. Paid(q, I) \in Nat
  BY <1>2, <1>4, SumIsUnits DEF Paid
<1>6. Bought(q, I) \in Nat
  BY <1>2, <1>4, SumIsUnits DEF Bought
<1> QED BY <1>2, <1>4, <1>5, <1>6

\* One purchase more at the end of the list
LEMMA SumsGrow ==
  ASSUME NEW q \in Seq(Purchase), NEW p \in Purchase, NEW r, Appended(r, q, p),
         NEW I \in SUBSET (DOMAIN q), NEW J,
         \A i : i \in J <=> i \in I \/ i = Len(q) + 1
  PROVE  /\ Paid(r, I) = Paid(q, I)
         /\ Paid(r, J) = Paid(q, I) + p.paidUSDT
         /\ Bought(r, J) = Bought(q, I) + p.amountDDC
<1> DEFINE last == Len(q) + 1
<1>1. /\ Len(q) \in Nat /\ DOMAIN q = 1..Len(q)
      /\ r \in Seq(Purchase) /\ DOMAIN r = 1..last /\ r[last] = p
      /\ \A i \in I : r[i] = q[i]
  BY DEF Appended
<1>2. /\ last \notin I /\ last \in J /\ I \subseteq J
      /\ \A i \in J : i \in I \/ i = last
      /\ J \in SUBSET (DOMAIN r)
  BY <1>1
<1> HIDE DEF last
<1>3. Paid(r, I) = Paid(q, I)
  <2>1. [i \in I |-> r[i].paidUSDT] = [i \in I |-> q[i].paidUSDT]
    BY <1>1
  <2> QED BY <2>1 DEF Paid
<1>4. /\ IsFiniteSet(I)
      /\ [i \in I |-> q[i].paidUSDT] \in [I -> Nat]
      /\ [i \in I |-> q[i].amountDDC] \in [I -> Nat]
  BY SumsOfPlaces
<1>5. /\ [i \in J |-> r[i].paidUSDT] \in [J -> Nat]
      /\ [i \in J |-> r[i].amountDDC] \in [J -> Nat]
  BY <1>1, <1>2, SumsOfPlaces
<1>6. Paid(r, J) = Paid(q, I) + p.paidUSDT
  <2> DEFINE f == [i \in I |-> q[i].paidUSDT]
             g == [i \in J |-> r[i].paidUSDT]
  <2>1. g[last] = p.paidUSDT /\ \A i \in I : g[i] = f[i]
    BY <1>1, <1>2
  <2> HIDE DEF f, g
  <2>2. IsFiniteSet(I) /\ f \in [I -> Nat] /\ g \in [J -> Nat]
    BY <1>4, <1>5 DEF f, g
  <2>3. SumFunction(g) = SumFunction(f) + g[last]
    BY <1>2, <2>1, <2>2, SumInsert
  <2> QED BY <2>1, <2>3 DEF Paid, f, g
<1>7. Bought(r, J) = Bought(q, I) + p.amountDDC
  <2> DEFINE f == [i \in I |-> q[i].amountDDC]
             g == [i \in J |-> r[i].amountDDC]
  <2>1. g[last] = p.amountDDC /\ \A i \in I : g[i] = f[i]
    BY <1>1, <1>2
  <2> HIDE DEF f, g
  <2>2. IsFiniteSet(I) /\ f \in [I -> Nat] /\ g \in [J -> Nat]
    BY <1>4, <1>5 DEF f, g
  <2>3. SumFunction(g) = SumFunction(f) + g[last]
    BY <1>2, <2>1, <2>2, SumInsert
  <2> QED BY <2>1, <2>3 DEF Bought, f, g
<1> QED BY <1>3, <1>6, <1>7

\* What a purchase adds to the sums over the buyer's purchases
LEMMA PurchaseAdds ==
  ASSUME NEW q \in Seq(Purchase), NEW p \in Purchase, NEW r, Appended(r, q, p)
  PROVE  /\ Paid(r, DOMAIN r) = Paid(q, DOMAIN q) + p.paidUSDT
         /\ Bought(r, DOMAIN r) = Bought(q, DOMAIN q) + p.amountDDC
         /\ \A id \in BatchIds :
              Paid(r, Of(r, id)) =
                Paid(q, Of(q, id)) + (IF p.batchId = id THEN p.paidUSDT ELSE 0)
<1>1. /\ Len(q) \in Nat /\ DOMAIN q = 1..Len(q)
      /\ r \in Seq(Purchase) /\ DOMAIN r = 1..Len(q)+1 /\ r[Len(q) + 1] = p
      /\ \A i \in DOMAIN q : r[i] = q[i]
  BY DEF Appended
<1>2. /\ Paid(r, DOMAIN r) = Paid(q, DOMAIN q) + p.paidUSDT
      /\ Bought(r, DOMAIN r) = Bought(q, DOMAIN q) + p.amountDDC
  <2>1. DOMAIN q \in SUBSET (DOMAIN q)
    OBVIOUS
  <2>2. \A i : i \in DOMAIN r <=> i \in DOMAIN q \/ i = Len(q) + 1
    BY <1>1
  <2> QED BY <2>1, <2>2, SumsGrow
<1>3. ASSUME NEW id \in BatchIds
      PROVE  Paid(r, Of(r, id)) =
               Paid(q, Of(q, id)) + (IF p.batchId = id THEN p.paidUSDT ELSE 0)
  <2>1. Of(q, id) \in SUBSET (DOMAIN q)
    BY DEF Of
  <2>2. Paid(q, Of(q, id)) \in Nat
    BY <2>1, SumsOfPlaces
  <2>3. CASE p.batchId = id
    <3>1. \A i : i \in Of(r, id) <=> i \in Of(q, id) \/ i = Len(q) + 1
      BY <1>1, <2>3 DEF Of
    <3>2. Paid(r, Of(r, id)) = Paid(q, Of(q, id)) + p.paidUSDT
      BY <2>1, <3>1, SumsGrow
    <3> QED BY <2>3, <3>2
  <2>4. CASE p.batchId # id
    <3>1. Of(r, id) = Of(q, id)
      BY <1>1, <2>4 DEF Of
    <3> DEFINE J == Of(q, id) \cup {Len(q) + 1}
    <3>2. \A i : i \in J <=> i \in Of(q, id) \/ i = Len(q) + 1
      OBVIOUS
    <3> HIDE DEF J
    <3>3. Paid(r, Of(q, id)) = Paid(q, Of(q, id))
      BY <2>1, <3>2, SumsGrow
    <3> QED BY <2>2, <2>4, <3>1, <3>3
  <2> QED BY <2>3, <2>4
<1> QED BY <1>2, <1>3

\* The properties' sums in these terms
LEMMA SumsOfBuyer ==
  ASSUME NEW u \in Users, NEW id \in BatchIds
  PROVE  /\ PaidBy(u) = Paid(userPurchases[u], DOMAIN userPurchases[u])
         /\ BoughtBy(u) = Bought(userPurchases[u], DOMAIN userPurchases[u])
         /\ PaidInBatch(u, id) = Paid(userPurchases[u], Of(userPurchases[u], id))
BY DEF PaidBy, BoughtBy, PaidInBatch, BoughtInBatch, Paid, Bought, Of

---------------------------------------------------------------------------
(* What the batches have sold *)

SameSold(x, s) == \A id \in BatchIds : x.batches[id].sold = s.batches[id].sold
SoldTotal(s) == SumFunction([id \in BatchIds |-> s.batches[id].sold])

LEMMA SameSoldTotal ==
  ASSUME NEW x, NEW s, SameSold(x, s)
  PROVE  SoldTotal(x) = SoldTotal(s)
<1>1. [id \in BatchIds |-> x.batches[id].sold] = [id \in BatchIds |-> s.batches[id].sold]
  BY DEF SameSold
<1> QED BY <1>1 DEF SoldTotal

\* A pass of the loop sells nothing, and the batch it opens has sold nothing.
LEMMA StepSellsNothing ==
  ASSUME NEW t \in Nat, NEW s, ScheduleInv(s, t)
  PROVE  SameSold(SyncStep(s, t), s)
<1> DEFINE id == s.currentBatchId
           b == s.batches[id]
<1>1. id \in BatchIds /\ b \in Batch
  BY CurrentBatch
<1>2. CASE ~Due(s, t)
  BY <1>2 DEF SyncStep, SameSold
<1>3. CASE Due(s, t) /\ id = TOTAL_BATCHES
  <2> DEFINE r == Closing(s)
  <2>1. SyncStep(s, t) = r
    BY <1>3 DEF SyncStep, Closing
  <2>2. /\ r.batches[id] = [b EXCEPT !.isClosed = TRUE]
        /\ \A j \in BatchIds \ {id} : r.batches[j] = s.batches[j]
    BY CloseShape
  <2>3. r.batches[id].sold = b.sold
    BY <1>1, <2>2, ClosedKeeps
  <2> HIDE DEF r, id, b
  <2> QED BY <2>1, <2>2, <2>3 DEF SameSold, b
<1>4. CASE Due(s, t) /\ id # TOTAL_BATCHES
  <2> DEFINE r == Advance(s, t)
  <2>1. SyncStep(s, t) = r
    BY <1>4 DEF SyncStep
  <2>2. /\ id + 1 \in BatchIds
        /\ r.batches[id] = [b EXCEPT !.isClosed = TRUE]
        /\ r.batches[id+1] = OpenedBatch(id + 1, Unsold(b), NextStart(b, t))
        /\ \A j \in BatchIds \ {id, id + 1} : r.batches[j] = s.batches[j]
    BY <1>4, AdvanceShape
  <2>3. r.batches[id].sold = b.sold
    BY <1>1, <2>2, ClosedKeeps
  <2>4. r.batches[id+1].sold = 0
    BY <2>2 DEF OpenedBatch
  <2>5. s.batches[id+1].sold = 0
    <3>1. s.batches[id+1] = Unopened
      BY <1>1, <2>2 DEF ScheduleInv, BatchIds
    <3> QED BY <3>1 DEF Unopened
  <2> HIDE DEF r, id, b
  <2> QED BY <2>1, <2>2, <2>3, <2>4, <2>5 DEF SameSold, b
<1> QED BY <1>2, <1>3, <1>4

LEMMA LoopSellsNothing ==
  ASSUME NEW t \in Nat, NEW s, ScheduleInv(s, t)
  PROVE  SameSold(SyncLoop(s, t), s)
<1> DEFINE G == {x \in Schedule : ScheduleInv(x, t) /\ SameSold(x, s)}
<1>1. s \in G
  BY DEF SameSold, ScheduleInv
<1>2. ASSUME NEW x \in G PROVE SyncStep(x, t) \in G
  <2>1. ScheduleInv(SyncStep(x, t), t) /\ SameSold(SyncStep(x, t), x)
    BY SyncStepKeeps, StepSellsNothing
  <2> QED BY <2>1 DEF SameSold, ScheduleInv
<1> HIDE DEF G
<1>3. SyncLoop(s, t) \in G
  BY <1>1, <1>2, SyncLoopInvariant
<1> QED BY <1>3 DEF G

\* A sync sells nothing.
LEMMA SyncSellsNothing ==
  ASSUME TypeOK, SaleInv
  PROVE  SameSold(Synced(schedule), schedule)
<1>1. CASE currentBatchId = 0
  <2>1. Synced(schedule) = schedule
    BY <1>1, SyncedSchedule
  <2> QED BY <2>1 DEF SameSold
<1>2. CASE currentBatchId # 0
  <2>1. SameSold(SyncLoop(schedule, now), schedule)
    BY <1>2, LoopSellsNothing DEF SaleInv, TypeOK
  <2> QED BY <2>1 DEF Synced, SameSold
<1> QED BY <1>1, <1>2

\* A sale adds what it sells to what the batches have sold.
LEMMA BuySells ==
  ASSUME TypeOK, SaleInv, NEW u \in Users, NEW amount \in PurchaseAmounts, NEW id \in TxIds,
         BuyAllowed(u, amount, id),
         NEW s, s = Synced(schedule), NEW b, b = s.batches[s.currentBatchId],
         NEW ddc, ddc = AmountDDC(amount, b)
  PROVE  SoldTotal(Synced(SellFrom(s, ddc))) = SoldTotal(schedule) + ddc
<1> DEFINE x == SellFrom(s, ddc)
           cid == s.currentBatchId
<1>1. /\ ~finalized /\ BatchOpen(b) /\ FitsBatch(ddc, b) /\ ddc \in Nat
      /\ ScheduleInv(s, now) /\ cid \in BatchIds /\ b \in Batch /\ s \in Schedule
  BY BuyBatch
<1>2. now \in Nat /\ ~b.isClosed /\ b.startTime <= now /\ now <= b.endTime
  BY <1>1 DEF BatchOpen, TypeOK
<1>3. ScheduleInv(x, now) /\ Synced(x) = SyncLoop(x, now)
  BY <1>1, <1>2, SellFromKeeps DEF Synced
<1>4. SoldTotal(Synced(x)) = SoldTotal(x)
  <2> HIDE DEF x
  <2> QED BY <1>2, <1>3, LoopSellsNothing, SameSoldTotal
<1>5. SoldTotal(s) = SoldTotal(schedule)
  BY SyncSellsNothing, SameSoldTotal
<1>6. SoldTotal(x) = SoldTotal(s) + ddc
  <2> DEFINE f == [j \in BatchIds |-> s.batches[j].sold]
             g == [j \in BatchIds |-> x.batches[j].sold]
  <2>1. s.batches \in [BatchIds -> Batch]
    BY <1>1 DEF Schedule
  <2>2. x.batches = [s.batches EXCEPT ![cid] = [b EXCEPT !.sold = @ + ddc]]
    BY <1>1 DEF SellFrom, Schedule
  <2>3. [b EXCEPT !.sold = @ + ddc] \in Batch
    BY <1>1 DEF Batch
  <2>4. [b EXCEPT !.sold = @ + ddc].sold = b.sold + ddc
    BY <1>1 DEF Batch
  <2> DEFINE c == [b EXCEPT !.sold = @ + ddc]
  <2> HIDE DEF c, x, cid
  <2>5. /\ x.batches \in [BatchIds -> Batch] /\ x.batches[cid].sold = b.sold + ddc
        /\ \A j \in BatchIds \ {cid} : x.batches[j] = s.batches[j]
    BY <1>1, <2>1, <2>2, <2>3, <2>4 DEF c
  <2>6. /\ f \in [BatchIds -> Nat] /\ g \in [BatchIds -> Nat]
        /\ g[cid] = f[cid] + ddc /\ \A j \in BatchIds \ {cid} : g[j] = f[j]
    BY <1>1, <2>1, <2>5 DEF Batch, cid
  <2>7. IsFiniteSet(BatchIds)
    BY ScheduleAssumption, FS_Interval DEF BatchIds
  <2> HIDE DEF f, g
  <2>8. SumFunction(g) = SumFunction(f) + ddc
    BY <1>1, <2>6, <2>7, SumRaise
  <2> QED BY <2>8 DEF f, g, SoldTotal
<1> QED BY <1>4, <1>5, <1>6

---------------------------------------------------------------------------
(* The totals and the buyers' lists agree *)

BooksInv ==
  /\ SumFunction(totalPurchased) = totalNominalSold
  /\ SoldTotal(schedule) = totalNominalSold
  /\ \A u \in Users :
       /\ totalPurchased[u] = BoughtBy(u)
       /\ \A id \in BatchIds : /\ PaidInBatch(u, id) = spentUsdtPerBatch[id][u]
                               /\ PaidInBatch(u, id) <= MAX_PURCHASE_USDT

LEMMA BuyersSums ==
  ASSUME TypeOK, NEW u \in Users
  PROVE  /\ PaidBy(u) \in Nat /\ BoughtBy(u) \in Nat
         /\ userPurchases[u] \in Seq(Purchase)
<1>1. userPurchases[u] \in Seq(Purchase)
  BY DEF TypeOK
<1>2. DOMAIN userPurchases[u] \in SUBSET (DOMAIN userPurchases[u])
  OBVIOUS
<1>3. BatchIds # {}
  BY ScheduleAssumption DEF BatchIds
<1>4. /\ Paid(userPurchases[u], DOMAIN userPurchases[u]) \in Nat
      /\ Bought(userPurchases[u], DOMAIN userPurchases[u]) \in Nat
  BY <1>1, <1>2, SumsOfPlaces
<1> QED BY <1>1, <1>3, <1>4, SumsOfBuyer

\* What a purchase changes in the buyers' accounts and lists
LEMMA BuyBooks ==
  ASSUME InductiveInv, NEW u \in Users, NEW amount \in PurchaseAmounts, NEW id \in TxIds,
         BuyWithUSDT(u, amount, id),
         NEW s, s = Synced(schedule), NEW b, b = s.batches[s.currentBatchId],
         NEW ddc, ddc = AmountDDC(amount, b)
  PROVE  /\ s.currentBatchId \in BatchIds /\ ddc \in Nat /\ amount \in Nat
         /\ PaidBy(u)' = PaidBy(u) + amount
         /\ BoughtBy(u)' = BoughtBy(u) + ddc
         /\ PaidInBatch(u, s.currentBatchId)' = PaidInBatch(u, s.currentBatchId) + amount
         /\ \A j \in BatchIds \ {s.currentBatchId} : PaidInBatch(u, j)' = PaidInBatch(u, j)
         /\ \A v \in Users \ {u} : /\ userPurchases'[v] = userPurchases[v]
                                   /\ PaidBy(v)' = PaidBy(v) /\ BoughtBy(v)' = BoughtBy(v)
                                   /\ \A j \in BatchIds : PaidInBatch(v, j)' = PaidInBatch(v, j)
<1> DEFINE cid == s.currentBatchId
           p == [batchId |-> cid, amountDDC |-> ddc, paidUSDT |-> amount, txId |-> id]
<1>1. /\ TypeOK /\ SaleInv /\ BuyAllowed(u, amount, id)
  BY DEF InductiveInv, BuyWithUSDT
<1>2. cid \in BatchIds /\ ddc \in Nat /\ amount \in Nat
  BY <1>1, BuyBatch
<1>3. userPurchases' = [userPurchases EXCEPT ![u] = Append(@, p)]
  BY DEF BuyWithUSDT, RecordSale
<1>4. p \in Purchase /\ p.batchId = cid /\ p.amountDDC = ddc /\ p.paidUSDT = amount
  BY <1>2 DEF Purchase
<1> HIDE DEF p
<1>5. userPurchases \in [Users -> Seq(Purchase)]
  BY <1>1 DEF TypeOK
<1>6. /\ Appended(userPurchases'[u], userPurchases[u], p)
      /\ \A v \in Users \ {u} : userPurchases'[v] = userPurchases[v]
  BY <1>3, <1>5 DEF Appended
<1>7. /\ Paid(userPurchases'[u], DOMAIN userPurchases'[u])
           = Paid(userPurchases[u], DOMAIN userPurchases[u]) + amount
      /\ Bought(userPurchases'[u], DOMAIN userPurchases'[u])
           = Bought(userPurchases[u], DOMAIN userPurchases[u]) + ddc
      /\ \A j \in BatchIds :
           Paid(userPurchases'[u], Of(userPurchases'[u], j)) =
             Paid(userPurchases[u], Of(userPurchases[u], j)) + (IF cid = j THEN amount ELSE 0)
  BY <1>4, <1>5, <1>6, PurchaseAdds
<1>8. \A v \in Users, j \in BatchIds :
        /\ PaidBy(v)' = Paid(userPurchases'[v], DOMAIN userPurchases'[v])
        /\ BoughtBy(v)' = Bought(userPurchases'[v], DOMAIN userPurchases'[v])
        /\ PaidInBatch(v, j)' = Paid(userPurchases'[v], Of(userPurchases'[v], j))
  BY DEF PaidBy, BoughtBy, PaidInBatch, BoughtInBatch, Paid, Bought, Of
<1>9. \A j \in BatchIds : Paid(userPurchases[u], Of(userPurchases[u], j)) \in Nat
  <2>1. \A j \in BatchIds : Of(userPurchases[u], j) \in SUBSET (DOMAIN userPurchases[u])
    BY DEF Of
  <2> QED BY <1>5, <2>1, SumsOfPlaces
<1> HIDE DEF cid
<1>10. /\ PaidBy(u)' = PaidBy(u) + amount
       /\ BoughtBy(u)' = BoughtBy(u) + ddc
       /\ PaidInBatch(u, cid)' = PaidInBatch(u, cid) + amount
       /\ \A j \in BatchIds \ {cid} : PaidInBatch(u, j)' = PaidInBatch(u, j)
  BY <1>2, <1>7, <1>8, <1>9, SumsOfBuyer
<1>11. ASSUME NEW v \in Users \ {u}, NEW j \in BatchIds
       PROVE  /\ PaidBy(v)' = PaidBy(v) /\ BoughtBy(v)' = BoughtBy(v)
              /\ PaidInBatch(v, j)' = PaidInBatch(v, j)
  BY <1>6, <1>8, SumsOfBuyer
<1> QED BY <1>2, <1>6, <1>10, <1>11 DEF cid

LEMMA BuyBooksInv ==
  ASSUME InductiveInv, BooksInv,
         NEW u \in Users, NEW amount \in PurchaseAmounts, NEW id \in TxIds,
         BuyWithUSDT(u, amount, id),
         NEW s, s = Synced(schedule), NEW b, b = s.batches[s.currentBatchId],
         NEW ddc, ddc = AmountDDC(amount, b)
  PROVE  BooksInv'
<1> DEFINE cid == s.currentBatchId
<1>1. TypeOK /\ SaleInv /\ BuyAllowed(u, amount, id)
  BY DEF InductiveInv, BuyWithUSDT
<1>2. /\ cid \in BatchIds /\ ddc \in Nat /\ amount \in Nat
      /\ PaidBy(u)' = PaidBy(u) + amount
      /\ BoughtBy(u)' = BoughtBy(u) + ddc
      /\ PaidInBatch(u, cid)' = PaidInBatch(u, cid) + amount
      /\ \A j \in BatchIds \ {cid} : PaidInBatch(u, j)' = PaidInBatch(u, j)
      /\ \A v \in Users \ {u} : /\ PaidBy(v)' = PaidBy(v) /\ BoughtBy(v)' = BoughtBy(v)
                                /\ \A j \in BatchIds : PaidInBatch(v, j)' = PaidInBatch(v, j)
  BY BuyBooks
<1>3. /\ RecordSale(u, amount, ddc, cid, id) /\ NotifyRecorder(u, ddc, amount, id)
      /\ SetSchedule(Synced(SellFrom(s, ddc)))
  BY DEF BuyWithUSDT
<1>4. spentUsdtPerBatch[cid][u] + amount <= MAX_PURCHASE_USDT
  BY <1>1 DEF BuyAllowed, WithinLimits
<1>5. SoldTotal(Synced(SellFrom(s, ddc))) = SoldTotal(schedule) + ddc
      /\ Synced(SellFrom(s, ddc)) \in Schedule
  BY <1>1, BuySells, BuySchedule
<1>6. SoldTotal(schedule)' = SoldTotal(schedule) + ddc
  <2>1. schedule' = Synced(SellFrom(s, ddc))
    BY <1>3, <1>5, SetScheduleIs
  <2>2. SoldTotal(schedule)' = SoldTotal(schedule')
    BY DEF SoldTotal
  <2> QED BY <1>5, <2>1, <2>2
<1> HIDE DEF cid
<1>7. /\ totalPurchased \in [Users -> Nat] /\ totalNominalSold \in Nat
      /\ spentUsdtPerBatch \in [BatchIds -> [Users -> Nat]]
      /\ userTotals \in [Users -> Totals]
  BY <1>1 DEF TypeOK, RecorderTypeOK
<1>8. /\ totalPurchased' \in [Users -> Nat] /\ totalPurchased'[u] = totalPurchased[u] + ddc
      /\ \A v \in Users \ {u} : totalPurchased'[v] = totalPurchased[v]
      /\ totalNominalSold' = totalNominalSold + ddc
      /\ usedTxIds' = usedTxIds \cup {id}
  BY <1>2, <1>3, <1>7 DEF RecordSale
<1>9. SumFunction(totalPurchased') = totalNominalSold'
  <2>1. SumFunction(totalPurchased') = SumFunction(totalPurchased) + ddc
    BY <1>2, <1>7, <1>8, SumRaise, UsersAssumption
  <2> QED BY <1>8, <2>1 DEF BooksInv
<1>10. /\ spentUsdtPerBatch'[cid][u] = spentUsdtPerBatch[cid][u] + amount
       /\ \A v \in Users, j \in BatchIds :
            v # u \/ j # cid => spentUsdtPerBatch'[j][v] = spentUsdtPerBatch[j][v]
  <2>1. spentUsdtPerBatch' = [spentUsdtPerBatch EXCEPT ![cid][u] = @ + amount]
    BY <1>3 DEF RecordSale
  <2> QED BY <1>2, <1>7, <2>1
<1>11. ASSUME NEW v \in Users
       PROVE  /\ totalPurchased'[v] = BoughtBy(v)'
              /\ \A j \in BatchIds : /\ PaidInBatch(v, j)' = spentUsdtPerBatch'[j][v]
                                     /\ PaidInBatch(v, j)' <= MAX_PURCHASE_USDT
  <2>1. /\ totalPurchased[v] = BoughtBy(v)
        /\ \A j \in BatchIds : /\ PaidInBatch(v, j) = spentUsdtPerBatch[j][v]
                               /\ PaidInBatch(v, j) <= MAX_PURCHASE_USDT
    BY DEF BooksInv
  <2>2. CASE v = u
    <3>1. totalPurchased'[v] = BoughtBy(v)'
      BY <1>2, <1>8, <2>1, <2>2
    <3>2. /\ PaidInBatch(v, cid)' = spentUsdtPerBatch'[cid][v]
          /\ PaidInBatch(v, cid)' <= MAX_PURCHASE_USDT
      BY <1>2, <1>4, <1>10, <2>1, <2>2
    <3>3. ASSUME NEW j \in BatchIds \ {cid}
          PROVE  /\ PaidInBatch(v, j)' = spentUsdtPerBatch'[j][v]
                 /\ PaidInBatch(v, j)' <= MAX_PURCHASE_USDT
      BY <1>2, <1>10, <2>1, <2>2
    <3> QED BY <3>1, <3>2, <3>3
  <2>3. CASE v # u
    BY <1>2, <1>8, <1>10, <2>1, <2>3
  <2> QED BY <2>2, <2>3
<1>13. SoldTotal(schedule)' = totalNominalSold'
  BY <1>6, <1>8 DEF BooksInv
<1> QED BY <1>9, <1>11, <1>13 DEF BooksInv

\* Without a purchase the books do not change.
LEMMA OtherBooksInv ==
  ASSUME BooksInv, SameSold(schedule', schedule), UNCHANGED salesVars
  PROVE  BooksInv'
<1>1. /\ totalPurchased' = totalPurchased /\ totalNominalSold' = totalNominalSold
      /\ userPurchases' = userPurchases /\ spentUsdtPerBatch' = spentUsdtPerBatch
      /\ usedTxIds' = usedTxIds
  BY DEF salesVars
<1>2. SoldTotal(schedule)' = SoldTotal(schedule)
  <2>1. SoldTotal(schedule') = SoldTotal(schedule)
    BY SameSoldTotal
  <2> QED BY <2>1 DEF SoldTotal
<1>3. \A u \in Users : PaidBy(u)' = PaidBy(u) /\ BoughtBy(u)' = BoughtBy(u)
  BY <1>1 DEF PaidBy, BoughtBy
<1>4. \A u \in Users, id \in BatchIds : PaidInBatch(u, id)' = PaidInBatch(u, id)
  BY <1>1 DEF PaidInBatch, BoughtInBatch
<1> QED BY <1>1, <1>2, <1>3, <1>4 DEF BooksInv

LEMMA NextBooksInv ==
  ASSUME InductiveInv, BooksInv, [Next]_vars
  PROVE  BooksInv'
<1>1. TypeOK /\ SaleInv
  BY DEF InductiveInv
<1>2. ASSUME SetSchedule(Synced(schedule)), UNCHANGED salesVars
      PROVE  BooksInv'
  <2>1. schedule' = Synced(schedule)
    BY <1>1, <1>2, SyncedSchedule, SetScheduleIs
  <2>2. SameSold(schedule', schedule)
    BY <1>1, <2>1, SyncSellsNothing
  <2> QED BY <1>2, <2>2, OtherBooksInv
<1>3. ASSUME NEW start \in StartTimes, StartPresaleOnce(start) PROVE BooksInv'
  <2>1. /\ start \in Nat \ {0} /\ currentBatchId = 0
        /\ batches = [id \in BatchIds |-> Unopened]
    BY <1>1, <1>3, InputAssumption DEF StartPresaleOnce, SaleInv, EmptySchedule
  <2>2. StartedSchedule(schedule, start) \in Schedule
    BY <1>1, <2>1, StartedKeeps
  <2>3. schedule' = StartedSchedule(schedule, start)
    BY <1>3, <2>2, SetScheduleIs DEF StartPresaleOnce
  <2>4. SameSold(StartedSchedule(schedule, start), schedule)
    BY <2>1 DEF SameSold, StartedSchedule, schedule, OpenedBatch, Unopened
  <2> QED BY <1>3, <2>3, <2>4, OtherBooksInv DEF StartPresaleOnce
<1>4. ASSUME UNCHANGED <<scheduleVars, salesVars>>
      PROVE  BooksInv'
  <2>1. SameSold(schedule', schedule)
    BY <1>4 DEF scheduleVars, SameSold, schedule
  <2> QED BY <1>4, <2>1, OtherBooksInv
<1>5. ASSUME \/ SetRecorderOnce \/ Pause \/ Unpause
             \/ \E t \in TgeTimes : SetTGE(t)
             \/ \E a \in PresaleLinks : LinkRewardPool(a)
             \/ \E a \in Writers : ChangeWriter(a)
             \/ \E entry \in DirectRecords : RecordDirectly(entry)
             \/ \E amount \in FundAmounts : FundPresale(amount)
             \/ \E u \in Users : Claim(u)
             \/ SweepRaisedFundsToTreasury \/ WithdrawRaisedFunds
             \/ \E u \in Users, amount \in DirectUsdt : SendUsdt(u, amount)
             \/ Tick \/ UNCHANGED vars
      PROVE  BooksInv'
  <2>1. UNCHANGED <<scheduleVars, salesVars>>
    BY <1>5
       DEF SetRecorderOnce, Pause, Unpause, SetTGE, LinkRewardPool, ChangeWriter,
           RecordDirectly, FundPresale, Claim, SweepRaisedFundsToTreasury,
           WithdrawRaisedFunds, SendUsdt, Tick, vars
  <2> QED BY <1>4, <2>1, OtherBooksInv
<1>6. CASE AdvanceIfEnded
  BY <1>2, <1>6 DEF AdvanceIfEnded
<1>7. CASE Finalize
  BY <1>2, <1>7 DEF Finalize
<1> QED BY <1>3, <1>5, <1>6, <1>7, BuyBooksInv DEF Next, OwnerNext

LEMMA InitBooksInv == Init \/ DeployedInit => BooksInv
<1> SUFFICES ASSUME Init \/ DeployedInit PROVE BooksInv
  OBVIOUS
<1>1. /\ totalPurchased = [u \in Users |-> 0] /\ totalNominalSold = 0
      /\ batches = [id \in BatchIds |-> Unopened]
      /\ userPurchases = [u \in Users |-> << >>]
      /\ spentUsdtPerBatch = [id \in BatchIds |-> [u \in Users |-> 0]]
  BY DEF Init, DeployedInit, Constructed, EmptySchedule
<1>2. SumFunction(totalPurchased) = totalNominalSold
  BY <1>1, SumZero, UsersAssumption
<1>3. SoldTotal(schedule) = totalNominalSold
  <2>1. SoldTotal(schedule) = SumFunction([id \in BatchIds |-> 0])
    <3>1. [id \in BatchIds |-> schedule.batches[id].sold] = [id \in BatchIds |-> 0]
      BY <1>1 DEF schedule, Unopened
    <3> QED BY <3>1 DEF SoldTotal
  <2>2. IsFiniteSet(BatchIds)
    BY ScheduleAssumption, FS_Interval DEF BatchIds
  <2> QED BY <1>1, <2>1, <2>2, SumZero
<1>4. ASSUME NEW u \in Users
      PROVE  /\ PaidBy(u) = 0 /\ BoughtBy(u) = 0
             /\ \A id \in BatchIds : PaidInBatch(u, id) = 0
  <2>1. userPurchases[u] = << >> /\ DOMAIN userPurchases[u] = {}
    BY <1>1
  <2>2. ASSUME NEW f \in [{} -> Nat] PROVE SumFunction(f) = 0
    <3>1. f = [x \in {} |-> 0] /\ IsFiniteSet({})
      BY FS_EmptySet
    <3> QED BY <3>1, SumZero
  <2>3. /\ [i \in DOMAIN userPurchases[u] |-> userPurchases[u][i].paidUSDT] \in [{} -> Nat]
        /\ [i \in DOMAIN userPurchases[u] |-> userPurchases[u][i].amountDDC] \in [{} -> Nat]
    BY <2>1
  <2>4. ASSUME NEW id \in BatchIds PROVE PaidInBatch(u, id) = 0
    <3>1. BoughtInBatch(u, id) = {}
      BY <2>1 DEF BoughtInBatch
    <3>2. [i \in BoughtInBatch(u, id) |-> userPurchases[u][i].paidUSDT] \in [{} -> Nat]
      BY <3>1
    <3> QED BY <2>2, <3>2 DEF PaidInBatch
  <2> QED BY <2>2, <2>3, <2>4 DEF PaidBy, BoughtBy
<1> QED BY <1>1, <1>2, <1>3, <1>4, PresaleAssumption DEF BooksInv

LEMMA BooksInvariance == Spec \/ DeployedSpec => []BooksInv
<1>1. Init \/ DeployedInit => BooksInv
  BY InitBooksInv
<1>2. InductiveInv /\ BooksInv /\ [Next]_vars => BooksInv'
  BY NextBooksInv
<1> QED BY <1>1, <1>2, Invariance, PTL DEF Spec, DeployedSpec

\* The sums of the buyers' accounts, of what the batches have sold and of what
\* the buyers' lists say are the totals the contract keeps on the side.
THEOREM TotalsAddUp == Spec \/ DeployedSpec => []SalesAddUp
<1>1. ASSUME InductiveInv, BooksInv PROVE SalesAddUp
  <2>1. SumFunction([id \in BatchIds |-> batches[id].sold]) = totalNominalSold
    <3>1. SoldTotal(schedule) = SumFunction([id \in BatchIds |-> batches[id].sold])
      BY DEF SoldTotal, schedule
    <3> QED BY <1>1, <3>1 DEF BooksInv
  <2> QED BY <1>1, <2>1 DEF InductiveInv, BooksInv, AccountsInv, HalvesInv, SalesAddUp
<1> QED BY <1>1, Invariance, BooksInvariance, PTL

\* No buyer gets past the limit of a batch in several purchases.
THEOREM LimitHolds == Spec \/ DeployedSpec => []SpendCapPerBatch
<1>1. BooksInv => SpendCapPerBatch
  BY DEF BooksInv, SpendCapPerBatch
<1> QED BY <1>1, BooksInvariance, PTL

---------------------------------------------------------------------------
(* The recorder *)

\* A new entry: the reference is new, and the entry ends the user's list and
\* the global one.
Recorded(u, e) ==
  /\ e.sourceRef \notin recordedSourceRef
  /\ recordedSourceRef' = recordedSourceRef \cup {e.sourceRef}
  /\ recordedPurchases' = [recordedPurchases EXCEPT ![u] = Append(@, e)]
  /\ globalPurchases' = Append(globalPurchases, e)
  /\ userTotals' = [userTotals EXCEPT ![u] = AddToTotals(@, e.ddcAmount, e.payAmount)]

recordedVars == <<recordedSourceRef, recordedPurchases, globalPurchases, userTotals>>

LEMMA RecordIs ==
  ASSUME NEW caller, NEW u, NEW ddc, NEW amount, NEW ref,
         RecordPurchase(caller, u, ddc, amount, ref)
  PROVE  Recorded(u, [ddcAmount |-> ddc, payAmount |-> amount, sourceRef |-> ref])
BY DEF RecordPurchase, RecordAccepted, Recorded

\* Only a purchase or a direct call touches the lists.
LEMMA RecorderSteps ==
  ASSUME InductiveInv, [Next]_vars
  PROVE  \/ UNCHANGED recordedVars
         \/ \E u \in Users, e \in RecorderEntry : Recorded(u, e)
<1>1. ASSUME NEW u \in Users, NEW amount \in PurchaseAmounts, NEW id \in TxIds,
             BuyWithUSDT(u, amount, id)
      PROVE  \/ UNCHANGED recordedVars
             \/ \E v \in Users, e \in RecorderEntry : Recorded(v, e)
  <2> DEFINE s == Synced(schedule)
             ddc == AmountDDC(amount, s.batches[s.currentBatchId])
             x == [ddcAmount |-> ddc, payAmount |-> amount, sourceRef |-> id]
  <2>1. NotifyRecorder(u, ddc, amount, id)
    BY <1>1 DEF BuyWithUSDT
  <2>2. ddc \in Nat /\ amount \in Nat /\ id \in SourceRefs
    BY <1>1, BuyBatch, PresaleAssumption DEF BuyWithUSDT, InductiveInv
  <2> HIDE DEF ddc
  <2>3. x \in RecorderEntry
    BY <2>2 DEF RecorderEntry
  <2>4. UNCHANGED recordedVars \/ Recorded(u, x)
    BY <2>1, RecordIs DEF NotifyRecorder, recorderVars, recordedVars
  <2> QED BY <2>3, <2>4
<1>2. ASSUME NEW entry \in DirectRecords, RecordDirectly(entry)
      PROVE  \E v \in Users, e \in RecorderEntry : Recorded(v, e)
  <2> DEFINE x == [ddcAmount |-> entry.ddcAmount, payAmount |-> entry.payAmount,
                   sourceRef |-> entry.sourceRef]
  <2>1. entry.user \in Users /\ x \in RecorderEntry
    BY InputAssumption DEF RecorderEntry
  <2>2. Recorded(entry.user, x)
    BY <1>2, RecordIs DEF RecordDirectly
  <2> QED BY <2>1, <2>2
<1>3. ASSUME NEW a \in Writers, ChangeWriter(a) PROVE UNCHANGED recordedVars
  BY <1>3 DEF ChangeWriter, SetWriter, recordedVars
<1>4. ASSUME UNCHANGED recorderVars PROVE UNCHANGED recordedVars
  BY <1>4 DEF recorderVars, recordedVars
<1> QED BY <1>1, <1>2, <1>3, <1>4
        DEF Next, OwnerNext, StartPresaleOnce, SetRecorderOnce, Pause, Unpause, SetTGE,
            LinkRewardPool, FundPresale, AdvanceIfEnded, Claim, Finalize,
            SweepRaisedFundsToTreasury, WithdrawRaisedFunds, SendUsdt, Tick, vars

DdcSum(q) == SumFunction([k \in DOMAIN q |-> q[k].ddcAmount])
UsdtSum(q) == SumFunction([k \in DOMAIN q |-> q[k].payAmount])

\* One entry more at the end of a list
LEMMA EntriesAdd ==
  ASSUME NEW q \in Seq(RecorderEntry), NEW e \in RecorderEntry, NEW r, r = Append(q, e)
  PROVE  /\ DdcSum(r) = DdcSum(q) + e.ddcAmount
         /\ UsdtSum(r) = UsdtSum(q) + e.payAmount
<1> DEFINE n == Len(q)
           last == n + 1
<1>1. /\ n \in Nat /\ DOMAIN q = 1..n /\ DOMAIN r = 1..last
      /\ r[last] = e /\ \A i \in 1..n : r[i] = q[i] /\ q[i] \in RecorderEntry
  OBVIOUS
<1>2. last \in 1..last /\ \A i \in 1..last : i \in 1..n \/ i = last
  BY <1>1
<1>3. e.ddcAmount \in Nat /\ e.payAmount \in Nat
  BY DEF RecorderEntry
<1>4. DdcSum(r) = DdcSum(q) + e.ddcAmount
  <2> DEFINE f == [k \in 1..n |-> q[k].ddcAmount]
             g == [k \in 1..last |-> r[k].ddcAmount]
  <2>1. f \in [1..n -> Nat]
    BY <1>1 DEF RecorderEntry
  <2>2. g[last] = e.ddcAmount /\ \A i \in 1..n : g[i] = f[i]
    BY <1>1, <1>2
  <2>3. g \in [1..last -> Nat]
    BY <1>1, <1>2, <1>3, <2>1, <2>2
  <2>4. DdcSum(r) = SumFunction(g) /\ DdcSum(q) = SumFunction(f)
    BY <1>1 DEF DdcSum
  <2> HIDE DEF f, g, n
  <2>5. SumFunction(g) = SumFunction(f) + g[last]
    BY <1>1, <2>1, <2>2, <2>3, SumAtEnd DEF last
  <2> QED BY <2>2, <2>4, <2>5
<1>5. UsdtSum(r) = UsdtSum(q) + e.payAmount
  <2> DEFINE f == [k \in 1..n |-> q[k].payAmount]
             g == [k \in 1..last |-> r[k].payAmount]
  <2>1. f \in [1..n -> Nat]
    BY <1>1 DEF RecorderEntry
  <2>2. g[last] = e.payAmount /\ \A i \in 1..n : g[i] = f[i]
    BY <1>1, <1>2
  <2>3. g \in [1..last -> Nat]
    BY <1>1, <1>2, <1>3, <2>1, <2>2
  <2>4. UsdtSum(r) = SumFunction(g) /\ UsdtSum(q) = SumFunction(f)
    BY <1>1 DEF UsdtSum
  <2> HIDE DEF f, g, n
  <2>5. SumFunction(g) = SumFunction(f) + g[last]
    BY <1>1, <2>1, <2>2, <2>3, SumAtEnd DEF last
  <2> QED BY <2>2, <2>4, <2>5
<1> QED BY <1>4, <1>5

\* An entry with a new reference leaves every reference in one place.
LEMMA RecordAddsUp ==
  ASSUME RecorderTypeOK, RecorderAddsUp, NEW u \in Users, NEW e \in RecorderEntry, Recorded(u, e)
  PROVE  RecorderAddsUp'
<1> DEFINE P == recordedPurchases
           G == globalPurchases
           m == Len(P[u]) + 1
           n == Len(G) + 1
<1>1. /\ P \in [Users -> Seq(RecorderEntry)] /\ G \in Seq(RecorderEntry)
      /\ userTotals \in [Users -> Totals]
  BY DEF RecorderTypeOK
<1>2. /\ P' = [P EXCEPT ![u] = Append(@, e)] /\ G' = Append(G, e)
      /\ recordedSourceRef' = recordedSourceRef \cup {e.sourceRef}
      /\ e.sourceRef \notin recordedSourceRef
      /\ userTotals' = [userTotals EXCEPT ![u] = AddToTotals(@, e.ddcAmount, e.payAmount)]
  BY DEF Recorded
<1>3. /\ P'[u] = Append(P[u], e) /\ \A v \in Users \ {u} : P'[v] = P[v]
      /\ m \in Nat /\ n \in Nat
      /\ DOMAIN P[u] = 1..Len(P[u]) /\ DOMAIN P'[u] = DOMAIN P[u] \cup {m}
      /\ m \notin DOMAIN P[u]
      /\ P'[u][m] = e /\ \A k \in DOMAIN P[u] : P'[u][k] = P[u][k]
      /\ DOMAIN G' = DOMAIN G \cup {n} /\ n \notin DOMAIN G
      /\ G'[n] = e /\ \A i \in DOMAIN G : G'[i] = G[i]
  BY <1>1, <1>2
<1>4. /\ \A v \in Users : userTotals[v] = [ddc |-> ListedDdc(v), usdt |-> ListedUsdt(v)]
      /\ \A v, w \in Users : \A k \in DOMAIN P[v], l \in DOMAIN P[w] :
           P[v][k].sourceRef = P[w][l].sourceRef => v = w /\ k = l
      /\ \A i, j \in DOMAIN G : G[i].sourceRef = G[j].sourceRef => i = j
      /\ \A v \in Users : \A k \in DOMAIN P[v] : \E i \in DOMAIN G : G[i] = P[v][k]
      /\ \A i \in DOMAIN G : \E v \in Users : \E k \in DOMAIN P[v] : P[v][k] = G[i]
      /\ \A i \in DOMAIN G : G[i].sourceRef \in recordedSourceRef
      /\ \A ref \in recordedSourceRef : \E i \in DOMAIN G : G[i].sourceRef = ref
  <2>1. /\ \A v \in Users : userTotals[v] = [ddc |-> ListedDdc(v), usdt |-> ListedUsdt(v)]
        /\ \A v, w \in Users : \A k \in DOMAIN P[v], l \in DOMAIN P[w] :
             P[v][k].sourceRef = P[w][l].sourceRef => v = w /\ k = l
        /\ \A i, j \in DOMAIN G : G[i].sourceRef = G[j].sourceRef => i = j
        /\ \A v \in Users : Range(P[v]) \subseteq Range(G)
        /\ \A x \in Range(G) : \E v \in Users : x \in Range(P[v])
        /\ recordedSourceRef = {x.sourceRef : x \in Range(G)}
    BY DEF RecorderAddsUp
  <2>2. \A v \in Users : \A k \in DOMAIN P[v] : \E i \in DOMAIN G : G[i] = P[v][k]
    BY <2>1 DEF Range
  <2>3. \A i \in DOMAIN G : \E v \in Users : \E k \in DOMAIN P[v] : P[v][k] = G[i]
    BY <2>1 DEF Range
  <2>4. /\ \A i \in DOMAIN G : G[i].sourceRef \in recordedSourceRef
        /\ \A ref \in recordedSourceRef : \E i \in DOMAIN G : G[i].sourceRef = ref
    BY <2>1 DEF Range
  <2> QED BY <2>1, <2>2, <2>3, <2>4
<1>5. \A v \in Users : \A k \in DOMAIN P[v] : P[v][k].sourceRef # e.sourceRef
  BY <1>2, <1>4
<1>6. ASSUME NEW v \in Users
      PROVE  userTotals'[v] = [ddc |-> ListedDdc(v)', usdt |-> ListedUsdt(v)']
  <2>1. /\ ListedDdc(v) = DdcSum(P[v]) /\ ListedUsdt(v) = UsdtSum(P[v])
        /\ ListedDdc(v)' = DdcSum(P'[v]) /\ ListedUsdt(v)' = UsdtSum(P'[v])
    BY DEF ListedDdc, ListedUsdt, DdcSum, UsdtSum
  <2>2. CASE v = u
    <3>1. /\ DdcSum(P'[u]) = DdcSum(P[u]) + e.ddcAmount
          /\ UsdtSum(P'[u]) = UsdtSum(P[u]) + e.payAmount
      BY <1>1, <1>3, EntriesAdd
    <3>2. userTotals'[u] = AddToTotals(userTotals[u], e.ddcAmount, e.payAmount)
      BY <1>1, <1>2
    <3>3. userTotals[u].ddc = DdcSum(P[u]) /\ userTotals[u].usdt = UsdtSum(P[u])
      <4>1. userTotals[u] = [ddc |-> ListedDdc(u), usdt |-> ListedUsdt(u)]
        BY <1>4
      <4> QED BY <2>1, <2>2, <4>1
    <3> QED BY <2>1, <2>2, <3>1, <3>2, <3>3 DEF AddToTotals
  <2>3. CASE v # u
    BY <1>1, <1>2, <1>3, <1>4, <2>1, <2>3
  <2> QED BY <2>2, <2>3
<1>7. \A v, w \in Users : \A k \in DOMAIN P'[v], l \in DOMAIN P'[w] :
        P'[v][k].sourceRef = P'[w][l].sourceRef => v = w /\ k = l
  <2>1. ASSUME NEW v \in Users, NEW k \in DOMAIN P'[v]
        PROVE  \/ v = u /\ k = m /\ P'[v][k] = e
               \/ k \in DOMAIN P[v] /\ P'[v][k] = P[v][k]
    BY <1>3
  <2> HIDE DEF m
  <2> QED BY <1>4, <1>5, <2>1
<1>8. \A i, j \in DOMAIN G' : G'[i].sourceRef = G'[j].sourceRef => i = j
  BY <1>2, <1>3, <1>4
<1>9. /\ \A v \in Users : \A k \in DOMAIN P'[v] : \E i \in DOMAIN G' : G'[i] = P'[v][k]
      /\ \A i \in DOMAIN G' : \E v \in Users : \E k \in DOMAIN P'[v] : P'[v][k] = G'[i]
  <2>1. ASSUME NEW v \in Users, NEW k \in DOMAIN P'[v]
        PROVE  \E i \in DOMAIN G' : G'[i] = P'[v][k]
    <3>1. \/ P'[v][k] = e
          \/ k \in DOMAIN P[v] /\ P'[v][k] = P[v][k]
      BY <1>3
    <3>2. CASE P'[v][k] = e
      <4>1. n \in DOMAIN G' /\ G'[n] = e
        BY <1>3
      <4> QED BY <3>2, <4>1
    <3>3. CASE k \in DOMAIN P[v] /\ P'[v][k] = P[v][k]
      <4>1. PICK i \in DOMAIN G : G[i] = P[v][k]
        BY <1>4, <3>3
      <4>2. i \in DOMAIN G' /\ G'[i] = G[i]
        BY <1>3
      <4> QED BY <3>3, <4>1, <4>2
    <3> QED BY <3>1, <3>2, <3>3
  <2>2. ASSUME NEW i \in DOMAIN G' PROVE \E v \in Users : \E k \in DOMAIN P'[v] : P'[v][k] = G'[i]
    <3>1. CASE i = n
      BY <1>3, <3>1
    <3>2. CASE i \in DOMAIN G
      <4>1. PICK v \in Users : \E k \in DOMAIN P[v] : P[v][k] = G[i]
        BY <1>4, <3>2
      <4>2. PICK k \in DOMAIN P[v] : P[v][k] = G[i]
        BY <4>1
      <4>3. k \in DOMAIN P'[v] /\ P'[v][k] = P[v][k]
        BY <1>3, <4>2
      <4> QED BY <1>3, <3>2, <4>2, <4>3
    <3> QED BY <1>3, <3>1, <3>2
  <2> QED BY <2>1, <2>2
<1>10. recordedSourceRef' = {x.sourceRef : x \in Range(G')}
  <2>1. ASSUME NEW i \in DOMAIN G' PROVE G'[i].sourceRef \in recordedSourceRef'
    <3>1. G'[i] = e \/ (i \in DOMAIN G /\ G'[i] = G[i])
      BY <1>3
    <3> QED BY <1>2, <1>4, <3>1
  <2>2. ASSUME NEW ref \in recordedSourceRef' PROVE \E i \in DOMAIN G' : G'[i].sourceRef = ref
    <3>1. CASE ref = e.sourceRef
      <4>1. n \in DOMAIN G' /\ G'[n] = e
        BY <1>3
      <4> QED BY <3>1, <4>1
    <3>2. CASE ref \in recordedSourceRef
      <4>1. PICK i \in DOMAIN G : G[i].sourceRef = ref
        BY <1>4, <3>2
      <4>2. i \in DOMAIN G' /\ G'[i] = G[i]
        BY <1>3
      <4> QED BY <4>1, <4>2
    <3> QED BY <1>2, <3>1, <3>2
  <2> QED BY <2>1, <2>2 DEF Range
<1>11. /\ \A v \in Users : Range(P'[v]) \subseteq Range(G')
       /\ \A x \in Range(G') : \E v \in Users : x \in Range(P'[v])
  BY <1>9 DEF Range
<1> QED BY <1>6, <1>7, <1>8, <1>10, <1>11 DEF RecorderAddsUp

\* Purchases and direct calls of whoever is the writer, in any order: the
\* recorder's totals are the sums of what it lists, and no reference it ever
\* accepted is listed twice or lost.
THEOREM RecorderIsConsistent == Spec \/ DeployedSpec => []RecorderAddsUp
<1>1. Init \/ DeployedInit => RecorderAddsUp
  <2> SUFFICES ASSUME Init \/ DeployedInit PROVE RecorderAddsUp
    OBVIOUS
  <2>1. /\ recordedSourceRef = {} /\ globalPurchases = << >>
        /\ recordedPurchases = [u \in Users |-> << >>]
        /\ userTotals = [u \in Users |-> [ddc |-> 0, usdt |-> 0]]
    BY DEF Init, DeployedInit, Constructed, RecorderInit
  <2>2. ASSUME NEW u \in Users PROVE ListedDdc(u) = 0 /\ ListedUsdt(u) = 0
    <3>1. recordedPurchases[u] = << >> /\ DOMAIN recordedPurchases[u] = {}
      BY <2>1
    <3>2. /\ [k \in DOMAIN recordedPurchases[u] |-> recordedPurchases[u][k].ddcAmount]
               = [k \in {} |-> 0]
          /\ [k \in DOMAIN recordedPurchases[u] |-> recordedPurchases[u][k].payAmount]
               = [k \in {} |-> 0]
      BY <3>1
    <3> QED BY <3>2, SumZero, FS_EmptySet DEF ListedDdc, ListedUsdt
  <2>3. Range(globalPurchases) = {} /\ DOMAIN globalPurchases = {}
    BY <2>1 DEF Range
  <2>4. \A u \in Users : DOMAIN recordedPurchases[u] = {} /\ Range(recordedPurchases[u]) = {}
    BY <2>1 DEF Range
  <2> QED BY <2>1, <2>2, <2>3, <2>4 DEF RecorderAddsUp
<1>2. InductiveInv /\ RecorderAddsUp /\ [Next]_vars => RecorderAddsUp'
  <2> SUFFICES ASSUME InductiveInv, RecorderAddsUp, [Next]_vars PROVE RecorderAddsUp'
    OBVIOUS
  <2>1. CASE UNCHANGED recordedVars
    BY <2>1 DEF recordedVars, RecorderAddsUp, ListedDdc, ListedUsdt
  <2>2. ASSUME NEW u \in Users, NEW e \in RecorderEntry, Recorded(u, e) PROVE RecorderAddsUp'
    BY <2>2, RecordAddsUp DEF InductiveInv, TypeOK
  <2> QED BY <2>1, <2>2, RecorderSteps
<1> QED BY <1>1, <1>2, Invariance, PTL DEF Spec, DeployedSpec

---------------------------------------------------------------------------
(* The recorder of a deployed presale *)

MirrorInv ==
  /\ recorderSet
  /\ \A u \in Users : \A i \in DOMAIN userPurchases[u] : userPurchases[u][i].txId \in usedTxIds
  /\ \A u \in Users : \A k \in DOMAIN recordedPurchases[u] :
       recordedPurchases[u][k].sourceRef \in recordedSourceRef
  /\ RecorderMirrorsSales

\* What RecorderMirrorsSales says of one buyer
Mirrored(sales, listed, used) ==
  /\ \A i \in DOMAIN sales : \E k \in DOMAIN listed : listed[k] = EntryOf(sales[i])
  /\ \A k \in DOMAIN listed :
       listed[k].sourceRef \in used => \E i \in DOMAIN sales : listed[k] = EntryOf(sales[i])
  /\ \A i, j \in DOMAIN sales, k, l \in DOMAIN listed :
       listed[k] = EntryOf(sales[i]) /\ listed[l] = EntryOf(sales[j]) => (i < j <=> k < l)

LEMMA MirrorIs ==
  RecorderMirrorsSales <=>
    /\ usedTxIds \subseteq recordedSourceRef
    /\ \A u \in Users : /\ Mirrored(userPurchases[u], recordedPurchases[u], usedTxIds)
                        /\ userTotals[u].ddc >= totalPurchased[u]
                        /\ userTotals[u].usdt >= PaidBy(u)
BY DEF RecorderMirrorsSales, Mirrored, listUserPurchases

\* An entry under a txId no purchase has used, after the others
LEMMA MirroredDirect ==
  ASSUME NEW sales \in Seq(Purchase), NEW listed \in Seq(RecorderEntry), NEW used,
         NEW e \in RecorderEntry, e.sourceRef \notin used,
         \A i \in DOMAIN sales : sales[i].txId \in used,
         Mirrored(sales, listed, used)
  PROVE  Mirrored(sales, Append(listed, e), used)
<1> DEFINE r == Append(listed, e)
           m == Len(listed) + 1
<1>1. /\ DOMAIN r = DOMAIN listed \cup {m} /\ m \notin DOMAIN listed /\ r[m] = e
      /\ \A k \in DOMAIN listed : r[k] = listed[k]
  OBVIOUS
<1>2. \A i \in DOMAIN sales : EntryOf(sales[i]) # e
  BY DEF EntryOf
<1> HIDE DEF r, m
<1> QED BY <1>1, <1>2 DEF Mirrored, r

\* A purchase and its entry, each after the others
LEMMA MirroredSale ==
  ASSUME NEW sales \in Seq(Purchase), NEW listed \in Seq(RecorderEntry), NEW used,
         NEW p \in Purchase, p.txId \notin used,
         \A i \in DOMAIN sales : sales[i].txId \in used,
         \A k \in DOMAIN listed : listed[k].sourceRef # p.txId,
         Mirrored(sales, listed, used)
  PROVE  Mirrored(Append(sales, p), Append(listed, EntryOf(p)), used \cup {p.txId})
<1> DEFINE q == Append(sales, p)
           e == EntryOf(p)
           r == Append(listed, e)
           n == Len(sales) + 1
           m == Len(listed) + 1
<1>1. e.sourceRef = p.txId /\ \A i \in DOMAIN sales : EntryOf(sales[i]).sourceRef = sales[i].txId
  BY DEF EntryOf
<1>2. /\ DOMAIN q = DOMAIN sales \cup {n} /\ n \notin DOMAIN sales /\ q[n] = p
      /\ n \in Nat /\ \A i \in DOMAIN sales : q[i] = sales[i] /\ i \in Nat /\ i < n
  OBVIOUS
<1> HIDE DEF e
<1>3. /\ DOMAIN r = DOMAIN listed \cup {m} /\ m \notin DOMAIN listed /\ r[m] = e
      /\ m \in Nat /\ \A k \in DOMAIN listed : r[k] = listed[k] /\ k \in Nat /\ k < m
  OBVIOUS
<1> HIDE DEF q, r, n, m
<1>4. \A i \in DOMAIN q : \E k \in DOMAIN r : r[k] = EntryOf(q[i])
  BY <1>2, <1>3 DEF Mirrored, e
<1>5. \A k \in DOMAIN r : r[k].sourceRef \in used \cup {p.txId} =>
        \E i \in DOMAIN q : r[k] = EntryOf(q[i])
  <2>1. ASSUME NEW k \in DOMAIN listed, listed[k].sourceRef \in used \cup {p.txId}
        PROVE  \E i \in DOMAIN q : r[k] = EntryOf(q[i])
    BY <1>2, <1>3, <2>1 DEF Mirrored
  <2>2. r[m] = EntryOf(q[n])
    BY <1>2, <1>3 DEF e
  <2> QED BY <1>2, <1>3, <2>1, <2>2
<1>6. ASSUME NEW i \in DOMAIN q, NEW k \in DOMAIN r, r[k] = EntryOf(q[i])
      PROVE  \/ i = n /\ k = m
             \/ i \in DOMAIN sales /\ k \in DOMAIN listed /\ listed[k] = EntryOf(sales[i])
  <2>1. CASE i = n
    BY <1>1, <1>2, <1>3, <1>6, <2>1 DEF e
  <2>2. CASE i \in DOMAIN sales
    BY <1>1, <1>2, <1>3, <1>6, <2>2
  <2> QED BY <1>2, <2>1, <2>2
<1>7. ASSUME NEW i \in DOMAIN q, NEW j \in DOMAIN q, NEW k \in DOMAIN r, NEW l \in DOMAIN r,
             r[k] = EntryOf(q[i]), r[l] = EntryOf(q[j])
      PROVE  i < j <=> k < l
  <2>1. /\ \/ i = n /\ k = m
           \/ i \in DOMAIN sales /\ k \in DOMAIN listed /\ listed[k] = EntryOf(sales[i])
        /\ \/ j = n /\ l = m
           \/ j \in DOMAIN sales /\ l \in DOMAIN listed /\ listed[l] = EntryOf(sales[j])
    BY <1>6, <1>7
  <2>2. CASE i \in DOMAIN sales /\ k \in DOMAIN listed /\ j \in DOMAIN sales /\ l \in DOMAIN listed
    BY <1>2, <1>3, <2>1, <2>2 DEF Mirrored
  <2> QED BY <1>2, <1>3, <2>1, <2>2
<1> QED BY <1>4, <1>5, <1>7 DEF Mirrored, q, r, e

LEMMA BuyMirrorInv ==
  ASSUME InductiveInv, MirrorInv,
         NEW u \in Users, NEW amount \in PurchaseAmounts, NEW id \in TxIds,
         BuyWithUSDT(u, amount, id),
         NEW s, s = Synced(schedule), NEW b, b = s.batches[s.currentBatchId],
         NEW ddc, ddc = AmountDDC(amount, b)
  PROVE  MirrorInv'
<1> DEFINE cid == s.currentBatchId
           p == [batchId |-> cid, amountDDC |-> ddc, paidUSDT |-> amount, txId |-> id]
<1>1. TypeOK /\ id \notin usedTxIds
  BY DEF InductiveInv, BuyWithUSDT, BuyAllowed
<1>2. /\ cid \in BatchIds /\ ddc \in Nat /\ amount \in Nat
      /\ PaidBy(u)' = PaidBy(u) + amount
      /\ \A v \in Users \ {u} : /\ userPurchases'[v] = userPurchases[v]
                                /\ PaidBy(v)' = PaidBy(v)
  BY BuyBooks
<1>3. /\ RecordSale(u, amount, ddc, cid, id)
      /\ RecordPurchase(PRESALE, u, ddc, amount, id)
      /\ recorderSet' = recorderSet
  BY DEF BuyWithUSDT, NotifyRecorder, MirrorInv, ownerVars
<1>4. /\ userPurchases' = [userPurchases EXCEPT ![u] = Append(@, p)]
      /\ totalPurchased' = [totalPurchased EXCEPT ![u] = @ + ddc]
      /\ usedTxIds' = usedTxIds \cup {id}
  BY <1>3 DEF RecordSale
<1>5. /\ p \in Purchase /\ p.txId = id
      /\ EntryOf(p) = [ddcAmount |-> ddc, payAmount |-> amount, sourceRef |-> id]
  BY <1>2 DEF Purchase, EntryOf
<1>6. Recorded(u, EntryOf(p))
  BY <1>3, <1>5, RecordIs
<1> HIDE DEF p
<1>7. /\ id \notin recordedSourceRef /\ recordedSourceRef' = recordedSourceRef \cup {id}
      /\ recordedPurchases' = [recordedPurchases EXCEPT ![u] = Append(@, EntryOf(p))]
      /\ userTotals' = [userTotals EXCEPT ![u] = AddToTotals(@, ddc, amount)]
  BY <1>5, <1>6 DEF Recorded
<1>8. /\ userPurchases \in [Users -> Seq(Purchase)]
      /\ recordedPurchases \in [Users -> Seq(RecorderEntry)]
      /\ totalPurchased \in [Users -> Nat] /\ userTotals \in [Users -> Totals]
  BY <1>1 DEF TypeOK, RecorderTypeOK
<1>9. /\ \A v \in Users : \A i \in DOMAIN userPurchases[v] : userPurchases[v][i].txId \in usedTxIds
      /\ \A v \in Users : \A k \in DOMAIN recordedPurchases[v] :
           recordedPurchases[v][k].sourceRef \in recordedSourceRef
      /\ usedTxIds \subseteq recordedSourceRef
      /\ \A v \in Users : /\ Mirrored(userPurchases[v], recordedPurchases[v], usedTxIds)
                          /\ userTotals[v].ddc >= totalPurchased[v]
                          /\ userTotals[v].usdt >= PaidBy(v)
  BY MirrorIs DEF MirrorInv
<1> HIDE DEF cid
<1>10. /\ userPurchases'[u] = Append(userPurchases[u], p)
       /\ recordedPurchases'[u] = Append(recordedPurchases[u], EntryOf(p))
       /\ \A v \in Users \ {u} : recordedPurchases'[v] = recordedPurchases[v]
  BY <1>4, <1>7, <1>8
<1>11. Mirrored(userPurchases'[u], recordedPurchases'[u], usedTxIds')
  BY <1>1, <1>4, <1>5, <1>7, <1>8, <1>9, <1>10, MirroredSale
<1>12. ASSUME NEW v \in Users \ {u}
       PROVE  Mirrored(userPurchases'[v], recordedPurchases'[v], usedTxIds')
  <2>1. userPurchases'[v] = userPurchases[v] /\ recordedPurchases'[v] = recordedPurchases[v]
    BY <1>2, <1>10
  <2>2. \A k \in DOMAIN recordedPurchases[v] : recordedPurchases[v][k].sourceRef # id
    BY <1>7, <1>9
  <2> QED BY <1>4, <1>9, <2>1, <2>2 DEF Mirrored
<1>13. ASSUME NEW v \in Users
       PROVE  userTotals'[v].ddc >= totalPurchased'[v] /\ userTotals'[v].usdt >= PaidBy(v)'
  <2>1. /\ userTotals[v].ddc \in Nat /\ userTotals[v].usdt \in Nat
        /\ totalPurchased[v] \in Nat /\ PaidBy(v) \in Nat
        /\ userTotals[v].ddc >= totalPurchased[v] /\ userTotals[v].usdt >= PaidBy(v)
    BY <1>1, <1>8, <1>9, BuyersSums DEF Totals
  <2>2. CASE v = u
    <3>1. /\ userTotals'[v].ddc = userTotals[v].ddc + ddc
          /\ userTotals'[v].usdt = userTotals[v].usdt + amount
          /\ totalPurchased'[v] = totalPurchased[v] + ddc
      BY <1>4, <1>7, <1>8, <2>2 DEF AddToTotals
    <3> QED BY <1>2, <2>1, <2>2, <3>1
  <2>3. CASE v # u
    BY <1>2, <1>4, <1>7, <1>8, <2>1, <2>3
  <2> QED BY <2>2, <2>3
<1>14. ASSUME NEW v \in Users
       PROVE  /\ \A i \in DOMAIN userPurchases'[v] : userPurchases'[v][i].txId \in usedTxIds'
              /\ \A k \in DOMAIN recordedPurchases'[v] :
                   recordedPurchases'[v][k].sourceRef \in recordedSourceRef'
  <2>1. CASE v = u
    <3>1. \A i \in DOMAIN userPurchases'[u] : \/ i \in DOMAIN userPurchases[u] /\ userPurchases'[u][i] = userPurchases[u][i]
                                              \/ userPurchases'[u][i] = p
      BY <1>5, <1>8, <1>10
    <3>2. EntryOf(p) \in RecorderEntry /\ EntryOf(p).sourceRef = id
      BY <1>2, <1>5, PresaleAssumption DEF RecorderEntry
    <3>3. \A k \in DOMAIN recordedPurchases'[u] :
            \/ k \in DOMAIN recordedPurchases[u] /\ recordedPurchases'[u][k] = recordedPurchases[u][k]
            \/ recordedPurchases'[u][k] = EntryOf(p)
      BY <1>8, <1>10, <3>2
    <3> QED BY <1>4, <1>5, <1>7, <1>9, <2>1, <3>1, <3>2, <3>3
  <2>2. CASE v # u
    BY <1>2, <1>4, <1>7, <1>9, <1>10, <2>2
  <2> QED BY <2>1, <2>2
<1>15. usedTxIds' \subseteq recordedSourceRef'
  BY <1>4, <1>7, <1>9
<1>16. RecorderMirrorsSales'
  BY <1>11, <1>12, <1>13, <1>15 DEF RecorderMirrorsSales, Mirrored, listUserPurchases
<1> QED BY <1>3, <1>14, <1>16 DEF MirrorInv

LEMMA DirectMirrorInv ==
  ASSUME InductiveInv, MirrorInv, NEW u \in Users, NEW e \in RecorderEntry, Recorded(u, e),
         recorderSet' = recorderSet, UNCHANGED salesVars
  PROVE  MirrorInv'
<1>1. /\ userPurchases \in [Users -> Seq(Purchase)]
      /\ recordedPurchases \in [Users -> Seq(RecorderEntry)]
      /\ totalPurchased \in [Users -> Nat] /\ userTotals \in [Users -> Totals]
      /\ \A v \in Users : PaidBy(v) \in Nat
  BY BuyersSums DEF InductiveInv, TypeOK, RecorderTypeOK
<1>2. /\ \A v \in Users : \A i \in DOMAIN userPurchases[v] : userPurchases[v][i].txId \in usedTxIds
      /\ \A v \in Users : \A k \in DOMAIN recordedPurchases[v] :
           recordedPurchases[v][k].sourceRef \in recordedSourceRef
      /\ usedTxIds \subseteq recordedSourceRef
      /\ \A v \in Users : /\ Mirrored(userPurchases[v], recordedPurchases[v], usedTxIds)
                          /\ userTotals[v].ddc >= totalPurchased[v]
                          /\ userTotals[v].usdt >= PaidBy(v)
  BY MirrorIs DEF MirrorInv
<1>3. /\ e.sourceRef \notin recordedSourceRef
      /\ recordedSourceRef' = recordedSourceRef \cup {e.sourceRef}
      /\ recordedPurchases'[u] = Append(recordedPurchases[u], e)
      /\ \A v \in Users \ {u} : recordedPurchases'[v] = recordedPurchases[v]
      /\ userTotals' = [userTotals EXCEPT ![u] = AddToTotals(@, e.ddcAmount, e.payAmount)]
  BY <1>1 DEF Recorded
<1>4. /\ userPurchases' = userPurchases /\ usedTxIds' = usedTxIds
      /\ totalPurchased' = totalPurchased /\ \A v \in Users : PaidBy(v)' = PaidBy(v)
  BY DEF salesVars, PaidBy
<1>5. ASSUME NEW v \in Users PROVE Mirrored(userPurchases[v], recordedPurchases'[v], usedTxIds)
  <2>1. Mirrored(userPurchases[u], Append(recordedPurchases[u], e), usedTxIds)
    BY <1>1, <1>2, <1>3, MirroredDirect
  <2> QED BY <1>2, <1>3, <2>1
<1>6. ASSUME NEW v \in Users, NEW k \in DOMAIN recordedPurchases'[v]
      PROVE  recordedPurchases'[v][k].sourceRef \in recordedSourceRef'
  <2>1. \/ k \in DOMAIN recordedPurchases[v] /\ recordedPurchases'[v][k] = recordedPurchases[v][k]
        \/ recordedPurchases'[v][k] = e
    <3>1. recordedPurchases[v] \in Seq(RecorderEntry)
      BY <1>1
    <3>2. CASE v = u
      BY <1>3, <3>1, <3>2
    <3>3. CASE v # u
      BY <1>3, <3>3
    <3> QED BY <3>2, <3>3
  <2> QED BY <1>2, <1>3, <2>1
<1>7. ASSUME NEW v \in Users
      PROVE  userTotals'[v].ddc >= totalPurchased[v] /\ userTotals'[v].usdt >= PaidBy(v)
  <2>1. e.ddcAmount \in Nat /\ e.payAmount \in Nat
    BY DEF RecorderEntry
  <2>2. \/ userTotals'[v] = userTotals[v]
        \/ /\ userTotals'[v].ddc = userTotals[v].ddc + e.ddcAmount
           /\ userTotals'[v].usdt = userTotals[v].usdt + e.payAmount
    <3>1. v # u => userTotals'[v] = userTotals[v]
      BY <1>1, <1>3
    <3>2. v = u => userTotals'[v] = AddToTotals(userTotals[v], e.ddcAmount, e.payAmount)
      BY <1>1, <1>3
    <3> QED BY <3>1, <3>2 DEF AddToTotals
  <2>3. userTotals[v].ddc \in Nat /\ userTotals[v].usdt \in Nat /\ totalPurchased[v] \in Nat
    BY <1>1 DEF Totals
  <2>4. userTotals[v].ddc >= totalPurchased[v] /\ userTotals[v].usdt >= PaidBy(v) /\ PaidBy(v) \in Nat
    BY <1>1, <1>2
  <2> QED BY <2>1, <2>2, <2>3, <2>4
<1>8. RecorderMirrorsSales'
  BY <1>2, <1>3, <1>4, <1>5, <1>7 DEF RecorderMirrorsSales, Mirrored, listUserPurchases
<1> QED BY <1>2, <1>3, <1>4, <1>6, <1>8 DEF MirrorInv

LEMMA NextMirrorInv ==
  ASSUME InductiveInv, MirrorInv, [Next]_vars
  PROVE  MirrorInv'
<1>1. ASSUME UNCHANGED <<recorderSet, salesVars, recordedVars>> PROVE MirrorInv'
  <2>1. \A u \in Users : PaidBy(u)' = PaidBy(u)
    BY <1>1 DEF salesVars, PaidBy
  <2> QED BY <1>1, <2>1
          DEF MirrorInv, RecorderMirrorsSales, listUserPurchases, salesVars, recordedVars
<1>2. CASE SetRecorderOnce
  BY <1>2 DEF SetRecorderOnce, MirrorInv
<1>3. ASSUME NEW a \in Writers, ChangeWriter(a) PROVE MirrorInv'
  BY <1>1, <1>3 DEF ChangeWriter, SetWriter, ownerVars, recordedVars
<1>4. ASSUME NEW entry \in DirectRecords, RecordDirectly(entry) PROVE MirrorInv'
  <2>1. /\ recorderSet' = recorderSet /\ UNCHANGED salesVars
        /\ UNCHANGED recordedVars \/ \E u \in Users, e \in RecorderEntry : Recorded(u, e)
    BY <1>4, RecorderSteps DEF RecordDirectly, ownerVars
  <2> QED BY <1>1, <2>1, DirectMirrorInv
<1>5. ASSUME \/ Pause \/ Unpause
             \/ \E t \in StartTimes : StartPresaleOnce(t)
             \/ \E t \in TgeTimes : SetTGE(t)
             \/ \E a \in PresaleLinks : LinkRewardPool(a)
             \/ \E amount \in FundAmounts : FundPresale(amount)
             \/ \E u \in Users : Claim(u)
             \/ AdvanceIfEnded \/ Finalize
             \/ SweepRaisedFundsToTreasury \/ WithdrawRaisedFunds
             \/ \E u \in Users, amount \in DirectUsdt : SendUsdt(u, amount)
             \/ Tick \/ UNCHANGED vars
      PROVE  MirrorInv'
  <2>1. UNCHANGED <<recorderSet, salesVars, recorderVars>>
    BY <1>5
       DEF Pause, Unpause, StartPresaleOnce, SetTGE, LinkRewardPool, FundPresale, Claim,
           AdvanceIfEnded, Finalize, SweepRaisedFundsToTreasury, WithdrawRaisedFunds, SendUsdt,
           Tick, vars, ownerVars
  <2> QED BY <1>1, <2>1 DEF recorderVars, recordedVars
<1> QED BY <1>2, <1>3, <1>4, <1>5, BuyMirrorInv DEF Next, OwnerNext

LEMMA InitMirrorInv == DeployedInit => MirrorInv
<1> SUFFICES ASSUME DeployedInit PROVE MirrorInv
  OBVIOUS
<1>1. /\ recorderSet /\ totalPurchased = [u \in Users |-> 0]
      /\ userPurchases = [u \in Users |-> << >>] /\ usedTxIds = {}
      /\ recordedPurchases = [u \in Users |-> << >>]
      /\ userTotals = [u \in Users |-> [ddc |-> 0, usdt |-> 0]]
  BY DEF DeployedInit, Constructed, RecorderInit
<1>2. ASSUME NEW u \in Users
      PROVE  /\ DOMAIN userPurchases[u] = {} /\ DOMAIN recordedPurchases[u] = {}
             /\ PaidBy(u) = 0
  <2>1. userPurchases[u] = << >> /\ recordedPurchases[u] = << >>
    BY <1>1
  <2>2. [i \in DOMAIN userPurchases[u] |-> userPurchases[u][i].paidUSDT] = [i \in {} |-> 0]
    BY <2>1
  <2> QED BY <2>1, <2>2, SumZero, FS_EmptySet DEF PaidBy
<1> QED BY <1>1, <1>2 DEF MirrorInv, RecorderMirrorsSales, listUserPurchases

\* Whoever becomes the writer of a deployed recorder, and whatever the writer and
\* the owner record directly, under any reference: it has every purchase once, in
\* order, with nothing else under a purchase's txId, and totals that cover them.
THEOREM RecorderHasAllSales == DeployedSpec => []RecorderMirrorsSales
<1>1. MirrorInv => RecorderMirrorsSales
  BY DEF MirrorInv
<1>2. DeployedInit => MirrorInv
  BY InitMirrorInv
<1>3. InductiveInv /\ MirrorInv /\ [Next]_vars => MirrorInv'
  BY NextMirrorInv
<1>4. DeployedSpec => []MirrorInv
  BY <1>2, <1>3, Invariance, PTL DEF DeployedSpec
<1> QED BY <1>1, <1>4, PTL

---------------------------------------------------------------------------
(* The allocation as TokenAllocation has it *)

\* Before finalize the pool accounts for nothing, and then for all that is no buyer's.
DealtOut ==
  /\ ~finalized => burnLockedBalance = 0 /\ rewardEligibleBalance = 0
  /\ finalized => totalBuyerPrincipal + totalAccounted = PRESALE_NOMINAL_TOTAL

LEMMA NextDealtOut ==
  ASSUME InductiveInv, DealtOut, [Next]_vars
  PROVE  DealtOut'
<1>1. CASE Finalize
  <2>1. /\ TypeOK /\ SaleInv /\ HalvesInv /\ ~finalized
        /\ burnLockedBalance = 0 /\ rewardEligibleBalance = 0
    BY <1>1 DEF InductiveInv, DealtOut, Finalize, CanFinalize
  <2>2. /\ ResidualToRewardPool \in Nat /\ BurnTopUp \in Nat /\ totalBuyerPrincipal \in Nat
        /\ ResidualToRewardPool = PRESALE_NOMINAL_TOTAL - totalBuyerPrincipal
    BY <2>1, NeverOversold DEF ResidualToRewardPool, TypeOK
  <2>3. /\ finalized' /\ totalBuyerPrincipal' = totalBuyerPrincipal
        /\ burnLockedBalance' = burnLockedBalance + BurnTopUp
        /\ rewardEligibleBalance' = rewardEligibleBalance + (ResidualToRewardPool - BurnTopUp)
    BY <1>1 DEF Finalize, AccountPresaleReconciliation, salesVars
  <2>4. totalAccounted' = ResidualToRewardPool
    BY <2>1, <2>2, <2>3 DEF totalAccounted
  <2> QED BY <2>2, <2>3, <2>4, NominalTotal DEF DealtOut
<1>2. ASSUME NEW a \in PresaleLinks, LinkRewardPool(a) PROVE DealtOut'
  BY <1>2 DEF LinkRewardPool, SetPresaleOnce, DealtOut, totalAccounted, salesVars
<1>3. ASSUME NEW u \in Users, NEW amount \in PurchaseAmounts, NEW id \in TxIds,
             BuyWithUSDT(u, amount, id)
      PROVE  DealtOut'
  BY <1>3 DEF BuyWithUSDT, BuyAllowed, DealtOut, poolVars
<1>4. ASSUME UNCHANGED <<finalized, salesVars, poolVars>> PROVE DealtOut'
  BY <1>4 DEF DealtOut, totalAccounted, salesVars, poolVars
<1> QED BY <1>1, <1>2, <1>3, <1>4
        DEF Next, OwnerNext, StartPresaleOnce, SetRecorderOnce, Pause, Unpause, SetTGE,
            ChangeWriter, RecordDirectly, FundPresale, AdvanceIfEnded, Claim,
            SweepRaisedFundsToTreasury, WithdrawRaisedFunds, SendUsdt, Tick, vars

\* Whatever is bought, funded or called in between, finalize leaves no DDC of the nominal
\* total unaccounted for: each is the principal of a buyer or in the pool's accounts.
THEOREM NothingIsLeftOver == Spec \/ DeployedSpec => []DealtOut
<1>1. Init \/ DeployedInit => DealtOut
  BY DEF Init, DeployedInit, Constructed, PoolInit, DealtOut
<1> QED BY <1>1, NextDealtOut, Invariance, PTL DEF Spec, DeployedSpec

NotOversold == totalNominalSold <= PRESALE_NOMINAL_TOTAL

\* A purchase allots its buyer half of what it takes from the unsold.
LEMMA BuyIsSell ==
  ASSUME InductiveInv, NotOversold', NEW u \in Users, NEW amount \in PurchaseAmounts,
         NEW id \in TxIds, BuyWithUSDT(u, amount, id)
  PROVE  Allocation!Sell(u)
<1> DEFINE s == Synced(schedule)
           ddc == AmountDDC(amount, s.batches[s.currentBatchId])
<1>1. TypeOK /\ SaleInv /\ HalvesInv
  BY DEF InductiveInv
<1>2. BuyAllowed(u, amount, id)
  BY DEF BuyWithUSDT
<1>3. ddc \in Nat /\ FitsBatch(ddc, s.batches[s.currentBatchId]) /\ ~finalized
  BY <1>1, <1>2, BuyBatch
<1>4. /\ totalNominalSold' = totalNominalSold + ddc
      /\ vestingPrincipal' = [vestingPrincipal EXCEPT ![u] = @ + BuyerPart(ddc)]
      /\ UNCHANGED <<finalized, claimVars, poolVars>>
  BY DEF BuyWithUSDT, RecordSale
<1> HIDE DEF s, ddc
<1>5. ddc > 0
  BY <1>3 DEF FitsBatch
<1>6. totalNominalSold' <= PRESALE_NOMINAL_TOTAL
  BY DEF NotOversold
<1>7. ddc \in 1..(PRESALE_NOMINAL_TOTAL - totalNominalSold)
  <2>1. totalNominalSold \in Nat
    BY <1>1 DEF TypeOK
  <2> QED BY <1>3, <1>4, <1>5, <1>6, <2>1, NominalTotal
<1>8. /\ ~finalized
      /\ \E sale \in 1..(PRESALE_NOMINAL_TOTAL - totalNominalSold) :
           /\ totalNominalSold' = totalNominalSold + sale
           /\ vestingPrincipal' = [vestingPrincipal EXCEPT ![u] = @ + sale \div 2]
      /\ UNCHANGED <<claimed, finalized, totalAccounted, burnLockedBalance>>
  <2>1. UNCHANGED <<claimed, finalized, totalAccounted, burnLockedBalance>>
    BY <1>4 DEF claimVars, poolVars, totalAccounted
  <2>2. vestingPrincipal' = [vestingPrincipal EXCEPT ![u] = @ + ddc \div 2]
    BY <1>4 DEF BuyerPart
  <2> QED BY <1>3, <1>4, <1>7, <2>1, <2>2
<1> QED BY <1>8 DEF Allocation!Sell

\* A claim pays a buyer out of what is allotted.
LEMMA ClaimIsPay ==
  ASSUME InductiveInv, NEW u \in Users, Claim(u)
  PROVE  Allocation!Pay(u)
<1>1. TypeOK /\ AccountsInv
  BY DEF InductiveInv
<1>2. /\ claimable(u) \in Nat /\ claimed[u] + claimable(u) = Unlocked(u)
      /\ Unlocked(u) \in Nat /\ Unlocked(u) <= vestingPrincipal[u]
  BY <1>1, ClaimableType
<1>3. claimed[u] \in Nat /\ vestingPrincipal[u] \in Nat
  BY <1>1 DEF TypeOK
<1>4. /\ claimable(u) > 0 /\ claimed' = [claimed EXCEPT ![u] = @ + claimable(u)]
      /\ UNCHANGED <<totalNominalSold, vestingPrincipal, finalized, totalAccounted,
                     burnLockedBalance>>
  BY DEF Claim, salesVars, poolVars, totalAccounted
<1>5. claimable(u) \in 1..(vestingPrincipal[u] - claimed[u])
  BY <1>2, <1>3, <1>4
<1> QED BY <1>4, <1>5 DEF Allocation!Pay

LEMMA AllottedIsSum == Allocation!Allotted = SumFunction(vestingPrincipal)
BY DEF Allocation!Allotted, Allocation!SumFunction, Allocation!SumFunctionOnSet,
       Allocation!FoldFunctionOnSet, Allocation!MapThenFoldSet,
       SumFunction, SumFunctionOnSet, FoldFunctionOnSet, MapThenFoldSet

\* Finalize leaves the pool all that is no buyer's; the residual is never too small
\* for what is missing to the burn target.
LEMMA FinalizeIsClose ==
  ASSUME InductiveInv, DealtOut, Finalize
  PROVE  Allocation!Close
<1>1. TypeOK /\ SaleInv /\ HalvesInv /\ AccountsInv
  BY DEF InductiveInv
<1>2. /\ totalNominalSold \in Nat /\ totalBuyerPrincipal \in Nat
      /\ totalBurnLockedFromSales \in Nat
      /\ totalBuyerPrincipal + totalBurnLockedFromSales = totalNominalSold
      /\ totalBuyerPrincipal <= totalBurnLockedFromSales
      /\ SumFunction(vestingPrincipal) = totalBuyerPrincipal
  BY <1>1 DEF TypeOK, HalvesInv, AccountsInv
<1>3. PRESALE_BURN_TARGET \in Nat /\ PRESALE_BURN_TARGET <= PRESALE_NOMINAL_TOTAL
  BY BurnAssumption, PresaleAssumption, NominalTotal
<1>4. /\ ~finalized /\ finalized'
      /\ burnLockedBalance' = burnLockedBalance + BurnTopUp
      /\ rewardEligibleBalance' = rewardEligibleBalance + (ResidualToRewardPool - BurnTopUp)
      /\ burnLockedBalance = 0 /\ rewardEligibleBalance = 0
      /\ UNCHANGED <<totalNominalSold, vestingPrincipal, claimed>>
  BY DEF Finalize, CanFinalize, AccountPresaleReconciliation, DealtOut, salesVars, claimVars
<1>5. /\ ResidualToRewardPool \in Nat /\ BurnTopUp \in Nat
      /\ ResidualToRewardPool = PRESALE_NOMINAL_TOTAL - totalBuyerPrincipal
  BY <1>1, NeverOversold DEF ResidualToRewardPool
<1>6. BurnTopUp = IF totalBurnLockedFromSales >= PRESALE_BURN_TARGET THEN 0
                  ELSE PRESALE_BURN_TARGET - totalBurnLockedFromSales
  BY <1>2, <1>3, <1>5, NominalTotal DEF BurnTopUp
<1>7. totalNominalSold - totalBuyerPrincipal = totalBurnLockedFromSales
  BY <1>2
<1>8. burnLockedBalance' = BurnTopUp /\ totalAccounted' = ResidualToRewardPool
  BY <1>4, <1>5 DEF totalAccounted
<1>9. Allocation!Allotted = totalBuyerPrincipal
  BY <1>2, AllottedIsSum
<1>10. /\ totalAccounted' = PRESALE_NOMINAL_TOTAL - Allocation!Allotted
       /\ burnLockedBalance' = LET lockedBySales == totalNominalSold - Allocation!Allotted
                               IN  IF lockedBySales >= PRESALE_BURN_TARGET THEN 0
                                   ELSE PRESALE_BURN_TARGET - lockedBySales
  BY <1>5, <1>6, <1>7, <1>8, <1>9
<1> QED BY <1>4, <1>10 DEF Allocation!Close

\* Whatever else happens deals out nothing.
LEMMA StepAllocates ==
  ASSUME InductiveInv, NotOversold', DealtOut, [Next]_vars
  PROVE  [Allocation!AllocationNext]_(Allocation!allocationVars)
<1>1. ASSUME NEW a \in PresaleLinks, LinkRewardPool(a)
      PROVE  UNCHANGED <<finalized, salesVars, claimVars, totalAccounted, burnLockedBalance>>
  BY <1>1 DEF LinkRewardPool, SetPresaleOnce, totalAccounted
<1>2. ASSUME \/ SetRecorderOnce \/ Pause \/ Unpause
             \/ \E t \in StartTimes : StartPresaleOnce(t)
             \/ \E t \in TgeTimes : SetTGE(t)
             \/ \E a \in Writers : ChangeWriter(a)
             \/ \E entry \in DirectRecords : RecordDirectly(entry)
             \/ \E amount \in FundAmounts : FundPresale(amount)
             \/ AdvanceIfEnded
             \/ SweepRaisedFundsToTreasury \/ WithdrawRaisedFunds
             \/ \E u \in Users, amount \in DirectUsdt : SendUsdt(u, amount)
             \/ Tick \/ UNCHANGED vars
      PROVE  UNCHANGED <<finalized, salesVars, claimVars, totalAccounted, burnLockedBalance>>
  <2>1. UNCHANGED <<finalized, salesVars, claimVars, poolVars>>
    BY <1>2
       DEF SetRecorderOnce, Pause, Unpause, StartPresaleOnce, SetTGE, ChangeWriter, RecordDirectly,
           FundPresale,
           AdvanceIfEnded, SweepRaisedFundsToTreasury, WithdrawRaisedFunds, SendUsdt, Tick, vars
  <2> QED BY <2>1 DEF poolVars, totalAccounted
<1>3. ASSUME UNCHANGED <<finalized, salesVars, claimVars, totalAccounted, burnLockedBalance>>
      PROVE  UNCHANGED Allocation!allocationVars
  BY <1>3 DEF salesVars, claimVars, Allocation!allocationVars
<1>4. CASE Finalize
  BY <1>4, FinalizeIsClose DEF Allocation!AllocationNext
<1>5. ASSUME NEW u \in Users, NEW amount \in PurchaseAmounts, NEW id \in TxIds,
             BuyWithUSDT(u, amount, id)
      PROVE  Allocation!AllocationNext
  BY <1>5, BuyIsSell DEF Allocation!AllocationNext
<1>6. ASSUME NEW u \in Users, Claim(u) PROVE Allocation!AllocationNext
  BY <1>6, ClaimIsPay DEF Allocation!AllocationNext
<1> QED BY <1>1, <1>2, <1>3, <1>4, <1>5, <1>6 DEF Next, OwnerNext

\* Whatever batches, prices, roundings and orders of calls, the presale deals out its
\* allocation as TokenAllocation promises: nothing is sold twice, nobody is paid more
\* than half of the own purchases, and closing leaves the pool exactly the rest.
THEOREM PresaleAllocates == Spec \/ DeployedSpec => IsAllocation
<1>1. Init \/ DeployedInit => Allocation!AllocationInit
  BY DEF Init, DeployedInit, Constructed, PoolInit, totalAccounted, Allocation!AllocationInit
<1>2. InductiveInv => NotOversold
  BY NeverOversold DEF InductiveInv, NotOversold
<1>3. InductiveInv /\ NotOversold' /\ DealtOut /\ [Next]_vars
        => [Allocation!AllocationNext]_(Allocation!allocationVars)
  BY StepAllocates
<1> QED BY <1>1, <1>2, <1>3, Invariance, NothingIsLeftOver, PTL
        DEF Spec, DeployedSpec, IsAllocation, Allocation!AllocationSpec
=============================================================================
