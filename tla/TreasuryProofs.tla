--------------------------- MODULE TreasuryProofs ---------------------------
(***************************************************************************)
(* The treasury's vaults and their timelock, for every delay, duration,    *)
(* allocation, month and time and for any number of queued transfers: no   *)
(* balance goes below zero, and no vault pays ahead of its schedule.       *)
(* What a claim takes is measured against what is due at that time, so the *)
(* invariant compares what was claimed with what is due now, and what is   *)
(* due only grows.                                                         *)
(***************************************************************************)
EXTENDS Treasury, FiniteSums

\* Nothing is claimed that is not due.
ClaimsAreDue ==
  /\ claimed <= vestedAmount
  /\ claimedMonths <= monthsDue
  /\ grantClaimed => finalized

TreasuryInv == TreasuryTypeOK /\ ClaimsAreDue

LEMMA TreasuryNumbers ==
  /\ MIN_DELAY \in Nat /\ startTime \in Nat /\ presaleStart \in Nat
  /\ MONTHLY_AMOUNT \in Nat /\ MAX_MONTHS \in Nat /\ GRANT_AMOUNT \in Nat
  /\ MaxTx \in Nat /\ MaxTime \in Nat
  /\ duration \in Nat \ {0} /\ totalAllocation \in Nat \ {0} /\ MONTH \in Nat \ {0}
  /\ \A call \in Calls : call.vault \in Vaults /\ call.amount \in Nat
BY TreasuryAssumption

LEMMA QuotientGrows ==
  ASSUME NEW a \in Nat, NEW b \in Nat, a <= b, NEW d \in Nat \ {0}
  PROVE  a \div d \in Nat /\ b \div d \in Nat /\ a \div d <= b \div d
OBVIOUS

LEMMA QuotientTimes ==
  ASSUME NEW a \in Nat, NEW d \in Nat \ {0}
  PROVE  (a \div d) * d <= a
OBVIOUS

LEMMA ProductGrows ==
  ASSUME NEW a \in Nat, NEW b \in Nat, NEW c \in Nat, b <= c
  PROVE  a * b \in Nat /\ a * c \in Nat /\ a * b <= a * c
OBVIOUS

LEMMA QuotientOfProduct ==
  ASSUME NEW a \in Nat, NEW d \in Nat \ {0}
  PROVE  (a * d) \div d = a
OBVIOUS

\* What has vested at a time t, and the months due then
VestedAt(t) ==
  IF t < startTime THEN 0
  ELSE IF t - startTime >= duration THEN totalAllocation
  ELSE (totalAllocation * (t - startTime)) \div duration

DueAt(t) ==
  IF t < opsStartTime THEN 0
  ELSE IF (t - opsStartTime) \div MONTH + 1 > MAX_MONTHS THEN MAX_MONTHS
  ELSE (t - opsStartTime) \div MONTH + 1

LEMMA DueNow == vestedAmount = VestedAt(now) /\ monthsDue = DueAt(now)
BY DEF vestedAmount, VestedAt, monthsDue, DueAt

\* The release is between nothing and the whole allocation.
LEMMA VestedBounds ==
  ASSUME NEW t \in Nat
  PROVE  VestedAt(t) \in Nat /\ VestedAt(t) <= totalAllocation
<1>1. CASE t < startTime BY <1>1, TreasuryNumbers DEF VestedAt
<1>2. CASE t >= startTime /\ t - startTime >= duration
  BY <1>2, TreasuryNumbers DEF VestedAt
<1>3. CASE t >= startTime /\ t - startTime < duration
  <2> DEFINE e == t - startTime
             x == totalAllocation * e
  <2>1. e \in Nat /\ e <= duration BY <1>3, TreasuryNumbers
  <2>2. VestedAt(t) = x \div duration BY <1>3, TreasuryNumbers DEF VestedAt
  <2> HIDE DEF e
  <2>3. x \in Nat /\ totalAllocation * duration \in Nat /\ x <= totalAllocation * duration
    BY <2>1, TreasuryNumbers, ProductGrows
  <2>4. x \div duration \in Nat
        /\ x \div duration <= (totalAllocation * duration) \div duration
    BY <2>3, TreasuryNumbers, QuotientGrows
  <2>5. (totalAllocation * duration) \div duration = totalAllocation
    BY TreasuryNumbers, QuotientOfProduct
  <2>6. QED BY <2>2, <2>4, <2>5
<1>4. QED BY <1>1, <1>2, <1>3, TreasuryNumbers

\* It only grows.
LEMMA VestedGrows ==
  ASSUME NEW t \in Nat
  PROVE  VestedAt(t) <= VestedAt(t + 1)
<1>1. CASE t < startTime
  BY <1>1, TreasuryNumbers, VestedBounds DEF VestedAt
<1>2. CASE t >= startTime /\ t + 1 - startTime >= duration
  <2>1. VestedAt(t + 1) = totalAllocation BY <1>2, TreasuryNumbers DEF VestedAt
  <2>2. QED BY <2>1, VestedBounds
<1>3. CASE t >= startTime /\ t + 1 - startTime < duration
  <2> DEFINE e == t - startTime
             f == t + 1 - startTime
  <2>1. e \in Nat /\ f \in Nat /\ e <= f BY <1>3, TreasuryNumbers
  <2>2. /\ VestedAt(t) = (totalAllocation * e) \div duration
        /\ VestedAt(t + 1) = (totalAllocation * f) \div duration
    BY <1>3, TreasuryNumbers DEF VestedAt
  <2> HIDE DEF e, f
  <2>3. /\ totalAllocation * e \in Nat /\ totalAllocation * f \in Nat
        /\ totalAllocation * e <= totalAllocation * f
    BY <2>1, TreasuryNumbers, ProductGrows
  <2>4. QED BY <2>2, <2>3, TreasuryNumbers, QuotientGrows
<1>4. QED BY <1>1, <1>2, <1>3, TreasuryNumbers

\* Rounded down, it is never ahead of the straight line.
LEMMA VestedBelowLine ==
  ASSUME NEW t \in Nat
  PROVE  VestedAt(t) * duration
           <= totalAllocation * (IF t < startTime THEN 0 ELSE t - startTime)
<1>1. CASE t < startTime BY <1>1, TreasuryNumbers DEF VestedAt
<1>2. CASE t >= startTime
  <2> DEFINE e == t - startTime
  <2>1. e \in Nat BY <1>2, TreasuryNumbers
  <2>2. VestedAt(t) = IF e >= duration THEN totalAllocation
                      ELSE (totalAllocation * e) \div duration
    BY <1>2, TreasuryNumbers DEF VestedAt
  <2> HIDE DEF e
  <2>3. VestedAt(t) * duration <= totalAllocation * e
    <3>1. CASE e >= duration
      BY <2>1, <2>2, <3>1, TreasuryNumbers, ProductGrows
    <3>2. CASE e < duration
      <4>1. totalAllocation * e \in Nat BY <2>1, TreasuryNumbers, ProductGrows
      <4>2. ((totalAllocation * e) \div duration) * duration <= totalAllocation * e
        BY <4>1, TreasuryNumbers, QuotientTimes
      <4>3. QED BY <2>1, <2>2, <3>2, <4>2, TreasuryNumbers
    <3>3. QED BY <2>1, <3>1, <3>2, TreasuryNumbers
  <2>4. (IF t < startTime THEN 0 ELSE t - startTime) = e
    BY <1>2, TreasuryNumbers DEF e
  <2>5. QED BY <2>3, <2>4
<1>3. QED BY <1>1, <1>2, TreasuryNumbers

LEMMA DueBounds ==
  ASSUME NEW t \in Nat
  PROVE  /\ DueAt(t) \in Nat /\ DueAt(t) <= MAX_MONTHS
         /\ DueAt(t) > 0 => presaleStart + DueAt(t) * MONTH <= t
<1>0. opsStartTime \in Nat /\ opsStartTime = presaleStart + MONTH
  BY TreasuryNumbers DEF opsStartTime
<1>1. CASE t < opsStartTime BY <1>1, TreasuryNumbers DEF DueAt
<1>2. CASE t >= opsStartTime
  <2> DEFINE e == t - opsStartTime
             q == e \div MONTH
  <2>1. e \in Nat /\ t = presaleStart + MONTH + e BY <1>0, <1>2, TreasuryNumbers
  <2>2. DueAt(t) = IF q + 1 > MAX_MONTHS THEN MAX_MONTHS ELSE q + 1
    BY <1>0, <1>2 DEF DueAt
  <2> HIDE DEF e
  <2>3. q \in Nat /\ q * MONTH <= e BY <2>1, TreasuryNumbers, QuotientGrows, QuotientTimes
  <2> HIDE DEF q
  <2>4. DueAt(t) \in Nat /\ DueAt(t) <= MAX_MONTHS /\ DueAt(t) <= q + 1
    BY <2>2, <2>3, TreasuryNumbers
  <2>5. DueAt(t) * MONTH <= (q + 1) * MONTH
    <3> DEFINE d == DueAt(t)
               r == q + 1
    <3>1. d \in Nat /\ r \in Nat /\ d <= r BY <2>3, <2>4
    <3> HIDE DEF d, r
    <3>2. MONTH * d <= MONTH * r BY <3>1, TreasuryNumbers, ProductGrows
    <3>3. d * MONTH <= r * MONTH BY <3>1, <3>2, TreasuryNumbers
    <3>4. QED BY <3>3 DEF d, r
  <2>6. (q + 1) * MONTH = q * MONTH + MONTH BY <2>3, TreasuryNumbers
  <2> DEFINE y == DueAt(t) * MONTH
             z == q * MONTH
  <2>7. y \in Nat /\ z \in Nat /\ y <= z + MONTH /\ z <= e
    BY <2>3, <2>4, <2>5, <2>6, TreasuryNumbers, ProductGrows
  <2> HIDE DEF y, z
  <2>8. presaleStart + y <= t BY <2>1, <2>7, TreasuryNumbers
  <2>9. QED BY <2>4, <2>8 DEF y
<1>3. QED BY <1>0, <1>1, <1>2

LEMMA DueGrows ==
  ASSUME NEW t \in Nat
  PROVE  DueAt(t) <= DueAt(t + 1)
<1>0. opsStartTime \in Nat BY TreasuryNumbers DEF opsStartTime
<1>1. CASE t < opsStartTime
  <2>1. DueAt(t) = 0 BY <1>1 DEF DueAt
  <2>2. QED BY <2>1, DueBounds
<1>2. CASE t >= opsStartTime
  <2> DEFINE q == (t - opsStartTime) \div MONTH
             r == (t + 1 - opsStartTime) \div MONTH
  <2>1. q \in Nat /\ r \in Nat /\ q <= r
    <3>1. /\ t - opsStartTime \in Nat /\ t + 1 - opsStartTime \in Nat
          /\ t - opsStartTime <= t + 1 - opsStartTime
      BY <1>0, <1>2
    <3>2. QED BY <3>1, TreasuryNumbers, QuotientGrows
  <2>2. /\ DueAt(t) = IF q + 1 > MAX_MONTHS THEN MAX_MONTHS ELSE q + 1
        /\ DueAt(t + 1) = IF r + 1 > MAX_MONTHS THEN MAX_MONTHS ELSE r + 1
    BY <1>0, <1>2 DEF DueAt
  <2> HIDE DEF q, r
  <2>3. QED BY <2>1, <2>2, TreasuryNumbers
<1>3. QED BY <1>0, <1>1, <1>2

---------------------------------------------------------------------------
(* The steps *)

LEMMA LedgerType ==
  ASSUME NEW bal \in [Accounts -> Nat], NEW from \in Accounts, NEW to \in Accounts,
         NEW amount \in Nat, CanTransfer(bal, from, amount)
  PROVE  Transfer(bal, from, to, amount) \in [Accounts -> Nat]
BY DEF CanTransfer, Transfer

LEMMA AccountsOfVaults ==
  /\ Vaults \subseteq Accounts
  /\ {TIMELOCK, LINEAR_VAULT, OPS_VAULT, GRANT_VAULT} \subseteq Accounts
  /\ {BENEFICIARY, OPS_WALLET, ADAMAS_WALLET} \subseteq Accounts
BY DEF Vaults, Accounts

LEMMA HeldType ==
  ASSUME NEW amount \in Nat
  PROVE  Held(amount) \in [Accounts -> Nat]
BY DEF Held

LEMMA TreasuryInvInitially == TreasuryInit => TreasuryInv
<1> SUFFICES ASSUME TreasuryInit PROVE TreasuryInv OBVIOUS
<1>1. /\ now = 0 /\ finalized = FALSE /\ nextTxId = 0 /\ queued = << >>
      /\ claimed = 0 /\ claimedMonths = 0 /\ grantClaimed = FALSE
  BY DEF TreasuryInit
<1>2. ddc \in [Accounts -> Nat] /\ usdt \in [Accounts -> Nat]
  <2>1. MAX_MONTHS * MONTHLY_AMOUNT + GRANT_AMOUNT \in Nat /\ totalAllocation \in Nat
    BY TreasuryNumbers, ProductGrows
  <2>2. QED BY <2>1, HeldType DEF TreasuryInit
<1>3. TreasuryTypeOK
  <2>1. DOMAIN queued = {} BY <1>1
  <2>2. 0 \in 0..MaxTime /\ 0 \in 0..MaxTx BY TreasuryNumbers
  <2>3. QED BY <1>1, <1>2, <2>1, <2>2 DEF TreasuryTypeOK
<1>4. ClaimsAreDue BY <1>1, DueNow, VestedBounds, DueBounds DEF ClaimsAreDue
<1>5. QED BY <1>3, <1>4 DEF TreasuryInv

\* What is due does not change unless time passes.
LEMMA SameTime ==
  ASSUME now' = now
  PROVE  vestedAmount' = vestedAmount /\ monthsDue' = monthsDue
BY DEF vestedAmount, monthsDue, opsStartTime

LEMMA DueIsNumber ==
  ASSUME TreasuryInv
  PROVE  /\ now \in Nat /\ claimed \in Nat /\ claimedMonths \in Nat
         /\ vestedAmount \in Nat /\ monthsDue \in Nat
BY DueNow, VestedBounds, DueBounds, TreasuryNumbers DEF TreasuryInv, TreasuryTypeOK

LEMMA PassKeeps ==
  ASSUME TreasuryInv, Pass
  PROVE  TreasuryInv'
<1>1. /\ now' = now + 1 /\ now < MaxTime
      /\ UNCHANGED <<finalized, ddc, usdt, nextTxId, queued, claimed, claimedMonths, grantClaimed>>
  BY DEF Pass, timelock, claims
<1>2. TreasuryTypeOK'
  BY <1>1, TreasuryNumbers DEF TreasuryInv, TreasuryTypeOK
<1>3. vestedAmount' = VestedAt(now') /\ monthsDue' = DueAt(now')
  BY DEF vestedAmount, VestedAt, monthsDue, DueAt, opsStartTime
<1>4. vestedAmount <= vestedAmount' /\ monthsDue <= monthsDue'
  BY <1>1, <1>3, DueNow, DueIsNumber, VestedGrows, DueGrows
<1>5. vestedAmount' \in Nat /\ monthsDue' \in Nat
  BY <1>1, <1>3, DueIsNumber, VestedBounds, DueBounds
<1>6. ClaimsAreDue' BY <1>1, <1>4, <1>5, DueIsNumber DEF TreasuryInv, ClaimsAreDue
<1>7. QED BY <1>2, <1>6 DEF TreasuryInv

LEMMA QueueKeeps ==
  ASSUME TreasuryInv, NEW call \in Calls, Queue(call)
  PROVE  TreasuryInv'
<1>1. /\ nextTxId < MaxTx /\ nextTxId' = nextTxId + 1
      /\ queued' = [id \in DOMAIN queued \cup {nextTxId'} |->
                      IF id = nextTxId' THEN [call |-> call, executeAfter |-> now + MIN_DELAY,
                                              executed |-> FALSE]
                      ELSE queued[id]]
      /\ UNCHANGED <<now, finalized, ddc, usdt, claimed, claimedMonths, grantClaimed>>
  BY DEF Queue, claims
<1>2. /\ nextTxId' \in 0..MaxTx /\ DOMAIN queued' \subseteq 1..nextTxId'
  BY <1>1, TreasuryNumbers DEF TreasuryInv, TreasuryTypeOK
<1>3. ASSUME NEW id \in DOMAIN queued' PROVE queued'[id] \in QueuedTx
  <2>1. CASE id = nextTxId'
    <3>1. queued'[id] = [call |-> call, executeAfter |-> now + MIN_DELAY, executed |-> FALSE]
      BY <1>1, <2>1
    <3>2. now + MIN_DELAY \in Nat BY TreasuryNumbers, DueIsNumber
    <3>3. QED BY <3>1, <3>2 DEF QueuedTx
  <2>2. CASE id # nextTxId'
    <3>1. id \in DOMAIN queued /\ queued'[id] = queued[id] BY <1>1, <2>2
    <3>2. QED BY <3>1 DEF TreasuryInv, TreasuryTypeOK
  <2>3. QED BY <2>1, <2>2
<1>4. TreasuryTypeOK' BY <1>1, <1>2, <1>3 DEF TreasuryInv, TreasuryTypeOK
<1>5. ClaimsAreDue' BY <1>1, SameTime DEF TreasuryInv, ClaimsAreDue
<1>6. QED BY <1>4, <1>5 DEF TreasuryInv

LEMMA ExecuteKeeps ==
  ASSUME TreasuryInv, NEW id, Execute(id)
  PROVE  TreasuryInv'
<1> DEFINE vault == queued[id].call.vault
           amount == queued[id].call.amount
<1>1. /\ id \in DOMAIN queued
      /\ queued' = [queued EXCEPT ![id].executed = TRUE]
      /\ UNCHANGED <<now, finalized, nextTxId, claimed, claimedMonths, grantClaimed>>
  BY DEF Execute, claims
<1>2. queued[id] \in QueuedTx /\ vault \in Accounts /\ amount \in Nat
  <2>1. queued[id] \in QueuedTx BY <1>1 DEF TreasuryInv, TreasuryTypeOK
  <2>2. vault \in Vaults /\ amount \in Nat BY <2>1, TreasuryNumbers DEF QueuedTx
  <2>3. QED BY <2>1, <2>2, AccountsOfVaults
<1>3. \/ CanTransfer(ddc, TIMELOCK, amount)
         /\ ddc' = Transfer(ddc, TIMELOCK, vault, amount) /\ usdt' = usdt
      \/ CanTransfer(usdt, TIMELOCK, amount)
         /\ usdt' = Transfer(usdt, TIMELOCK, vault, amount) /\ ddc' = ddc
  BY DEF Execute
<1> HIDE DEF vault, amount
<1>4. ddc' \in [Accounts -> Nat] /\ usdt' \in [Accounts -> Nat]
  <2>1. ddc \in [Accounts -> Nat] /\ usdt \in [Accounts -> Nat]
    BY DEF TreasuryInv, TreasuryTypeOK
  <2>2. TIMELOCK \in Accounts BY AccountsOfVaults
  <2>3. CASE CanTransfer(ddc, TIMELOCK, amount)
             /\ ddc' = Transfer(ddc, TIMELOCK, vault, amount) /\ usdt' = usdt
    <3>1. Transfer(ddc, TIMELOCK, vault, amount) \in [Accounts -> Nat]
      BY <1>2, <2>1, <2>2, <2>3, LedgerType
    <3>2. QED BY <2>1, <2>3, <3>1
  <2>4. CASE CanTransfer(usdt, TIMELOCK, amount)
             /\ usdt' = Transfer(usdt, TIMELOCK, vault, amount) /\ ddc' = ddc
    <3>1. Transfer(usdt, TIMELOCK, vault, amount) \in [Accounts -> Nat]
      BY <1>2, <2>1, <2>2, <2>4, LedgerType
    <3>2. QED BY <2>1, <2>4, <3>1
  <2>5. QED BY <1>3, <2>3, <2>4
<1>5. DOMAIN queued' = DOMAIN queued BY <1>1
<1>6. ASSUME NEW other \in DOMAIN queued' PROVE queued'[other] \in QueuedTx
  <2>1. CASE other = id BY <1>1, <1>2, <2>1 DEF QueuedTx
  <2>2. CASE other # id
    <3>1. queued'[other] = queued[other] BY <1>1, <1>5, <2>2
    <3>2. QED BY <1>5, <3>1 DEF TreasuryInv, TreasuryTypeOK
  <2>3. QED BY <2>1, <2>2
<1>7. TreasuryTypeOK' BY <1>1, <1>4, <1>5, <1>6 DEF TreasuryInv, TreasuryTypeOK
<1>8. ClaimsAreDue' BY <1>1, SameTime DEF TreasuryInv, ClaimsAreDue
<1>9. QED BY <1>7, <1>8 DEF TreasuryInv

LEMMA CancelKeeps ==
  ASSUME TreasuryInv, NEW id, Cancel(id)
  PROVE  TreasuryInv'
<1>1. /\ queued' = [other \in DOMAIN queued \ {id} |-> queued[other]]
      /\ UNCHANGED <<now, finalized, ddc, usdt, nextTxId, claimed, claimedMonths, grantClaimed>>
  BY DEF Cancel, claims
<1>2. TreasuryTypeOK' BY <1>1 DEF TreasuryInv, TreasuryTypeOK
<1>3. ClaimsAreDue' BY <1>1, SameTime DEF TreasuryInv, ClaimsAreDue
<1>4. QED BY <1>2, <1>3 DEF TreasuryInv

LEMMA ClaimKeeps ==
  ASSUME TreasuryInv, Claim
  PROVE  TreasuryInv'
<1>1. /\ claimable > 0 /\ CanTransfer(ddc, LINEAR_VAULT, claimable)
      /\ claimed' = claimed + claimable
      /\ ddc' = Transfer(ddc, LINEAR_VAULT, BENEFICIARY, claimable)
      /\ UNCHANGED <<now, finalized, usdt, nextTxId, queued, claimedMonths, grantClaimed>>
  BY DEF Claim, timelock
<1>2. claimable \in Nat /\ claimed + claimable = vestedAmount
  BY <1>1, DueIsNumber DEF claimable
<1>3. ddc' \in [Accounts -> Nat]
  BY <1>1, <1>2, AccountsOfVaults, LedgerType DEF TreasuryInv, TreasuryTypeOK
<1>4. TreasuryTypeOK' BY <1>1, <1>2, <1>3, DueIsNumber DEF TreasuryInv, TreasuryTypeOK
<1>5. ClaimsAreDue' BY <1>1, <1>2, SameTime, DueIsNumber DEF TreasuryInv, ClaimsAreDue
<1>6. QED BY <1>4, <1>5 DEF TreasuryInv

LEMMA ClaimMonthlyKeeps ==
  ASSUME TreasuryInv, ClaimMonthly
  PROVE  TreasuryInv'
<1> DEFINE amount == (monthsDue - claimedMonths) * MONTHLY_AMOUNT
<1>1. /\ monthsDue > claimedMonths /\ CanTransfer(usdt, OPS_VAULT, amount)
      /\ usdt' = Transfer(usdt, OPS_VAULT, OPS_WALLET, amount)
      /\ claimedMonths' = monthsDue
      /\ UNCHANGED <<now, finalized, ddc, nextTxId, queued, claimed, grantClaimed>>
  BY DEF ClaimMonthly, timelock
<1>2. amount \in Nat
  <2>1. monthsDue - claimedMonths \in Nat BY <1>1, DueIsNumber
  <2>2. QED BY <2>1, TreasuryNumbers, ProductGrows
<1> HIDE DEF amount
<1>3. usdt' \in [Accounts -> Nat]
  BY <1>1, <1>2, AccountsOfVaults, LedgerType DEF TreasuryInv, TreasuryTypeOK
<1>4. TreasuryTypeOK' BY <1>1, <1>3, DueIsNumber DEF TreasuryInv, TreasuryTypeOK
<1>5. ClaimsAreDue' BY <1>1, SameTime, DueIsNumber DEF TreasuryInv, ClaimsAreDue
<1>6. QED BY <1>4, <1>5 DEF TreasuryInv

LEMMA ClaimGrantKeeps ==
  ASSUME TreasuryInv, ClaimGrant
  PROVE  TreasuryInv'
<1>1. /\ finalized /\ CanTransfer(usdt, GRANT_VAULT, GRANT_AMOUNT)
      /\ usdt' = Transfer(usdt, GRANT_VAULT, ADAMAS_WALLET, GRANT_AMOUNT)
      /\ grantClaimed' = TRUE
      /\ UNCHANGED <<now, finalized, ddc, nextTxId, queued, claimed, claimedMonths>>
  BY DEF ClaimGrant, timelock
<1>2. usdt' \in [Accounts -> Nat]
  BY <1>1, TreasuryNumbers, AccountsOfVaults, LedgerType DEF TreasuryInv, TreasuryTypeOK
<1>3. TreasuryTypeOK' BY <1>1, <1>2 DEF TreasuryInv, TreasuryTypeOK
<1>4. ClaimsAreDue' BY <1>1, SameTime DEF TreasuryInv, ClaimsAreDue
<1>5. QED BY <1>3, <1>4 DEF TreasuryInv

LEMMA TreasuryInvInductive ==
  ASSUME TreasuryInv, [TreasuryNext]_treasuryVars
  PROVE  TreasuryInv'
<1>1. CASE Pass BY <1>1, PassKeeps
<1>2. CASE FinalizePresale
  <2>1. /\ finalized' = TRUE
        /\ UNCHANGED <<now, ddc, usdt, nextTxId, queued, claimed, claimedMonths, grantClaimed>>
    BY <1>2 DEF FinalizePresale, timelock, claims
  <2>2. TreasuryTypeOK' BY <2>1 DEF TreasuryInv, TreasuryTypeOK
  <2>3. ClaimsAreDue' BY <2>1, SameTime DEF TreasuryInv, ClaimsAreDue
  <2>4. QED BY <2>2, <2>3 DEF TreasuryInv
<1>3. CASE \E call \in Calls : Queue(call) BY <1>3, QueueKeeps
<1>4. CASE \E id \in 1..MaxTx : Execute(id) \/ Cancel(id) BY <1>4, ExecuteKeeps, CancelKeeps
<1>5. CASE Claim \/ ClaimMonthly \/ ClaimGrant
  BY <1>5, ClaimKeeps, ClaimMonthlyKeeps, ClaimGrantKeeps
<1>6. CASE UNCHANGED treasuryVars
  <2>1. UNCHANGED <<now, finalized, ddc, usdt, nextTxId, queued, claimed, claimedMonths, grantClaimed>>
    BY <1>6 DEF treasuryVars, timelock, claims
  <2>2. TreasuryTypeOK' BY <2>1 DEF TreasuryInv, TreasuryTypeOK
  <2>3. ClaimsAreDue' BY <2>1, SameTime DEF TreasuryInv, ClaimsAreDue
  <2>4. QED BY <2>2, <2>3 DEF TreasuryInv
<1>7. QED BY <1>1, <1>2, <1>3, <1>4, <1>5, <1>6 DEF TreasuryNext

\* The invariant holds in every reachable state; its first part is that no balance of
\* a vault, a wallet or the timelock ever goes below zero.
THEOREM TreasuryInvariant == TreasurySpec => []TreasuryInv
BY TreasuryInvInitially, TreasuryInvInductive, PTL DEF TreasurySpec

\* No vault pays ahead of its schedule (DDCLinearVestingVault.sol, DDCMonthlyOpsVault.sol,
\* DDCAdamasGrantVault.sol), for any rounding, funding and times of the claims.
THEOREM VaultsNeverPayAhead == TreasurySpec => []VaultsKeepSchedule
<1>1. ASSUME TreasuryInv PROVE VaultsKeepSchedule
  <2> DEFINE elapsed == IF now < startTime THEN 0 ELSE now - startTime
  <2>1. now \in Nat /\ claimed \in Nat /\ claimedMonths \in Nat
    BY <1>1, DueIsNumber
  <2>2. claimed <= VestedAt(now) /\ claimedMonths <= DueAt(now) /\ (grantClaimed => finalized)
    BY <1>1, DueNow DEF TreasuryInv, ClaimsAreDue
  <2>3. VestedAt(now) \in Nat /\ VestedAt(now) <= totalAllocation
        /\ VestedAt(now) * duration <= totalAllocation * elapsed
    BY <2>1, VestedBounds, VestedBelowLine
  <2>4. claimed <= totalAllocation BY <2>1, <2>2, <2>3, TreasuryNumbers
  <2>5. claimed * duration <= totalAllocation * elapsed
    <3> DEFINE v == VestedAt(now)
               x == v * duration
               y == claimed * duration
               z == totalAllocation * elapsed
    <3>1. v \in Nat /\ claimed <= v BY <2>2, <2>3
    <3>2. elapsed \in Nat BY <2>1, TreasuryNumbers
    <3> HIDE DEF v, elapsed
    <3>3. duration * claimed <= duration * v BY <2>1, <3>1, TreasuryNumbers, ProductGrows
    <3>4. x \in Nat /\ y \in Nat /\ z \in Nat /\ y <= x
      BY <2>1, <3>1, <3>2, <3>3, TreasuryNumbers, ProductGrows
    <3>5. x <= z BY <2>3 DEF v
    <3> HIDE DEF x, y, z
    <3>6. y <= z BY <3>4, <3>5
    <3>7. QED BY <3>6 DEF y, z
  <2> HIDE DEF elapsed
  <2>6. claimedMonths <= MAX_MONTHS BY <2>1, <2>2, DueBounds, TreasuryNumbers
  <2>7. claimedMonths > 0 => presaleStart + claimedMonths * MONTH <= now
    <3>1. SUFFICES ASSUME claimedMonths > 0
                   PROVE  presaleStart + claimedMonths * MONTH <= now
      OBVIOUS
    <3> DEFINE d == DueAt(now)
               y == claimedMonths * MONTH
               z == d * MONTH
    <3>2. d \in Nat /\ claimedMonths <= d /\ d > 0 BY <2>1, <2>2, <3>1, DueBounds
    <3>3. presaleStart + z <= now BY <2>1, <3>2, DueBounds
    <3> HIDE DEF d
    <3>4. MONTH * claimedMonths <= MONTH * d BY <2>1, <3>2, TreasuryNumbers, ProductGrows
    <3>5. y \in Nat /\ z \in Nat /\ y <= z
      BY <2>1, <3>2, <3>4, TreasuryNumbers, ProductGrows
    <3> HIDE DEF y, z
    <3>6. presaleStart + y <= now BY <2>1, <3>3, <3>5, TreasuryNumbers
    <3>7. QED BY <3>6 DEF y
  <2>8. QED BY <2>2, <2>4, <2>5, <2>6, <2>7 DEF VaultsKeepSchedule, elapsed
<1>2. QED BY <1>1, TreasuryInvariant, PTL

---------------------------------------------------------------------------
(* The sums *)

Amounts(vault) == [id \in Executed(vault) |-> queued[id].call.amount]

LEMMA AmountsType ==
  ASSUME TreasuryInv, NEW vault
  PROVE  /\ IsFiniteSet(Executed(vault))
         /\ Amounts(vault) \in [Executed(vault) -> Nat]
         /\ PaidInto(vault) = SumFunction(Amounts(vault)) /\ PaidInto(vault) \in Nat
<1>1. IsFiniteSet(Executed(vault))
  <2>1. nextTxId \in Nat /\ Executed(vault) \in SUBSET (1..nextTxId)
    BY TreasuryNumbers DEF TreasuryInv, TreasuryTypeOK, Executed
  <2>2. IsFiniteSet(1..nextTxId) BY <2>1, FS_Interval
  <2>3. QED BY <2>1, <2>2, FS_Subset
<1>2. ASSUME NEW id \in Executed(vault) PROVE queued[id].call.amount \in Nat
  BY TreasuryNumbers DEF TreasuryInv, TreasuryTypeOK, Executed, QueuedTx
<1>3. Amounts(vault) \in [Executed(vault) -> Nat] BY <1>2 DEF Amounts
<1>4. PaidInto(vault) = SumFunction(Amounts(vault)) BY DEF PaidInto, Amounts
<1>5. QED BY <1>1, <1>3, <1>4, SumIsUnits

\* Unless a transaction is executed, nothing is paid in.
LEMMA PaidStays ==
  ASSUME NEW vault, Executed(vault)' = Executed(vault),
         \A id \in Executed(vault) : queued'[id] = queued[id]
  PROVE  PaidInto(vault)' = PaidInto(vault)
<1>1. Amounts(vault)' = Amounts(vault) BY DEF Amounts
<1>2. PaidInto(vault)' = SumFunction(Amounts(vault)') BY DEF PaidInto, Amounts
<1>3. PaidInto(vault) = SumFunction(Amounts(vault)) BY DEF PaidInto, Amounts
<1>4. QED BY <1>1, <1>2, <1>3

\* An execution pays the amount of its call into the vault of its call only.
LEMMA ExecutePays ==
  ASSUME TreasuryInv, NEW id, Execute(id), NEW vault
  PROVE  PaidInto(vault)' = PaidInto(vault)
           + (IF vault = queued[id].call.vault THEN queued[id].call.amount ELSE 0)
<1>1. /\ id \in DOMAIN queued /\ ~queued[id].executed
      /\ queued' = [queued EXCEPT ![id].executed = TRUE]
  BY DEF Execute
<1>2. DOMAIN queued' = DOMAIN queued BY <1>1
<1>3. ASSUME NEW other \in DOMAIN queued, other # id PROVE queued'[other] = queued[other]
  BY <1>1, <1>3
<1>4. queued'[id].executed = TRUE /\ queued'[id].call = queued[id].call
  <2>1. queued[id] \in QueuedTx BY <1>1 DEF TreasuryInv, TreasuryTypeOK
  <2>2. queued'[id] = [queued[id] EXCEPT !.executed = TRUE] BY <1>1
  <2>3. QED BY <2>1, <2>2 DEF QueuedTx
<1>5. id \notin Executed(vault) BY <1>1 DEF Executed
<1>6. CASE vault = queued[id].call.vault
  <2>1. Executed(vault)' = Executed(vault) \cup {id}
    BY <1>1, <1>2, <1>3, <1>4, <1>6 DEF Executed
  <2>2. \A other \in Executed(vault) : queued'[other] = queued[other]
    BY <1>3, <1>5 DEF Executed
  <2>3. TreasuryInv' BY ExecuteKeeps
  <2>4. Amounts(vault)' \in [Executed(vault)' -> Nat]
    <3>1. ASSUME NEW other \in Executed(vault)' PROVE queued'[other].call.amount \in Nat
      BY <2>3, TreasuryNumbers DEF TreasuryInv, TreasuryTypeOK, Executed, QueuedTx
    <3>2. QED BY <3>1 DEF Amounts
  <2>5. /\ \A other \in Executed(vault) : Amounts(vault)'[other] = Amounts(vault)[other]
        /\ Amounts(vault)'[id] = queued[id].call.amount
    BY <1>4, <2>1, <2>2 DEF Amounts
  <2>6. IsFiniteSet(Executed(vault)) /\ Amounts(vault) \in [Executed(vault) -> Nat]
    BY AmountsType
  <2>7. SumFunction(Amounts(vault)') = SumFunction(Amounts(vault)) + queued[id].call.amount
    BY <1>5, <2>1, <2>4, <2>5, <2>6, SumInsert
  <2>8. /\ PaidInto(vault)' = SumFunction(Amounts(vault)')
        /\ PaidInto(vault) = SumFunction(Amounts(vault))
    BY DEF PaidInto, Amounts
  <2>9. QED BY <1>6, <2>7, <2>8
<1>7. CASE vault # queued[id].call.vault
  <2>1. Executed(vault)' = Executed(vault)
    BY <1>1, <1>2, <1>3, <1>4, <1>7 DEF Executed
  <2>2. \A other \in Executed(vault) : queued'[other] = queued[other]
    BY <1>3, <1>5 DEF Executed
  <2>3. PaidInto(vault)' = PaidInto(vault) BY <2>1, <2>2, PaidStays
  <2>4. PaidInto(vault) \in Nat BY AmountsType
  <2>5. QED BY <1>7, <2>3, <2>4
<1>8. QED BY <1>6, <1>7

\* What is queued or cancelled has paid nothing in.
LEMMA OthersPayNothing ==
  ASSUME TreasuryInv, NEW vault,
         \/ UNCHANGED queued
         \/ \E call : Queue(call)
         \/ \E id : Cancel(id)
  PROVE  PaidInto(vault)' = PaidInto(vault)
<1>1. CASE UNCHANGED queued
  <2>1. Executed(vault)' = Executed(vault) BY <1>1 DEF Executed
  <2>2. QED BY <1>1, <2>1, PaidStays
<1>2. ASSUME NEW call, Queue(call) PROVE PaidInto(vault)' = PaidInto(vault)
  <2>1. /\ nextTxId' = nextTxId + 1
        /\ queued' = [id \in DOMAIN queued \cup {nextTxId'} |->
                        IF id = nextTxId' THEN [call |-> call, executeAfter |-> now + MIN_DELAY,
                                                executed |-> FALSE]
                        ELSE queued[id]]
    BY <1>2 DEF Queue
  <2>2. nextTxId' \notin DOMAIN queued
    BY <2>1, TreasuryNumbers DEF TreasuryInv, TreasuryTypeOK
  <2>3. /\ DOMAIN queued' = DOMAIN queued \cup {nextTxId'}
        /\ ~queued'[nextTxId'].executed
        /\ \A id \in DOMAIN queued : queued'[id] = queued[id]
    BY <2>1, <2>2
  <2>4. Executed(vault)' = Executed(vault) BY <2>2, <2>3 DEF Executed
  <2>5. \A id \in Executed(vault) : queued'[id] = queued[id] BY <2>3 DEF Executed
  <2>6. QED BY <2>4, <2>5, PaidStays
<1>3. ASSUME NEW id, Cancel(id) PROVE PaidInto(vault)' = PaidInto(vault)
  <2>1. /\ ~queued[id].executed
        /\ queued' = [other \in DOMAIN queued \ {id} |-> queued[other]]
    BY <1>3 DEF Cancel
  <2>2. Executed(vault)' = Executed(vault) BY <2>1 DEF Executed
  <2>3. \A other \in Executed(vault) : queued'[other] = queued[other]
    BY <2>1 DEF Executed
  <2>4. QED BY <2>2, <2>3, PaidStays
<1>4. QED BY <1>1, <1>2, <1>3
LEMMA AccountsDiffer ==
  /\ \A v \in Vaults : /\ v \in Accounts /\ v # TIMELOCK
                       /\ v # BENEFICIARY /\ v # OPS_WALLET /\ v # ADAMAS_WALLET
  /\ LINEAR_VAULT \in Vaults /\ OPS_VAULT \in Vaults /\ GRANT_VAULT \in Vaults
  /\ TIMELOCK \in Accounts /\ BENEFICIARY \in Accounts
  /\ OPS_WALLET \in Accounts /\ ADAMAS_WALLET \in Accounts
  /\ TIMELOCK # BENEFICIARY /\ TIMELOCK # OPS_WALLET /\ TIMELOCK # ADAMAS_WALLET
  /\ LINEAR_VAULT # OPS_VAULT /\ LINEAR_VAULT # GRANT_VAULT /\ OPS_VAULT # GRANT_VAULT
  /\ BENEFICIARY # OPS_WALLET /\ BENEFICIARY # ADAMAS_WALLET /\ OPS_WALLET # ADAMAS_WALLET
  /\ \A v \in Vaults : v = LINEAR_VAULT \/ v = OPS_VAULT \/ v = GRANT_VAULT
BY DEF Vaults, Accounts, TIMELOCK, BENEFICIARY, OPS_WALLET, ADAMAS_WALLET, LINEAR_VAULT, OPS_VAULT,
       GRANT_VAULT

LEMMA LedgersAreNumbers ==
  ASSUME TreasuryInv
  PROVE  /\ ddc \in [Accounts -> Nat] /\ usdt \in [Accounts -> Nat]
         /\ \A a \in Accounts : ddc[a] \in Nat /\ usdt[a] \in Nat
         /\ claimed \in Nat /\ claimedMonths \in Nat
         /\ claimedMonths * MONTHLY_AMOUNT \in Nat
         /\ \A vault \in Vaults : PaidInto(vault) \in Nat
BY TreasuryNumbers, AmountsType, ProductGrows DEF TreasuryInv, TreasuryTypeOK

LEMMA NothingPaidAtFirst == TreasuryInit => TreasuryAddsUp
<1> SUFFICES ASSUME TreasuryInit PROVE TreasuryAddsUp OBVIOUS
<1>1. /\ queued = << >> /\ claimed = 0 /\ claimedMonths = 0 /\ grantClaimed = FALSE
  BY DEF TreasuryInit
<1>2. ASSUME NEW vault PROVE PaidInto(vault) = 0
  <2>1. Executed(vault) = {} BY <1>1 DEF Executed
  <2>2. Amounts(vault) = [id \in {} |-> 0] BY <2>1 DEF Amounts
  <2>3. QED BY <2>2, SumZero, FS_EmptySet DEF PaidInto, Amounts
<1>3. \A a \in Accounts : a # TIMELOCK => ddc[a] = 0 /\ usdt[a] = 0
  BY DEF TreasuryInit, Held
<1>4. 0 * MONTHLY_AMOUNT = 0 BY TreasuryNumbers
<1>5. QED BY <1>1, <1>2, <1>3, <1>4, AccountsDiffer DEF TreasuryAddsUp

LEMMA ExecuteAddsUp ==
  ASSUME TreasuryInv, TreasuryAddsUp, NEW id, Execute(id)
  PROVE  TreasuryAddsUp'
<1> DEFINE vault == queued[id].call.vault
           amount == queued[id].call.amount
<1>1. UNCHANGED <<claimed, claimedMonths, grantClaimed>> BY DEF Execute, claims
<1>2. vault \in Vaults /\ amount \in Nat
  BY TreasuryNumbers DEF Execute, TreasuryInv, TreasuryTypeOK, QueuedTx
<1>3. \/ vault = LINEAR_VAULT
         /\ ddc' = Transfer(ddc, TIMELOCK, vault, amount) /\ usdt' = usdt
      \/ vault # LINEAR_VAULT
         /\ usdt' = Transfer(usdt, TIMELOCK, vault, amount) /\ ddc' = ddc
  BY DEF Execute
<1>4. \A v : PaidInto(v)' = PaidInto(v) + (IF v = vault THEN amount ELSE 0)
  BY ExecutePays
<1> HIDE DEF vault, amount
<1>5. \A bal \in [Accounts -> Nat] :
        /\ Transfer(bal, TIMELOCK, vault, amount)[vault] = bal[vault] + amount
        /\ \A a \in Accounts \ {TIMELOCK, vault} :
             Transfer(bal, TIMELOCK, vault, amount)[a] = bal[a]
  BY <1>2, AccountsDiffer DEF Transfer
<1>6. /\ {BENEFICIARY, OPS_WALLET, ADAMAS_WALLET} \subseteq Accounts \ {TIMELOCK, vault}
      /\ \A v \in Vaults : v # vault => v \in Accounts \ {TIMELOCK, vault}
  BY <1>2, AccountsDiffer
<1>7. /\ ddc'[BENEFICIARY] = ddc[BENEFICIARY]
      /\ usdt'[OPS_WALLET] = usdt[OPS_WALLET] /\ usdt'[ADAMAS_WALLET] = usdt[ADAMAS_WALLET]
  BY <1>3, <1>5, <1>6, LedgersAreNumbers
<1>8. /\ ddc'[LINEAR_VAULT] = ddc[LINEAR_VAULT] + (IF vault = LINEAR_VAULT THEN amount ELSE 0)
      /\ usdt'[OPS_VAULT] = usdt[OPS_VAULT] + (IF vault = OPS_VAULT THEN amount ELSE 0)
      /\ usdt'[GRANT_VAULT] = usdt[GRANT_VAULT] + (IF vault = GRANT_VAULT THEN amount ELSE 0)
  BY <1>2, <1>3, <1>5, <1>6, LedgersAreNumbers, AccountsDiffer
<1>9. /\ ddc[LINEAR_VAULT] \in Nat /\ usdt[OPS_VAULT] \in Nat /\ usdt[GRANT_VAULT] \in Nat
      /\ usdt[ADAMAS_WALLET] \in Nat /\ claimed \in Nat /\ claimedMonths * MONTHLY_AMOUNT \in Nat
  BY LedgersAreNumbers, AccountsOfVaults
<1>10. QED BY <1>1, <1>2, <1>4, <1>7, <1>8, <1>9 DEF TreasuryAddsUp

\* A claim moves from a vault to its wallet what it adds to the vault's account.
LEMMA ClaimsAddUp ==
  ASSUME TreasuryInv, TreasuryAddsUp, Claim \/ ClaimMonthly \/ ClaimGrant
  PROVE  TreasuryAddsUp'
<1>1. UNCHANGED queued BY DEF Claim, ClaimMonthly, ClaimGrant, timelock
<1>2. \A v : PaidInto(v)' = PaidInto(v) BY <1>1, OthersPayNothing
<1>3. /\ ddc[LINEAR_VAULT] \in Nat /\ usdt[OPS_VAULT] \in Nat /\ usdt[GRANT_VAULT] \in Nat
      /\ ddc[BENEFICIARY] \in Nat /\ usdt[OPS_WALLET] \in Nat /\ usdt[ADAMAS_WALLET] \in Nat
      /\ claimed \in Nat /\ claimedMonths * MONTHLY_AMOUNT \in Nat
      /\ ddc \in [Accounts -> Nat] /\ usdt \in [Accounts -> Nat] /\ GRANT_AMOUNT \in Nat
  BY LedgersAreNumbers, AccountsOfVaults, TreasuryNumbers
<1>4. CASE Claim
  <2>1. /\ claimable > 0 /\ claimed' = claimed + claimable
        /\ ddc' = Transfer(ddc, LINEAR_VAULT, BENEFICIARY, claimable)
        /\ UNCHANGED <<usdt, claimedMonths, grantClaimed>>
    BY <1>4 DEF Claim
  <2>2. claimable \in Nat BY <2>1, DueIsNumber DEF claimable
  <2>3. /\ ddc'[LINEAR_VAULT] = ddc[LINEAR_VAULT] - claimable
        /\ ddc'[BENEFICIARY] = ddc[BENEFICIARY] + claimable
    BY <1>3, <2>1, <2>2, AccountsDiffer DEF Transfer
  <2>4. QED BY <1>2, <1>3, <2>1, <2>2, <2>3 DEF TreasuryAddsUp
<1>5. CASE ClaimMonthly
  <2> DEFINE n == (monthsDue - claimedMonths) * MONTHLY_AMOUNT
  <2>1. /\ monthsDue > claimedMonths /\ claimedMonths' = monthsDue
        /\ usdt' = Transfer(usdt, OPS_VAULT, OPS_WALLET, n)
        /\ UNCHANGED <<ddc, claimed, grantClaimed>>
    BY <1>5 DEF ClaimMonthly
  <2>2. n \in Nat /\ monthsDue * MONTHLY_AMOUNT = claimedMonths * MONTHLY_AMOUNT + n
    <3>1. \A a \in Nat, b \in Nat, m \in Nat :
            b > a => (b - a) * m \in Nat /\ b * m = a * m + (b - a) * m
      OBVIOUS
    <3>2. QED BY <2>1, <3>1, DueIsNumber, TreasuryNumbers
  <2> HIDE DEF n
  <2>3. /\ usdt'[OPS_VAULT] = usdt[OPS_VAULT] - n /\ usdt'[OPS_WALLET] = usdt[OPS_WALLET] + n
        /\ usdt'[GRANT_VAULT] = usdt[GRANT_VAULT] /\ usdt'[ADAMAS_WALLET] = usdt[ADAMAS_WALLET]
    <3>1. {GRANT_VAULT, ADAMAS_WALLET} \subseteq Accounts \ {OPS_VAULT, OPS_WALLET}
      BY AccountsDiffer
    <3>2. QED BY <1>3, <2>1, <2>2, <3>1, AccountsDiffer DEF Transfer
  <2>4. claimedMonths' * MONTHLY_AMOUNT = claimedMonths * MONTHLY_AMOUNT + n BY <2>1, <2>2
  <2>5. QED BY <1>2, <1>3, <2>1, <2>2, <2>3, <2>4 DEF TreasuryAddsUp
<1>6. CASE ClaimGrant
  <2>1. /\ ~grantClaimed /\ grantClaimed' = TRUE
        /\ usdt' = Transfer(usdt, GRANT_VAULT, ADAMAS_WALLET, GRANT_AMOUNT)
        /\ UNCHANGED <<ddc, claimed, claimedMonths>>
    BY <1>6 DEF ClaimGrant
  <2>2. /\ usdt'[GRANT_VAULT] = usdt[GRANT_VAULT] - GRANT_AMOUNT
        /\ usdt'[ADAMAS_WALLET] = usdt[ADAMAS_WALLET] + GRANT_AMOUNT
        /\ usdt'[OPS_VAULT] = usdt[OPS_VAULT] /\ usdt'[OPS_WALLET] = usdt[OPS_WALLET]
    <3>1. {OPS_VAULT, OPS_WALLET} \subseteq Accounts \ {GRANT_VAULT, ADAMAS_WALLET}
      BY AccountsDiffer
    <3>2. QED BY <1>3, <2>1, <3>1, AccountsDiffer DEF Transfer
  <2>3. QED BY <1>2, <1>3, <2>1, <2>2 DEF TreasuryAddsUp
<1>7. QED BY <1>4, <1>5, <1>6

LEMMA AddsUpInductive ==
  ASSUME TreasuryInv, TreasuryAddsUp, [TreasuryNext]_treasuryVars
  PROVE  TreasuryAddsUp'
<1>1. ASSUME UNCHANGED <<ddc, usdt, claimed, claimedMonths, grantClaimed>>,
             \A v : PaidInto(v)' = PaidInto(v)
      PROVE  TreasuryAddsUp'
  BY <1>1 DEF TreasuryAddsUp
<1>2. CASE Pass \/ FinalizePresale \/ UNCHANGED treasuryVars
  BY <1>1, <1>2, OthersPayNothing DEF Pass, FinalizePresale, treasuryVars, timelock, claims
<1>3. CASE \E call \in Calls : Queue(call)
  BY <1>1, <1>3, OthersPayNothing DEF Queue, claims
<1>4. CASE \E id \in 1..MaxTx : Cancel(id)
  BY <1>1, <1>4, OthersPayNothing DEF Cancel, claims
<1>5. QED BY <1>2, <1>3, <1>4, ExecuteAddsUp, ClaimsAddUp DEF TreasuryNext

\* What the timelock paid into each vault is what the vault holds and its wallet got
\* (DDCTimelock.sol execute with the claim of each vault), for any transactions that
\* are queued, cancelled, retried or executed in any order: no execution counts twice.
THEOREM VaultsAddUp == TreasurySpec => []TreasuryAddsUp
<1>1. TreasuryInit => TreasuryInv /\ TreasuryAddsUp
  BY TreasuryInvInitially, NothingPaidAtFirst
<1>2. TreasuryInv /\ TreasuryAddsUp /\ [TreasuryNext]_treasuryVars
        => (TreasuryInv /\ TreasuryAddsUp)'
  BY TreasuryInvInductive, AddsUpInductive
<1>3. QED BY <1>1, <1>2, PTL DEF TreasurySpec
=============================================================================
