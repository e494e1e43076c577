------------------------------ MODULE Treasury ------------------------------
(***************************************************************************)
(* The treasury's vaults and the timelock that pays into them.  The linear *)
(* vault releases DDC to its beneficiary (DDCLinearVestingVault), the ops  *)
(* vault USDT for every month begun (DDCMonthlyOpsVault), the grant vault  *)
(* USDT once the presale is finalized (DDCAdamasGrantVault).  DDCTimelock  *)
(* holds tokens and makes the owner's calls after a delay; the calls here  *)
(* are token transfers to a vault.                                         *)
(***************************************************************************)
EXTENDS ERC20, Functions

CONSTANTS MIN_DELAY, startTime, duration, totalAllocation,
          presaleStart, MONTH, MONTHLY_AMOUNT, MAX_MONTHS, GRANT_AMOUNT,
          Calls,       \* the transfers the owner queues, a bound
          MaxTx, MaxTime    \* bounds

TIMELOCK     == "timelock"
LINEAR_VAULT == "linearVault"
OPS_VAULT    == "opsVault"
GRANT_VAULT  == "grantVault"
BENEFICIARY   == "beneficiary"     \* of the linear vault
OPS_WALLET    == "opsWallet"
ADAMAS_WALLET == "adamasWallet"    \* of the grant vault
Vaults == {LINEAR_VAULT, OPS_VAULT, GRANT_VAULT}
Accounts == Vaults \cup {TIMELOCK, BENEFICIARY, OPS_WALLET, ADAMAS_WALLET}

ASSUME TreasuryAssumption ==
  /\ Users = Accounts
  /\ {MIN_DELAY, startTime, presaleStart, MONTHLY_AMOUNT, MAX_MONTHS, GRANT_AMOUNT,
      MaxTx, MaxTime} \subseteq Nat
  /\ {duration, totalAllocation, MONTH} \subseteq Nat \ {0}
  /\ Calls \subseteq [vault : Vaults, amount : Nat]

VARIABLES
  now,
  finalized,       \* of the presale
  ddc, usdt,       \* the ledgers, of these accounts
  nextTxId,
  queued,          \* the transactions that are neither cancelled nor missing
  claimed,         \* DDC the linear vault has released
  claimedMonths,
  grantClaimed

timelock == <<nextTxId, queued>>
claims == <<claimed, claimedMonths, grantClaimed>>
treasuryVars == <<now, finalized, ddc, usdt, timelock, claims>>

QueuedTx == [call : Calls, executeAfter : Nat, executed : BOOLEAN]

TreasuryTypeOK ==
  /\ now \in 0..MaxTime /\ finalized \in BOOLEAN
  /\ ddc \in [Accounts -> Nat] /\ usdt \in [Accounts -> Nat]
  /\ nextTxId \in 0..MaxTx
  /\ DOMAIN queued \subseteq 1..nextTxId
  /\ \A id \in DOMAIN queued : queued[id] \in QueuedTx
  /\ claimed \in Nat /\ claimedMonths \in Nat /\ grantClaimed \in BOOLEAN

Held(amount) == [a \in Accounts |-> IF a = TIMELOCK THEN amount ELSE 0]

TreasuryInit ==
  /\ now = 0 /\ finalized = FALSE
  /\ ddc = Held(totalAllocation)
  /\ usdt = Held(MAX_MONTHS * MONTHLY_AMOUNT + GRANT_AMOUNT)
  /\ nextTxId = 0 /\ queued = << >>
  /\ claimed = 0 /\ claimedMonths = 0 /\ grantClaimed = FALSE

Pass ==
  /\ now < MaxTime
  /\ now' = now + 1
  /\ UNCHANGED <<finalized, ddc, usdt, timelock, claims>>

FinalizePresale ==
  /\ ~finalized
  /\ finalized' = TRUE
  /\ UNCHANGED <<now, ddc, usdt, timelock, claims>>

Queue(call) ==
  /\ nextTxId < MaxTx
  /\ nextTxId' = nextTxId + 1
  /\ queued' = [id \in DOMAIN queued \cup {nextTxId'} |->
                  IF id = nextTxId' THEN [call |-> call, executeAfter |-> now + MIN_DELAY,
                                          executed |-> FALSE]
                  ELSE queued[id]]
  /\ UNCHANGED <<now, finalized, ddc, usdt, claims>>

\* Mutant: what was executed can be executed again
ExecuteAgain(id) ==
  /\ id \in DOMAIN queued
  /\ now >= queued[id].executeAfter
  /\ queued' = [queued EXCEPT ![id].executed = TRUE]
  /\ LET vault == queued[id].call.vault
         amount == queued[id].call.amount
     IN  \/ /\ vault = LINEAR_VAULT
            /\ CanTransfer(ddc, TIMELOCK, amount)
            /\ ddc' = Transfer(ddc, TIMELOCK, vault, amount)
            /\ UNCHANGED usdt
         \/ /\ vault # LINEAR_VAULT
            /\ CanTransfer(usdt, TIMELOCK, amount)
            /\ usdt' = Transfer(usdt, TIMELOCK, vault, amount)
            /\ UNCHANGED ddc
  /\ UNCHANGED <<now, finalized, nextTxId, claims>>

\* A call that fails undoes the whole execution, which can be tried again.
Execute(id) ==
  /\ id \in DOMAIN queued /\ ~queued[id].executed
  /\ now >= queued[id].executeAfter
  /\ queued' = [queued EXCEPT ![id].executed = TRUE]
  /\ LET vault == queued[id].call.vault
         amount == queued[id].call.amount
     IN  \/ /\ vault = LINEAR_VAULT
            /\ CanTransfer(ddc, TIMELOCK, amount)
            /\ ddc' = Transfer(ddc, TIMELOCK, vault, amount)
            /\ UNCHANGED usdt
         \/ /\ vault # LINEAR_VAULT
            /\ CanTransfer(usdt, TIMELOCK, amount)
            /\ usdt' = Transfer(usdt, TIMELOCK, vault, amount)
            /\ UNCHANGED ddc
  /\ UNCHANGED <<now, finalized, nextTxId, claims>>

Cancel(id) ==
  /\ id \in DOMAIN queued /\ ~queued[id].executed
  /\ queued' = [other \in DOMAIN queued \ {id} |-> queued[other]]
  /\ UNCHANGED <<now, finalized, ddc, usdt, nextTxId, claims>>

\* Mutant: rounded up
VestedRoundedUp ==
  IF now < startTime THEN 0
  ELSE IF now - startTime >= duration THEN totalAllocation
  ELSE (totalAllocation * (now - startTime) + duration - 1) \div duration

vestedAmount ==
  IF now < startTime THEN 0
  ELSE IF now - startTime >= duration THEN totalAllocation
  ELSE (totalAllocation * (now - startTime)) \div duration

claimable == IF vestedAmount <= claimed THEN 0 ELSE vestedAmount - claimed

Claim ==
  /\ claimable > 0
  /\ CanTransfer(ddc, LINEAR_VAULT, claimable)
  /\ claimed' = claimed + claimable
  /\ ddc' = Transfer(ddc, LINEAR_VAULT, BENEFICIARY, claimable)
  /\ UNCHANGED <<now, finalized, usdt, timelock, claimedMonths, grantClaimed>>

opsStartTime == presaleStart + MONTH     \* thirty days after the presale's start

\* Mutant: the month that is under way is not counted
MonthsOver ==
  IF now < opsStartTime THEN 0
  ELSE LET months == (now - opsStartTime) \div MONTH
       IN  IF months >= MAX_MONTHS THEN MAX_MONTHS - 1 ELSE months

\* The months begun, counted up to MAX_MONTHS.
monthsDue ==
  IF now < opsStartTime THEN 0
  ELSE LET months == (now - opsStartTime) \div MONTH + 1
       IN  IF months > MAX_MONTHS THEN MAX_MONTHS ELSE months

ClaimMonthly ==
  /\ monthsDue > claimedMonths
  /\ LET amount == (monthsDue - claimedMonths) * MONTHLY_AMOUNT
     IN  /\ CanTransfer(usdt, OPS_VAULT, amount)
         /\ usdt' = Transfer(usdt, OPS_VAULT, OPS_WALLET, amount)
  /\ claimedMonths' = monthsDue
  /\ UNCHANGED <<now, finalized, ddc, timelock, claimed, grantClaimed>>

ClaimGrant ==
  /\ ~grantClaimed
  /\ finalized
  /\ CanTransfer(usdt, GRANT_VAULT, GRANT_AMOUNT)
  /\ grantClaimed' = TRUE
  /\ usdt' = Transfer(usdt, GRANT_VAULT, ADAMAS_WALLET, GRANT_AMOUNT)
  /\ UNCHANGED <<now, finalized, ddc, timelock, claimed, claimedMonths>>

TreasuryNext ==
  \/ Pass \/ FinalizePresale
  \/ \E call \in Calls : Queue(call)
  \/ \E id \in 1..MaxTx : Execute(id) \/ Cancel(id)
  \/ Claim \/ ClaimMonthly \/ ClaimGrant

TreasurySpec == TreasuryInit /\ [][TreasuryNext]_treasuryVars

\* Time passes, the presale is finalized, and those who are owed keep claiming.
TreasuryFairSpec ==
  /\ TreasurySpec
  /\ WF_treasuryVars(Pass) /\ WF_treasuryVars(FinalizePresale)
  /\ WF_treasuryVars(Claim) /\ WF_treasuryVars(ClaimMonthly) /\ WF_treasuryVars(ClaimGrant)
-----------------------------------------------------------------------------
Executed(vault) == {id \in DOMAIN queued : queued[id].executed /\ queued[id].call.vault = vault}
PaidInto(vault) == SumFunction([id \in Executed(vault) |-> queued[id].call.amount])

\* What the timelock has paid into a vault, by transactions executed once each, is
\* what the vault still holds and what its wallet has got, whatever was cancelled,
\* queued again or failed in between.
TreasuryAddsUp ==
  /\ PaidInto(LINEAR_VAULT) = ddc[LINEAR_VAULT] + claimed /\ ddc[BENEFICIARY] = claimed
  /\ PaidInto(OPS_VAULT) = usdt[OPS_VAULT] + claimedMonths * MONTHLY_AMOUNT
  /\ usdt[OPS_WALLET] = claimedMonths * MONTHLY_AMOUNT
  /\ PaidInto(GRANT_VAULT) = usdt[GRANT_VAULT] + usdt[ADAMAS_WALLET]
  /\ usdt[ADAMAS_WALLET] = IF grantClaimed THEN GRANT_AMOUNT ELSE 0

\* However late or often they are called, the vaults never pay ahead of time: not
\* more DDC than time has vested, rounded down, nor more than the months begun, and
\* neither more than in total.
VaultsKeepSchedule ==
  /\ claimed * duration <= totalAllocation * (IF now < startTime THEN 0 ELSE now - startTime)
  /\ claimed <= totalAllocation
  /\ claimedMonths > 0 => presaleStart + claimedMonths * MONTH <= now
  /\ claimedMonths <= MAX_MONTHS
  /\ grantClaimed => finalized

\* A wallet whose vault has been given all it will owe gets all of it, although the
\* vault was funded in parts and refused what it could not yet cover.
EverythingIsPaid ==
  /\ (PaidInto(LINEAR_VAULT) >= totalAllocation) ~> (ddc[BENEFICIARY] = totalAllocation)
  /\ (PaidInto(OPS_VAULT) >= MAX_MONTHS * MONTHLY_AMOUNT) ~>
       (usdt[OPS_WALLET] = MAX_MONTHS * MONTHLY_AMOUNT)
  /\ (PaidInto(GRANT_VAULT) >= GRANT_AMOUNT) ~> (usdt[ADAMAS_WALLET] = GRANT_AMOUNT)
=============================================================================
