--------------------------- MODULE DDCRewardPool ---------------------------
(***************************************************************************)
(* The contract DDCRewardPool: it learns its presale once, and splits the  *)
(* DDC the presale leaves over into burn-locked and reward-eligible parts. *)
(* It moves no tokens: whoever calls it has transferred them before.       *)
(* An operator that changes state is the body of a call; the caller's      *)
(* action conjoins it, and a require that fails makes the action disabled, *)
(* which is how a revert undoes the whole transaction.                     *)
(***************************************************************************)
EXTENDS ERC20

CONSTANTS MAX_BURN_CAP,          \* DDC the pool may ever burn-lock
          PRESALE_BURN_TARGET    \* DDC to be burn-locked by the presale

ASSUME BurnAssumption ==
  /\ PRESALE_BURN_TARGET \in Nat
  /\ MAX_BURN_CAP \in Nat
  /\ PRESALE_BURN_TARGET <= MAX_BURN_CAP

VARIABLES presale,                  \* the only caller allowed to reconcile
          cumulativeBurnAccounted,
          burnLockedBalance,
          rewardEligibleBalance

poolVars == <<presale, cumulativeBurnAccounted, burnLockedBalance, rewardEligibleBalance>>

PoolTypeOK ==
  /\ presale \in Addresses \cup {NOBODY}
  /\ cumulativeBurnAccounted \in Nat
  /\ burnLockedBalance \in Nat
  /\ rewardEligibleBalance \in Nat

\* The constructor leaves the pool without a presale; deploy_prod.js links it
PoolInit(link) ==
  /\ presale = link
  /\ cumulativeBurnAccounted = 0
  /\ burnLockedBalance = 0
  /\ rewardEligibleBalance = 0

\* The owner's setPresaleOnce
SetPresaleOnce(address) ==
  /\ presale = NOBODY
  /\ address # NOBODY
  /\ presale' = address
  /\ UNCHANGED <<cumulativeBurnAccounted, burnLockedBalance, rewardEligibleBalance>>

\* The requires of accountPresaleReconciliation
ReconciliationAccepted(caller, residualAmount, burnLockedAdded) ==
  /\ caller = presale
  /\ residualAmount > 0
  /\ burnLockedAdded <= residualAmount
  /\ cumulativeBurnAccounted + burnLockedAdded <= MAX_BURN_CAP

AccountPresaleReconciliation(caller, residualAmount, burnLockedAdded) ==
  /\ ReconciliationAccepted(caller, residualAmount, burnLockedAdded)
  /\ burnLockedBalance' = burnLockedBalance + burnLockedAdded
  /\ rewardEligibleBalance' = rewardEligibleBalance + (residualAmount - burnLockedAdded)
  /\ cumulativeBurnAccounted' = cumulativeBurnAccounted + burnLockedAdded
  /\ UNCHANGED presale

totalAccounted == burnLockedBalance + rewardEligibleBalance

remainingPresaleBurnTarget ==
  IF burnLockedBalance >= PRESALE_BURN_TARGET THEN 0 ELSE PRESALE_BURN_TARGET - burnLockedBalance
===========================================================================
