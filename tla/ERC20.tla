------------------------------- MODULE ERC20 -------------------------------
(***************************************************************************)
(* The two ERC-20 tokens as the contracts see them: a ledger of balances.  *)
(* A transfer that the sender cannot cover reverts, so the caller states   *)
(* CanTransfer as a guard.  Allowances are left out: a buyer who has not   *)
(* approved the presale is a buyer whose call reverts.                     *)
(***************************************************************************)
EXTENDS Integers, FiniteSets

CONSTANT Users

OWNER       == "owner"        \* the deployer, owner of every contract
TREASURY    == "treasury"     \* the treasury Safe
RELAYER     == "relayer"      \* a wallet of the recorder scripts
PRESALE     == "presale"      \* the DDCPresaleVesting contract
REWARD_POOL == "rewardPool"   \* the DDCRewardPool contract
NOBODY      == "zero"         \* address(0)

Addresses == Users \cup {OWNER, TREASURY, RELAYER, PRESALE, REWARD_POOL}

\* An address has 160 bits, so there are finitely many users.
ASSUME UsersAssumption ==
  /\ Users \cap {OWNER, TREASURY, RELAYER, PRESALE, REWARD_POOL, NOBODY} = {}
  /\ IsFiniteSet(Users)

Balances == [Addresses -> Nat]

CanTransfer(bal, from, amount) == amount <= bal[from]

Transfer(bal, from, to, amount) == [bal EXCEPT ![from] = @ - amount, ![to] = @ + amount]
===========================================================================
