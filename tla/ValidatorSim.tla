---------------------------- MODULE ValidatorSim ----------------------------
(***************************************************************************)
(* An epoch of branch validation (validator_sim.js): every branch is given *)
(* to a validator drawn by stake, and those that time out lose uptime and  *)
(* are slashed below a threshold.  Hashes are arbitrary numbers.           *)
(***************************************************************************)
EXTENDS Integers, Sequences, FiniteSets

CONSTANTS TOTAL_BRANCHES,
          MaxValidators, MaxValidatorStake   \* bounds on the rosters

ASSUME SimAssumption ==
  /\ TOTAL_BRANCHES \in Nat \ {0} /\ MaxValidators \in Nat /\ MaxValidatorStake \in Nat

REQUIRED_CONFIRMATIONS == (67 * TOTAL_BRANCHES + 99) \div 100
START_UPTIME == 96      \* in per cent
MIN_UPTIME == 95
SLASH == 5

Rosters == {roster \in UNION {[1..n -> [stake : 1..MaxValidatorStake, active : BOOLEAN]] :
                                n \in 1..MaxValidators} :
              \E i \in DOMAIN roster : roster[i].active}

Scenarios == [normal |-> {"confirmed", "rejected", "timeout"},
              attack_33 |-> {"confirmed", "rejected"},
              attack_50 |-> {"confirmed", "rejected"},
              downtime |-> {"confirmed", "rejected", "timeout"}]

VARIABLES
  roster,      \* the validators in their order
  scenario,
  results,     \* the validator and the status of each branch so far
  uptime, slashed,      \* of each validator, in per cent
  confirmed    \* the number of confirmed branches

simVars == <<roster, scenario, results, uptime, slashed, confirmed>>

ActiveIn(validators) == {i \in DOMAIN validators : validators[i].active}

\* The active stake up to each validator.
StakeUpTo(validators) ==
  LET acc[i \in 0..Len(validators)] ==
        IF i = 0 THEN 0
        ELSE acc[i - 1] + (IF validators[i].active THEN validators[i].stake ELSE 0)
  IN  acc

totalStake(validators) == StakeUpTo(validators)[Len(validators)]

\* Mutant: a number equal to the stake so far still counts
PickAtMost(validators, r) ==
  CHOOSE i \in ActiveIn(validators) :
    /\ r <= StakeUpTo(validators)[i]
    /\ \A j \in ActiveIn(validators) : j < i => r > StakeUpTo(validators)[j]

\* The first active validator up to whom there is more stake than r.
weightedPick(validators, r) ==
  CHOOSE i \in ActiveIn(validators) :
    /\ r < StakeUpTo(validators)[i]
    /\ \A j \in ActiveIn(validators) : j < i => r >= StakeUpTo(validators)[j]

SimInit ==
  /\ roster \in Rosters
  /\ scenario \in DOMAIN Scenarios
  /\ results = << >>
  /\ uptime = [v \in DOMAIN roster |-> START_UPTIME]
  /\ slashed = [v \in DOMAIN roster |-> 0]
  /\ confirmed = 0

\* Mutant: the threshold is compared before uptime is lost
ValidateBranchLate(r, status) ==
  /\ Len(results) < TOTAL_BRANCHES
  /\ LET v == weightedPick(roster, r)
     IN  /\ results' = Append(results, [validator |-> v, status |-> status])
         /\ confirmed' = confirmed + (IF status = "confirmed" THEN 1 ELSE 0)
         /\ IF status = "timeout"
            THEN /\ uptime' = [uptime EXCEPT ![v] = @ - 1]
                 /\ slashed' = [slashed EXCEPT ![v] =
                      IF uptime[v] < MIN_UPTIME THEN @ + SLASH ELSE @]
            ELSE UNCHANGED <<uptime, slashed>>
  /\ UNCHANGED <<roster, scenario>>

ValidateBranch(r, status) ==
  /\ Len(results) < TOTAL_BRANCHES
  /\ LET v == weightedPick(roster, r)
     IN  /\ results' = Append(results, [validator |-> v, status |-> status])
         /\ confirmed' = confirmed + (IF status = "confirmed" THEN 1 ELSE 0)
         /\ IF status = "timeout"
            THEN /\ uptime' = [uptime EXCEPT ![v] = @ - 1]
                 /\ slashed' = [slashed EXCEPT ![v] =
                      IF uptime[v] - 1 < MIN_UPTIME THEN @ + SLASH ELSE @]
            ELSE UNCHANGED <<uptime, slashed>>
  /\ UNCHANGED <<roster, scenario>>

SimNext ==
  \E r \in 0..(totalStake(roster) - 1), status \in Scenarios[scenario] :
    ValidateBranch(r, status)

SimSpec == SimInit /\ [][SimNext]_simVars
-----------------------------------------------------------------------------
finality == confirmed >= REQUIRED_CONFIRMATIONS
BranchesWith(status) == {i \in DOMAIN results : results[i].status = status}

\* The draw is fair: of the numbers below the active stake each active validator
\* gets as many as it has staked, and the others none.
LotteryIsProportional ==
  \A v \in DOMAIN roster :
    Cardinality({r \in 0..(totalStake(roster) - 1) : weightedPick(roster, r) = v})
      = IF roster[v].active THEN roster[v].stake ELSE 0

\* A validator is slashed for each timeout of a branch of its own but the first,
\* and more than two thirds of the branches of a final epoch are confirmed.
SlashedForTimeouts ==
  /\ \A v \in DOMAIN roster :
       LET missed == {i \in BranchesWith("timeout") : results[i].validator = v}
       IN  slashed[v] = IF missed = {} THEN 0 ELSE SLASH * (Cardinality(missed) - 1)
  /\ finality => 3 * Cardinality(BranchesWith("confirmed")) > 2 * TOTAL_BRANCHES
=============================================================================
