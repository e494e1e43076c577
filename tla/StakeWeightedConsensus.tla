----------------------- MODULE StakeWeightedConsensus -----------------------
(***************************************************************************)
(* Voting by stake (stake_weighted_consensus.js).  The power of a set of   *)
(* voters is the sum of their active stakes, here the number of the staked *)
(* tokens that vote.  stake maps a validator to its active stake, 0 when   *)
(* it is unknown or inactive.                                              *)
(***************************************************************************)
EXTENDS Naturals, FiniteSets

CONSTANTS Validators,
          MaxStake      \* the largest stake of a validator

ASSUME StakeAssumption == IsFiniteSet(Validators) /\ MaxStake \in Nat

Tokens(stake, S) == {t \in S \X (1..MaxStake) : t[2] <= stake[t[1]]}

votingPower(stake, voters) == Cardinality(Tokens(stake, voters))

totalActiveStake(stake) == votingPower(stake, Validators)

hasTwoThirdsQuorum(stake, voters) ==
  3 * votingPower(stake, voters) > 2 * totalActiveStake(stake)
=============================================================================
