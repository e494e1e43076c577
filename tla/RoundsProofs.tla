---------------------------- MODULE RoundsProofs ----------------------------
(***************************************************************************)
(* Agreement of Rounds for any number of validators, blocks and rounds.    *)
(* Choosable(b, r): the votes of round r may still, or do, make b final.   *)
(* A voter that has precommitted b and whose lock was never lowered is led *)
(* away from b, by a lock or by a prevote of a later round, only when b is *)
(* not choosable there any more; and what is not choosable never becomes   *)
(* so.  That is claimed while few enough are faulty: once they are more,   *)
(* they stay more.                                                         *)
(***************************************************************************)
EXTENDS Rounds, FiniteSetTheorems, TLAPS

---------------------------------------------------------------------------
(* What quorums by stake guarantee *)

\* The tokens of a set of validators are finitely many.
LEMMA TokensFinite ==
  ASSUME NEW stake, NEW S \in SUBSET Validators
  PROVE  /\ IsFiniteSet(Tokens(stake, S))
         /\ votingPower(stake, S) \in Nat
<1>1. IsFiniteSet(S) BY StakeAssumption, FS_Subset
<1>2. IsFiniteSet(1..MaxStake) BY StakeAssumption, FS_Interval
<1>3. IsFiniteSet(S \X (1..MaxStake)) BY <1>1, <1>2, FS_Product
<1>4. Tokens(stake, S) \subseteq S \X (1..MaxStake) BY DEF Tokens
<1>5. IsFiniteSet(Tokens(stake, S)) BY <1>3, <1>4, FS_Subset
<1>6. QED BY <1>5, FS_CardinalityType DEF votingPower

\* More voters have more power.
LEMMA PowerMonotone ==
  ASSUME NEW stake, NEW S \in SUBSET Validators, NEW T \in SUBSET S
  PROVE  votingPower(stake, T) <= votingPower(stake, S)
<1>1. Tokens(stake, T) \subseteq Tokens(stake, S) BY DEF Tokens
<1>2. QED BY <1>1, TokensFinite, FS_Subset DEF votingPower

\* A set of voters that contains a quorum is a quorum.
LEMMA QuorumMonotone ==
  ASSUME NEW stake, NEW S \in SUBSET Validators, NEW T \in SUBSET S,
         hasTwoThirdsQuorum(stake, T)
  PROVE  hasTwoThirdsQuorum(stake, S)
<1>1. /\ votingPower(stake, T) \in Nat
      /\ votingPower(stake, S) \in Nat
      /\ totalActiveStake(stake) \in Nat
  <2>1. T \in SUBSET Validators OBVIOUS
  <2>2. QED BY <2>1, TokensFinite DEF totalActiveStake
<1>2. votingPower(stake, T) <= votingPower(stake, S) BY PowerMonotone
<1>3. QED BY <1>1, <1>2 DEF hasTwoThirdsQuorum

\* Two quorums have a member in common that is outside any set of validators
\* with at most a third of the stake.
LEMMA QuorumsMeetOutside ==
  ASSUME NEW stake, NEW S \in SUBSET Validators, NEW T \in SUBSET Validators,
         NEW Few \in SUBSET Validators,
         3 * votingPower(stake, Few) <= totalActiveStake(stake),
         hasTwoThirdsQuorum(stake, S), hasTwoThirdsQuorum(stake, T)
  PROVE  \E v \in S \cap T : v \notin Few
<1> DEFINE A == Tokens(stake, S)
           B == Tokens(stake, T)
           F == Tokens(stake, Few)
           U == Tokens(stake, Validators)
<1>1. /\ IsFiniteSet(A) /\ IsFiniteSet(B) /\ IsFiniteSet(F) /\ IsFiniteSet(U)
      /\ Cardinality(A) \in Nat /\ Cardinality(B) \in Nat
      /\ Cardinality(F) \in Nat /\ Cardinality(U) \in Nat
  <2>1. Validators \in SUBSET Validators OBVIOUS
  <2>2. QED BY <2>1, TokensFinite DEF votingPower
<1>2. /\ 3 * Cardinality(A) > 2 * Cardinality(U)
      /\ 3 * Cardinality(B) > 2 * Cardinality(U)
      /\ 3 * Cardinality(F) <= Cardinality(U)
  BY DEF hasTwoThirdsQuorum, votingPower, totalActiveStake
<1>3. Cardinality(A \cup B) <= Cardinality(U)
  <2>1. A \cup B \subseteq U BY DEF Tokens
  <2>2. QED BY <2>1, <1>1, FS_Subset
<1>4. /\ Cardinality(A \cup B) = Cardinality(A) + Cardinality(B) - Cardinality(A \cap B)
      /\ IsFiniteSet(A \cap B) /\ Cardinality(A \cap B) \in Nat
  BY <1>1, FS_Union, FS_Intersection, FS_CardinalityType
<1>5. Cardinality(A \cap B) > Cardinality(F)
  BY <1>1, <1>2, <1>3, <1>4
<1>6. ~(A \cap B \subseteq F)
  <2>1. SUFFICES ASSUME A \cap B \subseteq F PROVE FALSE OBVIOUS
  <2>2. Cardinality(A \cap B) <= Cardinality(F) BY <2>1, <1>1, FS_Subset
  <2>3. QED BY <2>2, <1>1, <1>4, <1>5
<1>7. PICK t : t \in A /\ t \in B /\ t \notin F BY <1>6
<1>8. t[1] \in S \cap T /\ t[1] \notin Few BY <1>7 DEF Tokens
<1>9. QED BY <1>8

---------------------------------------------------------------------------
(* The invariant *)

\* The validators whose votes guarantee nothing, and when they are few enough
Faulty == Byzantine \cup lowered
FewAreFaulty == 3 * votingPower(Stake, Faulty) <= totalActiveStake(Stake)

MayPrecommit(r, b) ==
  Byzantine \cup {v \in Honest : \/ <<v, r, b>> \in precommits
                                 \/ round[v] <= r /\ ~HasVoted(precommits, v, r)}

Choosable(r, b) == hasTwoThirdsQuorum(Stake, MayPrecommit(r, b))

VotesAreOnce ==
  \A v \in Honest, r \in RoundNumbers, b, other \in Blocks :
    /\ <<v, r, b>> \in prevotes /\ <<v, r, other>> \in prevotes => b = other
    /\ <<v, r, b>> \in precommits /\ <<v, r, other>> \in precommits => b = other

VotesAreBehind ==
  \A v \in Honest, r \in RoundNumbers, b \in Blocks :
    <<v, r, b>> \in prevotes \cup precommits => r <= round[v]

PrecommitsHaveQuorums ==
  \A v \in Honest, r \in RoundNumbers, b \in Blocks :
    <<v, r, b>> \in precommits => Quorum(prevotes, r, b)

PrecommitsLock ==
  \A v \in Honest \ lowered, r \in RoundNumbers, b \in Blocks :
    <<v, r, b>> \in precommits => locks[v] # NoLock /\ r <= locks[v].round

LedAwayByLock ==
  \A v \in Honest \ lowered, r \in RoundNumbers, b \in Blocks :
    <<v, r, b>> \in precommits /\ locks[v].blockHash # b => ~Choosable(r, b)

LedAwayByVote ==
  \A v \in Honest \ lowered, r, later \in RoundNumbers, b, other \in Blocks :
    /\ <<v, r, b>> \in precommits
    /\ <<v, later, other>> \in prevotes
    /\ later > r /\ other # b
    => ~Choosable(r, b)

RoundsInv ==
  /\ RoundsTypeOK
  /\ VotesAreOnce /\ VotesAreBehind
  /\ PrecommitsHaveQuorums /\ PrecommitsLock
  /\ FewAreFaulty => LedAwayByLock /\ LedAwayByVote

\* The sets of voters are sets of validators.
LEMMA VotersAreValidators ==
  ASSUME NEW r, NEW b, NEW votes
  PROVE  /\ Voters(votes, r, b) \in SUBSET Validators
         /\ MayPrecommit(r, b) \in SUBSET Validators
BY RoundsAssumption DEF Voters, MayPrecommit, Honest

\* Of two quorums with the byzantine validators on every side, one honest
\* validator whose lock was never lowered is in both.
LEMMA QuorumsMeet ==
  ASSUME RoundsTypeOK, FewAreFaulty,
         NEW S \in SUBSET Validators, NEW T \in SUBSET Validators,
         hasTwoThirdsQuorum(Stake, S), hasTwoThirdsQuorum(Stake, T)
  PROVE  \E v \in Honest \ lowered : v \in S /\ v \in T
<1>1. Faulty \in SUBSET Validators
  BY RoundsAssumption DEF Faulty, Honest, RoundsTypeOK
<1>2. \E v \in S \cap T : v \notin Faulty
  BY <1>1, QuorumsMeetOutside DEF FewAreFaulty
<1>3. QED BY <1>2 DEF Honest, Faulty

\* A quorum of prevotes for another block in a later round.
LEMMA LaterQuorum ==
  ASSUME RoundsInv, FewAreFaulty,
         NEW r \in RoundNumbers, NEW later \in RoundNumbers,
         NEW b \in Blocks, NEW other \in Blocks,
         Quorum(prevotes, later, other), later > r, other # b
  PROVE  ~Choosable(r, b)
<1>1. SUFFICES ASSUME Choosable(r, b) PROVE FALSE OBVIOUS
<1>2. PICK v \in Honest \ lowered : v \in Voters(prevotes, later, other) /\ v \in MayPrecommit(r, b)
  BY <1>1, VotersAreValidators, QuorumsMeet DEF Choosable, Quorum, RoundsInv
<1>3. <<v, later, other>> \in prevotes BY <1>2 DEF Voters, Honest
<1>4. later <= round[v] BY <1>3 DEF RoundsInv, VotesAreBehind
<1>5. ~(round[v] <= r)
  BY <1>4 DEF RoundsInv, RoundsTypeOK, RoundNumbers
<1>6. <<v, r, b>> \in precommits BY <1>2, <1>5 DEF MayPrecommit, Honest
<1>7. QED BY <1>1, <1>3, <1>6 DEF RoundsInv, LedAwayByVote

\* What is not choosable never becomes so, and a quorum stays a quorum.
LEMMA StepsShrinkChoice ==
  ASSUME RoundsInv, [RoundsNext]_roundsVars,
         NEW r \in RoundNumbers, NEW b \in Blocks
  PROVE  /\ Choosable(r, b)' => Choosable(r, b)
         /\ Quorum(prevotes, r, b) => Quorum(prevotes, r, b)'
<1> DEFINE Grows ==
             /\ \A v \in Honest : round[v] <= round'[v] /\ round[v] \in Nat /\ round'[v] \in Nat
             /\ precommits \subseteq precommits'
             /\ prevotes \subseteq prevotes'
             /\ \A v \in Honest : <<v, r, b>> \in precommits' =>
                  \/ <<v, r, b>> \in precommits
                  \/ round[v] <= r /\ ~HasVoted(precommits, v, r)
<1>1. Grows
  <2>1. CASE UNCHANGED roundsVars
    BY <2>1 DEF roundsVars, RoundsInv, RoundsTypeOK, RoundNumbers
  <2>2. ASSUME NEW q \in RoundNumbers, NEW c \in Blocks, Propose(q, c)
        PROVE Grows
    BY <2>2 DEF Propose, RoundsInv, RoundsTypeOK, RoundNumbers
  <2>3. ASSUME NEW q \in RoundNumbers, NEW c \in Blocks, NEW w \in Honest, Prevote(w, q, c)
        PROVE Grows
    BY <2>3 DEF Prevote, RoundsInv, RoundsTypeOK, RoundNumbers
  <2>4. ASSUME NEW q \in RoundNumbers, NEW c \in Blocks, NEW w \in Honest, Precommit(w, q, c)
        PROVE Grows
    BY <2>4 DEF Precommit, RoundsInv, RoundsTypeOK, RoundNumbers
  <2>5. ASSUME NEW q \in RoundNumbers, NEW c \in Blocks, NEW w \in Honest, UnlockAndRelock(w, q, c)
        PROVE Grows
    BY <2>5 DEF UnlockAndRelock, RoundsInv, RoundsTypeOK, RoundNumbers
  <2>6. CASE RoundsNext
    <3>1. PICK q \in RoundNumbers, c \in Blocks :
             \/ Propose(q, c)
             \/ \E w \in Honest : \/ Prevote(w, q, c)
                                 \/ Precommit(w, q, c)
                                 \/ UnlockAndRelock(w, q, c)
      BY <2>6 DEF RoundsNext
    <3> HIDE DEF Grows
    <3>2. QED BY <3>1, <2>2, <2>3, <2>4, <2>5
  <2>7. QED BY <2>1, <2>6
<1>2. MayPrecommit(r, b)' \subseteq MayPrecommit(r, b)
  <2>1. ASSUME NEW v \in Honest, round'[v] <= r, ~HasVoted(precommits, v, r)'
        PROVE round[v] <= r /\ ~HasVoted(precommits, v, r)
    <3>1. round[v] <= r BY <1>1, <2>1 DEF RoundNumbers
    <3>2. QED BY <3>1, <1>1, <2>1 DEF HasVoted
  <2>2. QED BY <1>1, <2>1 DEF MayPrecommit
<1>3. Voters(prevotes, r, b) \subseteq Voters(prevotes, r, b)'
  BY <1>1 DEF Voters
<1>4. MayPrecommit(r, b) \in SUBSET Validators BY VotersAreValidators
<1>5. Voters(prevotes, r, b)' \in SUBSET Validators
  BY RoundsAssumption DEF Voters, Honest
<1>6. Choosable(r, b)' => Choosable(r, b)
  <2>1. MayPrecommit(r, b)' \in SUBSET MayPrecommit(r, b) BY <1>2
  <2>2. Choosable(r, b)' = hasTwoThirdsQuorum(Stake, MayPrecommit(r, b)')
    BY DEF Choosable, hasTwoThirdsQuorum, votingPower, totalActiveStake, Tokens
  <2>3. QED BY <1>4, <2>1, <2>2, QuorumMonotone DEF Choosable
<1>7. Quorum(prevotes, r, b) => Quorum(prevotes, r, b)'
  <2>1. Voters(prevotes, r, b) \in SUBSET (Voters(prevotes, r, b)') BY <1>3
  <2>2. Quorum(prevotes, r, b)' = hasTwoThirdsQuorum(Stake, Voters(prevotes, r, b)')
    BY DEF Quorum, hasTwoThirdsQuorum, votingPower, totalActiveStake, Tokens
  <2>3. QED BY <1>5, <2>1, <2>2, QuorumMonotone DEF Quorum
<1>8. QED BY <1>6, <1>7

\* A lowered lock is not forgotten.
LEMMA FaultyGrow ==
  ASSUME RoundsInv, [RoundsNext]_roundsVars
  PROVE  /\ lowered \subseteq lowered' /\ lowered' \subseteq Honest
         /\ FewAreFaulty' => FewAreFaulty
<1>1. lowered \subseteq lowered' /\ lowered' \subseteq Honest
  BY DEF RoundsInv, RoundsTypeOK, RoundsNext, roundsVars, Propose, Prevote, Precommit,
     UnlockAndRelock
<1>2. ASSUME FewAreFaulty' PROVE FewAreFaulty
  <2>1. Faulty' \in SUBSET Validators /\ Faulty \in SUBSET (Faulty')
    BY <1>1, RoundsAssumption DEF Faulty, Honest
  <2>2. /\ votingPower(Stake, Faulty) <= votingPower(Stake, Faulty')
        /\ votingPower(Stake, Faulty) \in Nat /\ votingPower(Stake, Faulty') \in Nat
    BY <2>1, PowerMonotone, TokensFinite
  <2>3. totalActiveStake(Stake) \in Nat
    BY TokensFinite DEF totalActiveStake
  <2>4. 3 * votingPower(Stake, Faulty') <= totalActiveStake(Stake)
    BY <1>2 DEF FewAreFaulty, votingPower, totalActiveStake, Tokens
  <2>5. QED BY <2>2, <2>3, <2>4 DEF FewAreFaulty
<1>3. QED BY <1>1, <1>2

\* Initially nobody has voted or is locked.
LEMMA RoundsInvInitially == RoundsInit => RoundsInv
<1>1. FirstRound \in RoundNumbers BY RoundsAssumption
<1>2. QED
  BY <1>1 DEF RoundsInit, RoundsInv, RoundsTypeOK, VotesAreOnce, VotesAreBehind,
     PrecommitsHaveQuorums, PrecommitsLock, LedAwayByLock, LedAwayByVote

\* A proposal changes nothing the invariant is about.
LEMMA ProposePreserves ==
  ASSUME RoundsInv, NEW q \in RoundNumbers, NEW c \in Blocks, Propose(q, c)
  PROVE  RoundsInv'
<1>1. RoundsTypeOK' BY DEF RoundsInv, RoundsTypeOK, Propose
<1>2. /\ \A r, b : Choosable(r, b)' = Choosable(r, b)
      /\ \A r, b : Quorum(prevotes, r, b)' = Quorum(prevotes, r, b)
  BY DEF Propose, Choosable, MayPrecommit, HasVoted, Quorum, Voters,
     hasTwoThirdsQuorum, votingPower, totalActiveStake, Tokens
<1>3. VotesAreOnce' /\ VotesAreBehind' /\ PrecommitsLock'
  BY DEF RoundsInv, Propose, VotesAreOnce, VotesAreBehind, PrecommitsLock
<1>4. PrecommitsHaveQuorums' BY <1>2 DEF RoundsInv, Propose, PrecommitsHaveQuorums
<1>5. FewAreFaulty' => LedAwayByLock' /\ LedAwayByVote'
  <2>1. FewAreFaulty' => FewAreFaulty
    BY FaultyGrow DEF RoundsNext
  <2>2. QED BY <1>2, <2>1 DEF RoundsInv, Propose, LedAwayByLock, LedAwayByVote
<1>6. QED BY <1>1, <1>3, <1>4, <1>5 DEF RoundsInv

\* A prevote for another block than one precommitted before needs a lock on it.
LEMMA PrevotePreserves ==
  ASSUME RoundsInv, NEW w \in Honest, NEW q \in RoundNumbers, NEW c \in Blocks,
         Prevote(w, q, c)
  PROVE  RoundsInv'
<1>0. /\ q >= round[w] /\ ~HasVoted(prevotes, w, q) /\ canVote(w, c)
      /\ prevotes' = prevotes \cup {<<w, q, c>>}
      /\ round' = [round EXCEPT ![w] = q]
      /\ locks' = locks /\ precommits' = precommits /\ proposals' = proposals
      /\ lowered' = lowered
  BY DEF Prevote
<1>a. RoundsNext BY DEF RoundsNext
<1>b. \A r \in RoundNumbers, b \in Blocks :
        /\ Choosable(r, b)' => Choosable(r, b)
        /\ Quorum(prevotes, r, b) => Quorum(prevotes, r, b)'
  BY <1>a, StepsShrinkChoice
<1>f. FewAreFaulty' => FewAreFaulty /\ LedAwayByLock /\ LedAwayByVote
  BY <1>a, FaultyGrow DEF RoundsInv
<1>1. RoundsTypeOK' BY <1>0 DEF RoundsInv, RoundsTypeOK, Votes
<1>2. VotesAreOnce' BY <1>0 DEF RoundsInv, VotesAreOnce, HasVoted
<1>3. VotesAreBehind'
  BY <1>0 DEF RoundsInv, RoundsTypeOK, VotesAreBehind, RoundNumbers
<1>4. PrecommitsHaveQuorums' BY <1>0, <1>b DEF RoundsInv, PrecommitsHaveQuorums
<1>5. PrecommitsLock' BY <1>0 DEF RoundsInv, PrecommitsLock
<1>6. FewAreFaulty' => LedAwayByLock' BY <1>0, <1>b, <1>f DEF LedAwayByLock
<1>7. FewAreFaulty' => LedAwayByVote'
  <2>1. SUFFICES ASSUME FewAreFaulty', NEW v \in Honest \ lowered, NEW r \in RoundNumbers, NEW later \in RoundNumbers,
                        NEW b \in Blocks, NEW other \in Blocks,
                        <<v, r, b>> \in precommits, <<v, later, other>> \in prevotes',
                        later > r, other # b
                 PROVE  ~Choosable(r, b)'
    BY <1>0 DEF LedAwayByVote
  <2>2. CASE <<v, later, other>> \in prevotes
    BY <2>1, <2>2, <1>b, <1>f DEF LedAwayByVote
  <2>3. CASE v = w /\ later = q /\ other = c
    <3>1. locks[w] # NoLock BY <2>1, <2>3 DEF RoundsInv, PrecommitsLock
    <3>2. locks[w].blockHash = c BY <3>1, <1>0 DEF canVote
    <3>3. ~Choosable(r, b) BY <2>1, <2>3, <3>2, <1>f DEF LedAwayByLock
    <3>4. QED BY <3>3, <1>b
  <2>4. QED BY <2>1, <2>2, <2>3, <1>0
<1>8. QED BY <1>1, <1>2, <1>3, <1>4, <1>5, <1>6, <1>7 DEF RoundsInv

\* A precommit locks its block, at a round no smaller than the lock's before.
LEMMA PrecommitPreserves ==
  ASSUME RoundsInv, NEW w \in Honest, NEW q \in RoundNumbers, NEW c \in Blocks,
         Precommit(w, q, c)
  PROVE  RoundsInv'
<1>0. /\ q >= round[w] /\ ~HasVoted(precommits, w, q) /\ Quorum(prevotes, q, c)
      /\ locks[w] = NoLock \/ (locks[w].blockHash = c /\ q >= locks[w].round)
      /\ locks' = [locks EXCEPT ![w] = [blockHash |-> c, round |-> q]]
      /\ precommits' = precommits \cup {<<w, q, c>>}
      /\ round' = [round EXCEPT ![w] = q]
      /\ prevotes' = prevotes /\ proposals' = proposals /\ lowered' = lowered
  BY DEF Precommit, Lock, LockAccepted
<1>a. RoundsNext BY DEF RoundsNext
<1>b. \A r \in RoundNumbers, b \in Blocks :
        /\ Choosable(r, b)' => Choosable(r, b)
        /\ Quorum(prevotes, r, b) => Quorum(prevotes, r, b)'
  BY <1>a, StepsShrinkChoice
<1>f. FewAreFaulty' => FewAreFaulty /\ LedAwayByLock /\ LedAwayByVote
  BY <1>a, FaultyGrow DEF RoundsInv
<1>c. /\ locks'[w] = [blockHash |-> c, round |-> q]
      /\ \A v \in Honest : v # w => locks'[v] = locks[v]
  BY <1>0 DEF RoundsInv, RoundsTypeOK
<1>d. [blockHash |-> c, round |-> q] # NoLock BY RoundsAssumption DEF NoLock
<1>1. RoundsTypeOK' BY <1>0 DEF RoundsInv, RoundsTypeOK, Votes
<1>2. VotesAreOnce' BY <1>0 DEF RoundsInv, VotesAreOnce, HasVoted
<1>3. VotesAreBehind'
  BY <1>0 DEF RoundsInv, RoundsTypeOK, VotesAreBehind, RoundNumbers
<1>4. PrecommitsHaveQuorums' BY <1>0, <1>b DEF RoundsInv, PrecommitsHaveQuorums
<1>5. PrecommitsLock'
  <2>1. SUFFICES ASSUME NEW v \in Honest \ lowered, NEW r \in RoundNumbers, NEW b \in Blocks,
                        <<v, r, b>> \in precommits'
                 PROVE  locks'[v] # NoLock /\ r <= locks'[v].round
    BY <1>0 DEF PrecommitsLock
  <2>2. CASE v # w
    BY <2>1, <2>2, <1>0, <1>c DEF RoundsInv, PrecommitsLock
  <2>3. CASE v = w
    <3>1. r <= q
      <4>1. CASE <<w, r, b>> \in precommits
        BY <4>1, <1>0 DEF RoundsInv, RoundsTypeOK, VotesAreBehind, RoundNumbers
      <4>2. CASE r = q BY <4>2 DEF RoundNumbers
      <4>3. QED BY <2>1, <2>3, <1>0, <4>1, <4>2
    <3>2. QED BY <2>3, <3>1, <1>c, <1>d
  <2>4. QED BY <2>2, <2>3
<1>6. FewAreFaulty' => LedAwayByLock'
  <2>1. SUFFICES ASSUME FewAreFaulty', NEW v \in Honest \ lowered, NEW r \in RoundNumbers, NEW b \in Blocks,
                        <<v, r, b>> \in precommits', locks'[v].blockHash # b
                 PROVE  ~Choosable(r, b)'
    BY <1>0 DEF LedAwayByLock
  <2>2. CASE v # w
    BY <2>1, <2>2, <1>0, <1>b, <1>c, <1>f DEF LedAwayByLock
  <2>3. CASE v = w
    <3>1. <<w, r, b>> \in precommits /\ b # c BY <2>1, <2>3, <1>0, <1>c
    <3>2. locks[w] # NoLock BY <2>1, <2>3, <3>1 DEF RoundsInv, PrecommitsLock
    <3>3. locks[w].blockHash # b BY <3>1, <3>2, <1>0
    <3>4. QED BY <2>1, <2>3, <3>1, <3>3, <1>b, <1>f DEF LedAwayByLock
  <2>4. QED BY <2>2, <2>3
<1>7. FewAreFaulty' => LedAwayByVote'
  <2>1. SUFFICES ASSUME FewAreFaulty', NEW v \in Honest \ lowered, NEW r \in RoundNumbers, NEW later \in RoundNumbers,
                        NEW b \in Blocks, NEW other \in Blocks,
                        <<v, r, b>> \in precommits', <<v, later, other>> \in prevotes,
                        later > r, other # b
                 PROVE  ~Choosable(r, b)'
    BY <1>0 DEF LedAwayByVote
  <2>2. CASE <<v, r, b>> \in precommits
    BY <2>1, <2>2, <1>b, <1>f DEF LedAwayByVote
  <2>3. CASE v = w /\ r = q
    <3>1. later <= round[w] BY <2>1, <2>3 DEF RoundsInv, VotesAreBehind
    <3>2. QED BY <2>1, <2>3, <3>1, <1>0 DEF RoundsInv, RoundsTypeOK, RoundNumbers
  <2>4. QED BY <2>1, <2>2, <2>3, <1>0
<1>8. QED BY <1>1, <1>2, <1>3, <1>4, <1>5, <1>6, <1>7 DEF RoundsInv

\* A voter is unlocked by a quorum of a later round, after which the block it
\* was locked on, and has precommitted, is not choosable any more; or it stays
\* locked on its block, at a round no smaller, unless its lock is lowered.
LEMMA UnlockPreserves ==
  ASSUME RoundsInv, NEW w \in Honest, NEW q \in RoundNumbers, NEW c \in Blocks,
         UnlockAndRelock(w, q, c)
  PROVE  RoundsInv'
<1>0. /\ \/ locks[w] = NoLock
         \/ locks[w].blockHash = c /\ (q < locks[w].round => w \in lowered')
         \/ locks[w].blockHash # c /\ q > locks[w].round /\ Quorum(prevotes, q, c)
      /\ lowered \subseteq lowered' /\ lowered' \subseteq Honest
      /\ locks' = [locks EXCEPT ![w] = [blockHash |-> c, round |-> q]]
      /\ round' = round /\ precommits' = precommits
      /\ prevotes' = prevotes /\ proposals' = proposals
  BY DEF UnlockAndRelock, Lock, canUnlock, LowersLock, RoundsInv, RoundsTypeOK
<1>a. RoundsNext BY DEF RoundsNext
<1>b. \A r \in RoundNumbers, b \in Blocks :
        /\ Choosable(r, b)' => Choosable(r, b)
        /\ Quorum(prevotes, r, b) => Quorum(prevotes, r, b)'
  BY <1>a, StepsShrinkChoice
<1>f. FewAreFaulty' => FewAreFaulty /\ LedAwayByLock /\ LedAwayByVote
  BY <1>a, FaultyGrow DEF RoundsInv
<1>c. /\ locks'[w] = [blockHash |-> c, round |-> q]
      /\ \A v \in Honest : v # w => locks'[v] = locks[v]
  BY <1>0 DEF RoundsInv, RoundsTypeOK
<1>d. [blockHash |-> c, round |-> q] # NoLock BY RoundsAssumption DEF NoLock
<1>e. locks[w].round \in Nat /\ q \in Nat
  BY DEF RoundsInv, RoundsTypeOK, RoundNumbers, NoLock
<1>1. RoundsTypeOK' BY <1>0 DEF RoundsInv, RoundsTypeOK, Votes
<1>2. VotesAreOnce' BY <1>0 DEF RoundsInv, VotesAreOnce
<1>3. VotesAreBehind' BY <1>0 DEF RoundsInv, VotesAreBehind
<1>4. PrecommitsHaveQuorums' BY <1>0, <1>b DEF RoundsInv, PrecommitsHaveQuorums
<1>5. PrecommitsLock'
  <2>1. SUFFICES ASSUME NEW v \in Honest \ lowered', NEW r \in RoundNumbers, NEW b \in Blocks,
                        <<v, r, b>> \in precommits
                 PROVE  locks'[v] # NoLock /\ r <= locks'[v].round
    BY <1>0 DEF PrecommitsLock
  <2>2. locks[v] # NoLock /\ r <= locks[v].round BY <1>0, <2>1 DEF RoundsInv, PrecommitsLock
  <2>3. CASE v # w BY <2>2, <2>3, <1>c
  <2>4. CASE v = w
    <3>1. r <= q BY <2>1, <2>2, <2>4, <1>0, <1>e DEF RoundNumbers
    <3>2. QED BY <2>4, <3>1, <1>c, <1>d
  <2>5. QED BY <2>3, <2>4
<1>6. FewAreFaulty' => LedAwayByLock'
  <2>1. SUFFICES ASSUME FewAreFaulty', NEW v \in Honest \ lowered', NEW r \in RoundNumbers, NEW b \in Blocks,
                        <<v, r, b>> \in precommits, locks'[v].blockHash # b
                 PROVE  ~Choosable(r, b)'
    BY <1>0 DEF LedAwayByLock
  <2>2. CASE v # w \/ locks[v].blockHash # b
    BY <2>1, <2>2, <1>0, <1>b, <1>c, <1>f DEF LedAwayByLock
  <2>3. CASE v = w /\ locks[v].blockHash = b
    <3>0. locks[w] # NoLock /\ r <= locks[w].round
      BY <1>0, <2>1, <2>3 DEF RoundsInv, PrecommitsLock
    <3>1. b # c /\ q > locks[w].round /\ Quorum(prevotes, q, c)
      BY <2>1, <2>3, <3>0, <1>0, <1>c
    <3>2. q > r BY <3>1, <3>0, <1>e DEF RoundNumbers
    <3>3. ~Choosable(r, b) BY <2>1, <3>1, <3>2, <1>f, LaterQuorum
    <3>4. QED BY <3>3, <1>b
  <2>4. QED BY <2>2, <2>3
<1>7. FewAreFaulty' => LedAwayByVote' BY <1>0, <1>b, <1>f DEF LedAwayByVote
<1>8. QED BY <1>1, <1>2, <1>3, <1>4, <1>5, <1>6, <1>7 DEF RoundsInv

\* The invariant holds in every reachable state.
THEOREM RoundsInvariant == RoundsSpec => []RoundsInv
<1>1. RoundsInit => RoundsInv BY RoundsInvInitially
<1>2. RoundsInv /\ [RoundsNext]_roundsVars => RoundsInv'
  <2>1. SUFFICES ASSUME RoundsInv, [RoundsNext]_roundsVars PROVE RoundsInv' OBVIOUS
  <2>2. CASE UNCHANGED roundsVars
    <3>1. /\ \A r, b : Choosable(r, b)' = Choosable(r, b)
          /\ \A r, b : Quorum(prevotes, r, b)' = Quorum(prevotes, r, b)
      BY <2>2 DEF roundsVars, Choosable, MayPrecommit, HasVoted, Quorum, Voters,
         hasTwoThirdsQuorum, votingPower, totalActiveStake, Tokens
    <3>2. RoundsTypeOK' /\ VotesAreOnce' /\ VotesAreBehind' /\ PrecommitsLock'
      BY <2>1, <2>2 DEF roundsVars, RoundsInv, RoundsTypeOK, VotesAreOnce,
         VotesAreBehind, PrecommitsLock
    <3>3. PrecommitsHaveQuorums'
      BY <2>1, <2>2, <3>1 DEF roundsVars, RoundsInv, PrecommitsHaveQuorums
    <3>4. FewAreFaulty' => LedAwayByLock' /\ LedAwayByVote'
      <4>1. FewAreFaulty' => FewAreFaulty BY <2>1, FaultyGrow
      <4>2. QED BY <2>1, <2>2, <3>1, <4>1 DEF roundsVars, RoundsInv, LedAwayByLock, LedAwayByVote
    <3>5. QED BY <3>2, <3>3, <3>4 DEF RoundsInv
  <2>3. CASE RoundsNext
    <3>1. PICK q \in RoundNumbers, c \in Blocks :
            \/ Propose(q, c)
            \/ \E w \in Honest : \/ Prevote(w, q, c)
                                 \/ Precommit(w, q, c)
                                 \/ UnlockAndRelock(w, q, c)
      BY <2>3 DEF RoundsNext
    <3>2. QED BY <2>1, <3>1, ProposePreserves, PrevotePreserves, PrecommitPreserves,
                 UnlockPreserves
  <2>4. QED BY <2>1, <2>2, <2>3
<1>3. QED BY <1>1, <1>2, PTL DEF RoundsSpec

\* Two final blocks of two rounds: the earlier one is choosable for ever, and
\* the later one has had a quorum of prevotes.
LEMMA InvImpliesAgreement == RoundsInv => Agreement
<1>0. totalActiveStake(Stake) \in Nat /\ (RoundsTypeOK => votingPower(Stake, Faulty) \in Nat)
  BY RoundsAssumption, TokensFinite DEF totalActiveStake, RoundsTypeOK, Faulty, Honest
<1>1. SUFFICES ASSUME RoundsInv, FewAreFaulty, NEW b \in Blocks, NEW other \in Blocks,
                      NEW r \in RoundNumbers, NEW q \in RoundNumbers, q >= r,
                      Quorum(precommits, r, b), Quorum(precommits, q, other)
               PROVE  b = other
  BY <1>0 DEF Agreement, Finalized, RoundNumbers, FewAreFaulty, Faulty, RoundsInv
<1>2. CASE q = r
  <2>1. PICK v \in Honest : v \in Voters(precommits, r, b) /\ v \in Voters(precommits, q, other)
    BY <1>1, VotersAreValidators, QuorumsMeet DEF Quorum, RoundsInv
  <2>2. <<v, r, b>> \in precommits /\ <<v, r, other>> \in precommits
    BY <1>2, <2>1 DEF Voters, Honest
  <2>3. QED BY <1>1, <2>2 DEF RoundsInv, VotesAreOnce
<1>3. CASE q > r
  <2>1. PICK v \in Honest : v \in Voters(precommits, q, other)
    BY <1>1, VotersAreValidators, QuorumsMeet DEF Quorum, RoundsInv
  <2>2. <<v, q, other>> \in precommits BY <2>1 DEF Voters, Honest
  <2>3. Quorum(prevotes, q, other) BY <1>1, <2>2 DEF RoundsInv, PrecommitsHaveQuorums
  <2>4. Choosable(r, b)
    <3>1. Voters(precommits, r, b) \in SUBSET MayPrecommit(r, b) BY DEF Voters, MayPrecommit
    <3>2. QED BY <1>1, <3>1, VotersAreValidators, QuorumMonotone DEF Quorum, Choosable
  <2>5. QED BY <1>1, <1>3, <2>3, <2>4, LaterQuorum
<1>4. QED BY <1>1, <1>2, <1>3 DEF RoundNumbers

\* No two blocks of a height are ever final unless more than a third of the stake
\* is byzantine or has had its lock moved back.
THEOREM RoundsAgree == RoundsSpec => []Agreement
BY RoundsInvariant, InvImpliesAgreement, PTL
=============================================================================
