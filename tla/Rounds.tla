------------------------------- MODULE Rounds -------------------------------
(***************************************************************************)
(* Voting on one height, round after round: proposals, prevotes,           *)
(* precommits and finality (round_consensus.js) by voters that keep to the *)
(* lock rules (lock_rules.js).  A byzantine validator is taken to have     *)
(* sent every vote and, as a proposer, every proposal.  As in canUnlock, a *)
(* quorum is one of confirmed votes for one block in one round.            *)
(***************************************************************************)
EXTENDS StakeWeightedConsensus, Sequences

CONSTANTS Blocks,
          Stake,       \* of each validator, all of them active
          Byzantine,
          Roster,      \* the validators in the order the proposers take turns
          Height,
          FirstRound,  \* the round the voters start with; a lock may name an older one
          MaxRound     \* bound on the rounds

Honest == Validators \ Byzantine
RoundNumbers == 0..MaxRound
NoLock == [blockHash |-> "none", round |-> 0]

ASSUME RoundsAssumption ==
  /\ Stake \in [Validators -> 1..MaxStake]
  /\ Byzantine \subseteq Validators
  /\ Roster \in Seq(Validators) /\ Roster # << >>
  /\ Height \in Nat /\ MaxRound \in Nat /\ FirstRound \in RoundNumbers
  /\ "none" \notin Blocks

VARIABLES
  round,       \* the latest round a voter has voted in
  locks,       \* its lock, NoLock when it has none
  proposals,   \* the proposals of honest proposers
  prevotes,    \* the votes of honest voters, as <<voter, round, block>>
  precommits,
  lowered      \* history: the voters whose lock was moved back to an older round

roundsVars == <<round, locks, proposals, prevotes, precommits, lowered>>

Votes == Honest \X RoundNumbers \X Blocks

RoundsTypeOK ==
  /\ round \in [Honest -> RoundNumbers]
  /\ locks \in [Honest -> {NoLock} \cup [blockHash : Blocks, round : RoundNumbers]]
  /\ proposals \subseteq RoundNumbers \X Blocks
  /\ prevotes \subseteq Votes
  /\ precommits \subseteq Votes
  /\ lowered \subseteq Honest

RoundsInit ==
  /\ round = [v \in Honest |-> FirstRound]
  /\ locks = [v \in Honest |-> NoLock]
  /\ proposals = {} /\ prevotes = {} /\ precommits = {} /\ lowered = {}

selectProposer(r) == Roster[((Height + r) % Len(Roster)) + 1]

\* The quorum test gets a block's votes of one round; those of the byzantine
\* validators are always among them.
Voters(votes, r, b) == {v \in Honest : <<v, r, b>> \in votes} \cup Byzantine
Quorum(votes, r, b) == hasTwoThirdsQuorum(Stake, Voters(votes, r, b))

HasVoted(votes, v, r) == \E b \in Blocks : <<v, r, b>> \in votes

canVote(v, b) == locks[v] = NoLock \/ locks[v].blockHash = b

\* lock() returns true
LockAccepted(v, b, r) ==
  \/ locks[v] = NoLock
  \/ locks[v].blockHash = b /\ r >= locks[v].round

\* Mutant: a quorum of any round unlocks
CanUnlockInAnyRound(v, b, r) ==
  \/ locks[v] = NoLock
  \/ locks[v].blockHash = b
  \/ Quorum(prevotes, r, b)

canUnlock(v, b, r) ==
  \/ locks[v] = NoLock
  \/ locks[v].blockHash = b
  \/ r > locks[v].round /\ Quorum(prevotes, r, b)

Lock(v, b, r) == locks' = [locks EXCEPT ![v] = [blockHash |-> b, round |-> r]]

Propose(r, b) ==
  /\ selectProposer(r) \in Honest
  /\ \A other \in Blocks : <<r, other>> \notin proposals
  /\ proposals' = proposals \cup {<<r, b>>}
  /\ UNCHANGED <<round, locks, prevotes, precommits, lowered>>

validateProposal(r, b) == selectProposer(r) \in Byzantine \/ <<r, b>> \in proposals

Prevote(v, r, b) ==
  /\ r >= round[v]
  /\ validateProposal(r, b)
  /\ ~HasVoted(prevotes, v, r)
  /\ canVote(v, b)
  /\ prevotes' = prevotes \cup {<<v, r, b>>}
  /\ round' = [round EXCEPT ![v] = r]
  /\ UNCHANGED <<locks, proposals, precommits, lowered>>

Precommit(v, r, b) ==
  /\ r >= round[v]
  /\ ~HasVoted(precommits, v, r)
  /\ Quorum(prevotes, r, b)
  /\ LockAccepted(v, b, r)
  /\ Lock(v, b, r)
  /\ precommits' = precommits \cup {<<v, r, b>>}
  /\ round' = [round EXCEPT ![v] = r]
  /\ UNCHANGED <<proposals, prevotes, lowered>>

\* For the block the voter is locked on canUnlock looks at no round.
LowersLock(v, b, r) == locks[v].blockHash = b /\ r < locks[v].round

UnlockAndRelock(v, r, b) ==
  /\ canUnlock(v, b, r)
  /\ Lock(v, b, r)
  /\ lowered' = IF LowersLock(v, b, r) THEN lowered \cup {v} ELSE lowered
  /\ UNCHANGED <<round, proposals, prevotes, precommits>>

RoundsNext ==
  \E r \in RoundNumbers, b \in Blocks :
    \/ Propose(r, b)
    \/ \E v \in Honest :
         \/ Prevote(v, r, b)
         \/ Precommit(v, r, b)
         \/ UnlockAndRelock(v, r, b)

RoundsSpec == RoundsInit /\ [][RoundsNext]_roundsVars
-----------------------------------------------------------------------------
Finalized(b) == \E r \in RoundNumbers : Quorum(precommits, r, b)

\* Two blocks of a height are final, in whatever rounds, only when more than a third
\* of the stake is byzantine or belongs to voters that unlockAndRelock has moved
\* back to an older round of their block.  Short of that, a block that has its
\* precommits in one round keeps enough voters locked that no other block can get
\* a quorum in a later one.
Agreement ==
  \A b, other \in Blocks :
    Finalized(b) /\ Finalized(other) /\ b # other =>
      3 * votingPower(Stake, Byzantine \cup lowered) > totalActiveStake(Stake)
=============================================================================
