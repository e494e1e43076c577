------------------------- MODULE AttestationsProofs -------------------------
(***************************************************************************)
(* Slashing and finality of Attestations for any nodes, validators, stakes *)
(* and ballots, whatever is faked and forged.  A block is final at a node  *)
(* because validators in whose name it was confirmed had a quorum of the   *)
(* stakes the node had not slashed by then, and these are the registered   *)
(* stakes except of contradicted validators (FinalsBacked); both these     *)
(* sets only grow, so this stays true whatever is slashed later.  For the  *)
(* pool of evidence, a hash nobody forged identifies its evidence.         *)
(***************************************************************************)
EXTENDS Attestations, FiniteSums

---------------------------------------------------------------------------
(* What quorums by stake guarantee *)

\* The tokens of a set of validators are finitely many.
LEMMA TokensFinite ==
  ASSUME NEW whole, NEW S \in SUBSET Validators
  PROVE  /\ IsFiniteSet(Tokens(whole, S))
         /\ votingPower(whole, S) \in Nat
<1>1. IsFiniteSet(S) BY StakeAssumption, FS_Subset
<1>2. IsFiniteSet(1..MaxStake) BY StakeAssumption, FS_Interval
<1>3. IsFiniteSet(S \X (1..MaxStake)) BY <1>1, <1>2, FS_Product
<1>4. Tokens(whole, S) \subseteq S \X (1..MaxStake) BY DEF Tokens
<1>5. IsFiniteSet(Tokens(whole, S)) BY <1>3, <1>4, FS_Subset
<1>6. QED BY <1>5, FS_CardinalityType DEF votingPower

\* More voters have more power.
LEMMA PowerMonotone ==
  ASSUME NEW whole, NEW S \in SUBSET Validators, NEW T \in SUBSET S
  PROVE  votingPower(whole, T) <= votingPower(whole, S)
<1>1. Tokens(whole, T) \subseteq Tokens(whole, S) BY DEF Tokens
<1>2. QED BY <1>1, TokensFinite, FS_Subset DEF votingPower

\* A set of voters that contains a quorum is a quorum.
LEMMA QuorumMonotone ==
  ASSUME NEW whole, NEW S \in SUBSET Validators, NEW T \in SUBSET S,
         hasTwoThirdsQuorum(whole, T)
  PROVE  hasTwoThirdsQuorum(whole, S)
<1>1. /\ votingPower(whole, T) \in Nat
      /\ votingPower(whole, S) \in Nat
      /\ totalActiveStake(whole) \in Nat
  <2>1. T \in SUBSET Validators OBVIOUS
  <2>2. QED BY <2>1, TokensFinite DEF totalActiveStake
<1>2. votingPower(whole, T) <= votingPower(whole, S) BY PowerMonotone
<1>3. QED BY <1>1, <1>2 DEF hasTwoThirdsQuorum

\* The power of disjoint sets of voters adds up.
LEMMA PowerAdds ==
  ASSUME NEW whole, NEW S \in SUBSET Validators, NEW T \in SUBSET Validators,
         S \cap T = {}
  PROVE  votingPower(whole, S \cup T) = votingPower(whole, S) + votingPower(whole, T)
<1> DEFINE A == Tokens(whole, S)
           B == Tokens(whole, T)
<1>1. /\ IsFiniteSet(A) /\ IsFiniteSet(B)
      /\ Cardinality(A) \in Nat /\ Cardinality(B) \in Nat
  BY TokensFinite DEF votingPower
<1>2. Tokens(whole, S \cup T) = A \cup B BY DEF Tokens
<1>3. A \cap B = {} BY DEF Tokens
<1>4. Cardinality(A \cup B) = Cardinality(A) + Cardinality(B) - Cardinality(A \cap B)
  BY <1>1, FS_Union
<1>5. Cardinality(A \cap B) = 0 BY <1>3, FS_EmptySet
<1>6. /\ votingPower(whole, S \cup T) = Cardinality(A \cup B)
      /\ votingPower(whole, S) = Cardinality(A) /\ votingPower(whole, T) = Cardinality(B)
  BY <1>2 DEF votingPower
<1> HIDE DEF A, B
<1>7. QED BY <1>1, <1>4, <1>5, <1>6

\* Voters with no less stake each have no less power together.
LEMMA PowerGrowsWithStake ==
  ASSUME NEW whole \in [Validators -> 0..MaxStake], NEW less \in [Validators -> 0..MaxStake],
         NEW S \in SUBSET Validators,
         \A v \in S : less[v] <= whole[v]
  PROVE  votingPower(less, S) <= votingPower(whole, S)
<1>1. Tokens(less, S) \subseteq Tokens(whole, S) BY StakeAssumption DEF Tokens
<1>2. QED BY <1>1, TokensFinite, FS_Subset DEF votingPower

\* What a quorum on a registry that has slashed only members of Faulty takes from
\* the others: at least two thirds of their stake less a third of that of Faulty.
LEMMA QuorumOutside ==
  ASSUME NEW whole \in [Validators -> 0..MaxStake], NEW left \in [Validators -> 0..MaxStake],
         NEW Faulty \in SUBSET Validators, NEW Q \in SUBSET Validators,
         \A v \in Validators : left[v] <= whole[v],
         \A v \in Validators \ Faulty : left[v] = whole[v],
         hasTwoThirdsQuorum(left, Q)
  PROVE  3 * votingPower(whole, Q \ Faulty)
           > 2 * votingPower(whole, Validators \ Faulty) - votingPower(whole, Faulty)
<1> DEFINE a == votingPower(left, Q \ Faulty)
           b == votingPower(left, Q \cap Faulty)
           h == votingPower(left, Validators \ Faulty)
           d == votingPower(left, Faulty)
           full == votingPower(whole, Faulty)
<1>1. a \in Nat /\ b \in Nat /\ h \in Nat /\ d \in Nat /\ full \in Nat
  <2>1. /\ Q \ Faulty \in SUBSET Validators /\ Q \cap Faulty \in SUBSET Validators
        /\ Validators \ Faulty \in SUBSET Validators
    OBVIOUS
  <2>2. QED BY <2>1, TokensFinite
<1>2. votingPower(left, Q) = a + b
  <2>1. Q = (Q \ Faulty) \cup (Q \cap Faulty) /\ (Q \ Faulty) \cap (Q \cap Faulty) = {} OBVIOUS
  <2>2. votingPower(left, (Q \ Faulty) \cup (Q \cap Faulty)) = a + b BY <2>1, PowerAdds
  <2>3. QED BY <2>1, <2>2
<1>3. totalActiveStake(left) = h + d
  <2>1. /\ Validators = (Validators \ Faulty) \cup Faulty
        /\ (Validators \ Faulty) \cap Faulty = {}
    OBVIOUS
  <2>2. votingPower(left, (Validators \ Faulty) \cup Faulty) = h + d BY <2>1, PowerAdds
  <2>3. QED BY <2>1, <2>2 DEF totalActiveStake
<1>4. b <= d BY PowerMonotone
<1>5. d <= full BY PowerGrowsWithStake
<1>6. /\ votingPower(whole, Q \ Faulty) = a
      /\ votingPower(whole, Validators \ Faulty) = h
  <2>1. /\ Tokens(left, Q \ Faulty) = Tokens(whole, Q \ Faulty)
        /\ Tokens(left, Validators \ Faulty) = Tokens(whole, Validators \ Faulty)
    BY DEF Tokens
  <2>2. QED BY <2>1 DEF votingPower
<1>7. 3 * (a + b) > 2 * (h + d) BY <1>2, <1>3 DEF hasTwoThirdsQuorum
<1> HIDE DEF a, b, h, d, full
<1>8. 3 * a > 2 * h - full BY <1>1, <1>4, <1>5, <1>7
<1>9. QED BY <1>6, <1>8 DEF full

\* Two quorums whose common members are all faulty, each on a registry of its own
\* that has slashed only faulty ones, take more than a third of all stake being faulty.
LEMMA QuorumsAccount ==
  ASSUME NEW whole \in [Validators -> 0..MaxStake],
         NEW left \in [Validators -> 0..MaxStake], NEW right \in [Validators -> 0..MaxStake],
         NEW Faulty \in SUBSET Validators,
         NEW Q \in SUBSET Validators, NEW R \in SUBSET Validators,
         Q \cap R \subseteq Faulty,
         \A v \in Validators : left[v] <= whole[v] /\ right[v] <= whole[v],
         \A v \in Validators \ Faulty : left[v] = whole[v] /\ right[v] = whole[v],
         hasTwoThirdsQuorum(left, Q), hasTwoThirdsQuorum(right, R)
  PROVE  3 * votingPower(whole, Faulty) > totalActiveStake(whole)
<1> DEFINE q == votingPower(whole, Q \ Faulty)
           r == votingPower(whole, R \ Faulty)
           h == votingPower(whole, Validators \ Faulty)
           d == votingPower(whole, Faulty)
<1>1. q \in Nat /\ r \in Nat /\ h \in Nat /\ d \in Nat
  <2>1. /\ Q \ Faulty \in SUBSET Validators /\ R \ Faulty \in SUBSET Validators
        /\ Validators \ Faulty \in SUBSET Validators
    OBVIOUS
  <2>2. QED BY <2>1, TokensFinite
<1>2. 3 * q > 2 * h - d BY QuorumOutside
<1>3. 3 * r > 2 * h - d BY QuorumOutside
<1>4. q + r <= h
  <2>1. /\ (Q \ Faulty) \cap (R \ Faulty) = {}
        /\ (Q \ Faulty) \cup (R \ Faulty) \in SUBSET (Validators \ Faulty)
        /\ Q \ Faulty \in SUBSET Validators /\ R \ Faulty \in SUBSET Validators
        /\ Validators \ Faulty \in SUBSET Validators
    OBVIOUS
  <2>2. votingPower(whole, (Q \ Faulty) \cup (R \ Faulty)) = q + r BY <2>1, PowerAdds
  <2>3. votingPower(whole, (Q \ Faulty) \cup (R \ Faulty)) <= h BY <2>1, PowerMonotone
  <2>4. QED BY <2>2, <2>3
<1>5. totalActiveStake(whole) = h + d
  <2>1. /\ Validators = (Validators \ Faulty) \cup Faulty
        /\ (Validators \ Faulty) \cap Faulty = {}
        /\ Validators \ Faulty \in SUBSET Validators
    OBVIOUS
  <2>2. votingPower(whole, (Validators \ Faulty) \cup Faulty) = h + d BY <2>1, PowerAdds
  <2>3. QED BY <2>1, <2>2 DEF totalActiveStake
<1> HIDE DEF q, r, h, d
<1>6. 3 * d > h + d BY <1>1, <1>2, <1>3, <1>4
<1>7. QED BY <1>5, <1>6 DEF d

---------------------------------------------------------------------------
(* The invariant *)

\* In a validator's name, only what it signed has a valid signature.
ValidSigned ==
  \A n \in Nodes, v \in Validators : \A i \in 1..Len(inbox[n][v]) :
    inbox[n][v][i].valid => inbox[n][v][i] \in signed[v]

\* Evidence that was not forged is what a node made of two attestations it had received.
EvidenceFounded ==
  \A e \in evidence \ Forged :
    /\ e = EvidenceOf(e.validator, e.a, e.b)
    /\ Conflict(e.a, e.b)
    /\ e.validator \in Contradicted
    /\ e.a.valid => e.a \in signed[e.validator]
    /\ e.b.valid => e.b \in signed[e.validator]

SlashedContradicted ==
  \A n \in Nodes, v \in Validators : slashed[n][v] > 0 => v \in Contradicted

\* Who has signed for a block, as the nodes see it.
Received(b) == {v \in Validators :
  \E n \in Nodes : \E i \in 1..Len(inbox[n][v]) : ForBlock(inbox[n][v][i], b)}

\* The stakes left of a node that knows everybody.
StakesLeft(left) ==
  /\ \A v \in Validators : left[v] <= StakeOf[v]
  /\ \A v \in Validators \ Contradicted : left[v] = StakeOf[v]

FinalsBacked ==
  \A n \in Nodes : \A f \in final[n] : f.complete =>
    \E left \in [Validators -> 0..MaxStake] :
      StakesLeft(left) /\ hasTwoThirdsQuorum(left, Received(f.block))

AtInv ==
  /\ TypeOK
  /\ ValidSigned
  /\ EvidenceFounded
  /\ SlashedForCause
  /\ SlashedContradicted
  /\ FinalsBacked

\* Initially nothing has arrived and all evidence there is was forged.
LEMMA AtInvInitially == Init => AtInv
<1>1. SUFFICES ASSUME Init PROVE AtInv OBVIOUS
<1>2. TypeOK
  BY <1>1, AttestationsAssumption, StakeAssumption DEF Init, TypeOK
<1>3. ValidSigned BY <1>1 DEF Init, ValidSigned
<1>4. EvidenceFounded BY <1>1 DEF Init, EvidenceFounded
<1>5. ASSUME NEW n \in Nodes, NEW v \in Validators
      PROVE  /\ stake[n][v] + slashed[n][v] = IF v \in known[n] THEN StakeOf[v] ELSE 0
             /\ ~(slashed[n][v] > 0)
  <2>1. slashed[n][v] = 0 /\ stake[n][v] = (IF v \in AtStart[n] THEN StakeOf[v] ELSE 0)
    BY <1>1 DEF Init
  <2>2. StakeOf[v] \in Nat BY AttestationsAssumption, StakeAssumption
  <2>3. QED BY <1>1, <2>1, <2>2 DEF Init
<1>6. SlashedForCause /\ SlashedContradicted BY <1>5 DEF SlashedForCause, SlashedContradicted
<1>7. FinalsBacked BY <1>1 DEF Init, FinalsBacked
<1>8. QED BY <1>2, <1>3, <1>4, <1>6, <1>7 DEF AtInv

\* Signatures are never taken back, and what has arrived stays where it is.
LEMMA NothingVanishes ==
  ASSUME TypeOK, [Next]_vars
  PROVE  /\ \A v \in Validators : signed[v] \subseteq signed'[v]
         /\ \A n \in Nodes, v \in Validators : \A i \in 1..Len(inbox[n][v]) :
              i \in 1..Len(inbox'[n][v]) /\ inbox'[n][v][i] = inbox[n][v][i]
<1>1. CASE signed' = signed /\ inbox' = inbox BY <1>1
<1>2. ASSUME NEW w \in Validators, NEW att \in Ballots[w], Sign(w, att)
      PROVE  inbox' = inbox /\ \A v \in Validators : signed[v] \subseteq signed'[v]
  BY <1>2 DEF Sign, TypeOK
<1>3. ASSUME NEW m \in Nodes, NEW w \in Validators, NEW att \in signed[w] \cup Faked[m][w],
             Deliver(m, w, att)
      PROVE  /\ signed' = signed
             /\ \A n \in Nodes, v \in Validators : \A i \in 1..Len(inbox[n][v]) :
                  i \in 1..Len(inbox'[n][v]) /\ inbox'[n][v][i] = inbox[n][v][i]
  <2>1. /\ inbox' = [inbox EXCEPT ![m][w] = Append(@, att)] /\ signed' = signed
        /\ inbox \in [Nodes -> [Validators -> Seq(Attestation)]]
        /\ att \in Attestation
    <3>1. Faked[m][w] \subseteq Attestation BY AttestationsAssumption
    <3>2. signed[w] \subseteq Attestation BY DEF TypeOK
    <3>3. QED BY <1>3, <3>1, <3>2 DEF Deliver, TypeOK
  <2>2. ASSUME NEW n \in Nodes, NEW v \in Validators, NEW i \in 1..Len(inbox[n][v])
        PROVE  i \in 1..Len(inbox'[n][v]) /\ inbox'[n][v][i] = inbox[n][v][i]
    <3>1. CASE n = m /\ v = w
      <4>1. inbox'[m][w] = Append(inbox[m][w], att) /\ inbox[m][w] \in Seq(Attestation) BY <2>1
      <4>2. QED BY <3>1, <4>1, <2>1
    <3>2. CASE n # m \/ v # w
      <4>1. inbox'[n][v] = inbox[n][v] BY <3>2, <2>1
      <4>2. QED BY <4>1
    <3>3. QED BY <3>1, <3>2
  <2>3. QED BY <2>1, <2>2
<1>4. QED
  BY <1>1, <1>2, <1>3
     DEF Next, vars, votes, Register, SlashSeen, Report, Finalize, ReceiveEvidence

\* So who is contradicted, who has signed twice, who is seen to have signed for a
\* block or to contradict itself at a node stays so.
LEMMA SightingsGrow ==
  ASSUME TypeOK, [Next]_vars
  PROVE  /\ DoubleSigners \subseteq DoubleSigners'
         /\ Contradicted \subseteq Contradicted'
         /\ \A b : Received(b) \subseteq Received(b)'
         /\ \A n \in Nodes, v \in Validators, i \in Nat :
              DoubleSign(n, v, i) => DoubleSign(n, v, i)'
<1>1. DoubleSigners \subseteq DoubleSigners' BY NothingVanishes DEF DoubleSigners
<1>2. Contradicted \subseteq Contradicted'
  <2>1. SUFFICES ASSUME NEW v \in Contradicted PROVE v \in Contradicted' OBVIOUS
  <2>1a. PICK n \in Nodes, m \in Nodes :
           \E i \in 1..Len(inbox[n][v]), j \in 1..Len(inbox[m][v]) :
             Conflict(inbox[n][v][i], inbox[m][v][j])
    BY DEF Contradicted
  <2>2. PICK i \in 1..Len(inbox[n][v]), j \in 1..Len(inbox[m][v]) :
          Conflict(inbox[n][v][i], inbox[m][v][j])
    BY <2>1a
  <2>3. v \in Validators BY DEF Contradicted
  <2>4. /\ i \in 1..Len(inbox'[n][v]) /\ inbox'[n][v][i] = inbox[n][v][i]
        /\ j \in 1..Len(inbox'[m][v]) /\ inbox'[m][v][j] = inbox[m][v][j]
    BY <2>3, NothingVanishes
  <2>5. Conflict(inbox'[n][v][i], inbox'[m][v][j]) BY <2>2, <2>4
  <2>6. \E k \in 1..Len(inbox'[n][v]), l \in 1..Len(inbox'[m][v]) :
          Conflict(inbox'[n][v][k], inbox'[m][v][l])
    BY <2>4, <2>5
  <2>7. \E x, y \in Nodes : \E k \in 1..Len(inbox'[x][v]), l \in 1..Len(inbox'[y][v]) :
          Conflict(inbox'[x][v][k], inbox'[y][v][l])
    BY <2>6, Zenon
  <2>8. QED BY <2>3, <2>7 DEF Contradicted, Conflict
<1>3. ASSUME NEW b PROVE Received(b) \subseteq Received(b)'
  <2>1. SUFFICES ASSUME NEW v \in Received(b) PROVE v \in Received(b)' OBVIOUS
  <2>1a. PICK n \in Nodes : \E i \in 1..Len(inbox[n][v]) : ForBlock(inbox[n][v][i], b)
    BY DEF Received
  <2>2. PICK i \in 1..Len(inbox[n][v]) : ForBlock(inbox[n][v][i], b) BY <2>1a
  <2>3. v \in Validators BY DEF Received
  <2>4. i \in 1..Len(inbox'[n][v]) /\ inbox'[n][v][i] = inbox[n][v][i]
    BY <2>3, NothingVanishes
  <2>5. ForBlock(inbox'[n][v][i], b) BY <2>2, <2>4
  <2>6. QED BY <2>3, <2>4, <2>5 DEF Received, ForBlock
<1>4. ASSUME NEW n \in Nodes, NEW v \in Validators, NEW i \in Nat, DoubleSign(n, v, i)
      PROVE  DoubleSign(n, v, i)'
  <2>1. inbox[n][v] \in Seq(Attestation) BY DEF TypeOK
  <2>2. i \in 2..Len(inbox[n][v]) /\ 1 \in 1..Len(inbox[n][v]) BY <1>4, <2>1 DEF DoubleSign
  <2>3. /\ i \in 1..Len(inbox'[n][v]) /\ inbox'[n][v][i] = inbox[n][v][i]
        /\ inbox'[n][v][1] = inbox[n][v][1]
    BY <2>1, <2>2, NothingVanishes
  <2>4. i \in 2..Len(inbox'[n][v]) BY <2>2, <2>3
  <2>5. QED BY <1>4, <2>3, <2>4 DEF DoubleSign, Conflict
<1>5. QED BY <1>1, <1>2, <1>3, <1>4

\* What backs a final block backs it for good.
LEMMA BackingStays ==
  ASSUME AtInv, [Next]_vars, NEW b, NEW left \in [Validators -> 0..MaxStake],
         StakesLeft(left), hasTwoThirdsQuorum(left, Received(b))
  PROVE  StakesLeft(left)' /\ hasTwoThirdsQuorum(left, Received(b)')
<1>1. StakesLeft(left)' BY SightingsGrow DEF StakesLeft, AtInv
<1>2. Received(b)' \in SUBSET Validators BY DEF Received
<1>3. Received(b) \in SUBSET (Received(b)') BY SightingsGrow DEF AtInv
<1>4. hasTwoThirdsQuorum(left, Received(b)') BY <1>2, <1>3, QuorumMonotone
<1>5. QED BY <1>1, <1>4

\* So only a finalization has to be looked at.
LEMMA FinalsStayBacked ==
  ASSUME AtInv, [Next]_vars, final' = final
  PROVE  FinalsBacked'
<1>1. SUFFICES ASSUME NEW n \in Nodes, NEW f \in final[n], f.complete
               PROVE  (\E left \in [Validators -> 0..MaxStake] :
                         StakesLeft(left) /\ hasTwoThirdsQuorum(left, Received(f.block)))'
  BY DEF FinalsBacked
<1>2. PICK left \in [Validators -> 0..MaxStake] :
        StakesLeft(left) /\ hasTwoThirdsQuorum(left, Received(f.block))
  BY <1>1 DEF AtInv, FinalsBacked
<1>3. StakesLeft(left)' /\ hasTwoThirdsQuorum(left, Received(f.block)') BY <1>2, BackingStays
<1>4. hasTwoThirdsQuorum(left, Received(f.block))' = hasTwoThirdsQuorum(left, Received(f.block)')
  BY DEF hasTwoThirdsQuorum, votingPower, totalActiveStake, Tokens
<1>5. QED BY <1>3, <1>4

\* A validator that loses a node's stake has been contradicted, and has signed twice
\* or is seen to by that node.
LEMMA SlashPreserves ==
  ASSUME AtInv, [Next]_vars, NEW n \in Nodes, NEW v \in Validators,
         Slash(n, v), v \in known[n], known' = known,
         v \in Contradicted,
         v \in DoubleSigners \/ \E i \in 2..Len(inbox[n][v]) : DoubleSign(n, v, i)
  PROVE  /\ stake' \in [Nodes -> [Validators -> 0..MaxStake]]
         /\ slashed' \in [Nodes -> [Validators -> 0..MaxStake]]
         /\ SlashedForCause' /\ SlashedContradicted'
<1> DEFINE Cause(m, w) == w \in DoubleSigners \/ \E i \in 2..Len(inbox[m][w]) : DoubleSign(m, w, i)
<1>1. /\ stake \in [Nodes -> [Validators -> 0..MaxStake]]
      /\ slashed \in [Nodes -> [Validators -> 0..MaxStake]]
      /\ inbox \in [Nodes -> [Validators -> Seq(Attestation)]]
      /\ TypeOK
  BY DEF AtInv, TypeOK
<1>2. /\ stake' = [stake EXCEPT ![n][v] = 0]
      /\ slashed' = [slashed EXCEPT ![n][v] = @ + stake[n][v]]
  BY DEF Slash
<1>3. stake[n][v] + slashed[n][v] = StakeOf[v] BY DEF AtInv, SlashedForCause
<1>4. /\ stake[n][v] \in Nat /\ slashed[n][v] \in Nat
      /\ StakeOf[v] \in 1..MaxStake /\ MaxStake \in Nat
  BY <1>1, AttestationsAssumption, StakeAssumption
<1>5. slashed[n][v] + stake[n][v] = StakeOf[v] /\ StakeOf[v] \in 0..MaxStake BY <1>3, <1>4
<1>6. /\ stake' \in [Nodes -> [Validators -> 0..MaxStake]]
      /\ slashed' \in [Nodes -> [Validators -> 0..MaxStake]]
  BY <1>1, <1>2, <1>5, <1>4
<1>7. ASSUME NEW m \in Nodes, NEW w \in Validators
      PROVE  /\ stake'[m][w] + slashed'[m][w] = IF w \in known[m] THEN StakeOf[w] ELSE 0
             /\ slashed'[m][w] > 0 => w \in Contradicted /\ Cause(m, w)
  <2>1. CASE m = n /\ w = v
    <3>1. stake'[n][v] = 0 /\ slashed'[n][v] = StakeOf[v] BY <1>1, <1>2, <1>5
    <3>2. QED BY <2>1, <3>1, <1>4
  <2>2. CASE m # n \/ w # v
    <3>1. stake'[m][w] = stake[m][w] /\ slashed'[m][w] = slashed[m][w]
      BY <2>2, <1>1, <1>2
    <3>2. QED BY <3>1 DEF AtInv, SlashedForCause, SlashedContradicted
  <2>3. QED BY <2>1, <2>2
<1>8. ASSUME NEW m \in Nodes, NEW w \in Validators, Cause(m, w)
      PROVE  Cause(m, w)'
  <2>1. CASE w \in DoubleSigners BY <2>1, <1>1, SightingsGrow
  <2>2. ASSUME NEW i \in 2..Len(inbox[m][w]), DoubleSign(m, w, i) PROVE Cause(m, w)'
    <3>1. inbox[m][w] \in Seq(Attestation) BY <1>1
    <3>2. i \in Nat BY <3>1
    <3>3. DoubleSign(m, w, i)' BY <1>1, <2>2, <3>2, SightingsGrow
    <3>4. i \in 2..Len(inbox'[m][w]) BY <3>3 DEF DoubleSign
    <3>5. QED BY <3>3, <3>4
  <2>3. QED BY <1>8, <2>1, <2>2
<1>9. SlashedForCause' BY <1>7, <1>8 DEF SlashedForCause
<1>10. SlashedContradicted' BY <1>1, <1>7, SightingsGrow DEF SlashedContradicted
<1>11. QED BY <1>6, <1>9, <1>10

\* An action that changes no registry.
LEMMA RegistriesKept ==
  ASSUME AtInv, [Next]_vars, registry' = registry
  PROVE  SlashedForCause' /\ SlashedContradicted'
<1>1. TypeOK /\ known' = known /\ stake' = stake /\ slashed' = slashed BY DEF registry, AtInv
<1>2. ASSUME NEW n \in Nodes, NEW v \in Validators, slashed[n][v] > 0
      PROVE  (v \in DoubleSigners \/ \E i \in 2..Len(inbox[n][v]) : DoubleSign(n, v, i))'
  <2>1. CASE v \in DoubleSigners BY <2>1, <1>1, SightingsGrow
  <2>2. ASSUME NEW i \in 2..Len(inbox[n][v]), DoubleSign(n, v, i)
        PROVE  \E k \in 2..Len(inbox'[n][v]) : DoubleSign(n, v, k)'
    <3>1. i \in Nat BY <1>1 DEF TypeOK
    <3>2. DoubleSign(n, v, i)' BY <1>1, <2>2, <3>1, SightingsGrow
    <3>3. i \in 2..Len(inbox'[n][v]) BY <3>2 DEF DoubleSign
    <3>4. QED BY <3>2, <3>3
  <2>3. QED BY <1>2, <2>1, <2>2 DEF AtInv, SlashedForCause
<1>3. SlashedForCause' BY <1>1, <1>2 DEF AtInv, SlashedForCause
<1>4. SlashedContradicted' BY <1>1, SightingsGrow DEF AtInv, SlashedContradicted
<1>5. QED BY <1>3, <1>4

\* Nor any inbox.
LEMMA InboxesKept ==
  ASSUME AtInv, [Next]_vars, inbox' = inbox
  PROVE  ValidSigned'
BY NothingVanishes DEF AtInv, ValidSigned

\* Nor the evidence.
LEMMA EvidenceKept ==
  ASSUME AtInv, [Next]_vars, evidence' = evidence
  PROVE  EvidenceFounded'
<1>1. SUFFICES ASSUME NEW e \in evidence \ Forged
               PROVE  /\ e = EvidenceOf(e.validator, e.a, e.b)
                      /\ Conflict(e.a, e.b)
                      /\ e.validator \in Contradicted'
                      /\ e.a.valid => e.a \in signed'[e.validator]
                      /\ e.b.valid => e.b \in signed'[e.validator]
  BY DEF EvidenceFounded, EvidenceOf, Conflict, Digest
<1>2. TypeOK /\ e \in Evidence BY DEF AtInv, TypeOK
<1>3. e.validator \in Validators BY <1>2 DEF Evidence
<1>4. QED BY <1>2, <1>3, NothingVanishes, SightingsGrow DEF AtInv, EvidenceFounded

\* Two attestations in one inbox that conflict contradict their validator.
LEMMA SeenIsContradicted ==
  ASSUME AtInv, NEW n \in Nodes, NEW v \in Validators, NEW i \in 2..Len(inbox[n][v]),
         DoubleSign(n, v, i)
  PROVE  /\ v \in Contradicted
         /\ Conflict(inbox[n][v][1], inbox[n][v][i])
         /\ inbox[n][v][1] \in Attestation /\ inbox[n][v][i] \in Attestation
         /\ 1 \in 1..Len(inbox[n][v]) /\ i \in 1..Len(inbox[n][v])
<1>1. inbox[n][v] \in Seq(Attestation) BY DEF AtInv, TypeOK
<1>2. 1 \in 1..Len(inbox[n][v]) /\ i \in 1..Len(inbox[n][v]) BY <1>1
<1>3. Conflict(inbox[n][v][1], inbox[n][v][i]) BY DEF DoubleSign
<1>4. v \in Contradicted BY <1>2, <1>3 DEF Contradicted
<1>5. QED BY <1>1, <1>2, <1>3, <1>4

\* Registering, signing and delivering.
LEMMA RegisterPreserves ==
  ASSUME AtInv, NEW n \in Nodes, NEW v \in Validators, Register(n, v)
  PROVE  AtInv'
<1>a. [Next]_vars BY DEF Next
<1>1. /\ v \notin known[n]
      /\ known' = [known EXCEPT ![n] = @ \cup {v}]
      /\ stake' = [stake EXCEPT ![n][v] = StakeOf[v]]
      /\ slashed' = slashed /\ final' = final /\ signed' = signed /\ inbox' = inbox
      /\ careless' = careless /\ evidence' = evidence /\ seen' = seen /\ accepted' = accepted
  BY DEF Register, votes, pool
<1>2. /\ stake \in [Nodes -> [Validators -> 0..MaxStake]]
      /\ slashed \in [Nodes -> [Validators -> 0..MaxStake]]
      /\ known \in [Nodes -> SUBSET Validators]
  BY DEF AtInv, TypeOK
<1>3. StakeOf[v] \in 0..MaxStake /\ StakeOf[v] \in Nat
  BY AttestationsAssumption, StakeAssumption
<1>4. TypeOK' BY <1>1, <1>2, <1>3 DEF AtInv, TypeOK
<1>5. ValidSigned' BY <1>a, <1>1, InboxesKept
<1>6. SlashedForCause' /\ SlashedContradicted'
  <2>1. ASSUME NEW m \in Nodes, NEW w \in Validators
        PROVE  stake'[m][w] + slashed'[m][w] = IF w \in known'[m] THEN StakeOf[w] ELSE 0
    <3>1. CASE m = n /\ w = v
      <4>1. stake[n][v] + slashed[n][v] = 0 /\ stake[n][v] \in Nat /\ slashed[n][v] \in Nat
        BY <1>1, <1>2, StakeAssumption DEF AtInv, SlashedForCause
      <4>2. slashed'[n][v] = 0 BY <4>1, <1>1
      <4>3. stake'[n][v] = StakeOf[v] /\ v \in known'[n] BY <1>1, <1>2
      <4>4. QED BY <3>1, <4>2, <4>3, <1>3
    <3>2. CASE m # n \/ w # v
      <4>1. /\ stake'[m][w] = stake[m][w] /\ slashed'[m][w] = slashed[m][w]
            /\ w \in known'[m] <=> w \in known[m]
        BY <3>2, <1>1, <1>2
      <4>2. QED BY <4>1 DEF AtInv, SlashedForCause
    <3>3. QED BY <3>1, <3>2
  <2>2. QED
    BY <2>1, <1>1
       DEF AtInv, SlashedForCause, SlashedContradicted, DoubleSigners, DoubleSign, Contradicted
<1>7. FinalsBacked' BY <1>a, <1>1, FinalsStayBacked
<1>8. EvidenceFounded' BY <1>a, <1>1, EvidenceKept
<1>9. QED BY <1>4, <1>5, <1>6, <1>7, <1>8 DEF AtInv

LEMMA SignPreserves ==
  ASSUME AtInv, NEW v \in Validators, NEW att \in Ballots[v], Sign(v, att)
  PROVE  AtInv'
<1>a. [Next]_vars BY DEF Next
<1>1. att \in Attestation BY AttestationsAssumption
<1>2. TypeOK' BY <1>1 DEF AtInv, TypeOK, Sign, registry, pool
<1>3. ValidSigned' BY <1>a, InboxesKept DEF Sign
<1>4. SlashedForCause' /\ SlashedContradicted' BY <1>a, RegistriesKept DEF Sign
<1>5. FinalsBacked' BY <1>a, FinalsStayBacked DEF Sign
<1>6. EvidenceFounded' BY <1>a, EvidenceKept DEF Sign
<1>7. QED BY <1>2, <1>3, <1>4, <1>5, <1>6 DEF AtInv

LEMMA DeliverPreserves ==
  ASSUME AtInv, NEW n \in Nodes, NEW v \in Validators, NEW att \in signed[v] \cup Faked[n][v],
         Deliver(n, v, att)
  PROVE  AtInv'
<1>a. [Next]_vars BY DEF Next
<1>1. att \in Attestation /\ (att.valid => att \in signed[v])
  <2>1. Faked[n][v] \subseteq {x \in Attestation : ~x.valid} BY AttestationsAssumption
  <2>2. signed[v] \subseteq Attestation BY DEF AtInv, TypeOK
  <2>3. QED BY <2>1, <2>2
<1>2. /\ inbox' = [inbox EXCEPT ![n][v] = Append(@, att)]
      /\ inbox \in [Nodes -> [Validators -> Seq(Attestation)]]
      /\ signed' = signed
  BY DEF Deliver, AtInv, TypeOK
<1>3. inbox' \in [Nodes -> [Validators -> Seq(Attestation)]] BY <1>1, <1>2
<1>4. TypeOK' BY <1>3 DEF AtInv, TypeOK, Deliver, registry, pool
<1>5. ValidSigned'
  <2>1. SUFFICES ASSUME NEW m \in Nodes, NEW w \in Validators, NEW i \in 1..Len(inbox'[m][w]),
                        inbox'[m][w][i].valid
                 PROVE  inbox'[m][w][i] \in signed[w]
    BY <1>2 DEF ValidSigned
  <2>2. CASE m = n /\ w = v
    <3>1. inbox'[n][v] = Append(inbox[n][v], att) /\ inbox[n][v] \in Seq(Attestation) BY <1>2
    <3>2. \A j \in 1..Len(inbox[n][v]) : inbox[n][v][j].valid => inbox[n][v][j] \in signed[v]
      BY DEF AtInv, ValidSigned
    <3>3. CASE i \in 1..Len(inbox[n][v])
      <4>1. inbox'[n][v][i] = inbox[n][v][i] BY <3>1, <3>3, <1>1
      <4>2. QED BY <2>1, <2>2, <3>2, <3>3, <4>1
    <3>4. CASE i \notin 1..Len(inbox[n][v])
      <4>1. inbox'[n][v][i] = att BY <2>2, <3>1, <3>4, <1>1
      <4>2. QED BY <2>1, <2>2, <4>1, <1>1
    <3>5. QED BY <3>3, <3>4
  <2>3. CASE m # n \/ w # v
    <3>1. inbox'[m][w] = inbox[m][w] BY <2>3, <1>2
    <3>2. QED BY <2>1, <3>1 DEF AtInv, ValidSigned
  <2>4. QED BY <2>2, <2>3
<1>6. SlashedForCause' /\ SlashedContradicted' BY <1>a, RegistriesKept DEF Deliver
<1>7. FinalsBacked' BY <1>a, FinalsStayBacked DEF Deliver
<1>8. EvidenceFounded' BY <1>a, EvidenceKept DEF Deliver
<1>9. QED BY <1>4, <1>5, <1>6, <1>7, <1>8 DEF AtInv

\* Slashing whom a node has seen contradicting itself, and reporting it.
LEMMA SlashSeenPreserves ==
  ASSUME AtInv, NEW n \in Nodes, NEW v \in Validators, SlashSeen(n, v)
  PROVE  AtInv'
<1>a. [Next]_vars BY DEF Next
<1>1. PICK i \in 2..Len(inbox[n][v]) : DoubleSign(n, v, i) BY DEF SlashSeen
<1>2. v \in Contradicted BY <1>1, SeenIsContradicted
<1>3. v \in known[n] /\ Slash(n, v) /\ known' = known BY DEF SlashSeen
<1>4. /\ stake' \in [Nodes -> [Validators -> 0..MaxStake]]
      /\ slashed' \in [Nodes -> [Validators -> 0..MaxStake]]
      /\ SlashedForCause' /\ SlashedContradicted'
  BY <1>a, <1>1, <1>2, <1>3, SlashPreserves
<1>5. TypeOK' BY <1>4 DEF AtInv, TypeOK, SlashSeen, votes, pool
<1>6. ValidSigned' BY <1>a, InboxesKept DEF SlashSeen, votes
<1>7. FinalsBacked' BY <1>a, FinalsStayBacked DEF SlashSeen
<1>8. EvidenceFounded' BY <1>a, EvidenceKept DEF SlashSeen
<1>9. QED BY <1>4, <1>5, <1>6, <1>7, <1>8 DEF AtInv

LEMMA ReportPreserves ==
  ASSUME AtInv, NEW n \in Nodes, NEW v \in Validators, Report(n, v)
  PROVE  AtInv'
<1>a. [Next]_vars BY DEF Next
<1>1. PICK i \in 2..Len(inbox[n][v]) :
        /\ DoubleSign(n, v, i)
        /\ evidence' = evidence \cup {EvidenceOf(v, inbox[n][v][1], inbox[n][v][i])}
        /\ UNCHANGED <<votes, registry, pool, final>>
  BY DEF Report
<1> DEFINE a == inbox[n][v][1]
           b == inbox[n][v][i]
<1>2. /\ v \in Contradicted /\ Conflict(a, b)
      /\ a \in Attestation /\ b \in Attestation
      /\ 1 \in 1..Len(inbox[n][v]) /\ i \in 1..Len(inbox[n][v])
  BY <1>1, SeenIsContradicted
<1>3. (a.valid => a \in signed[v]) /\ (b.valid => b \in signed[v])
  BY <1>2 DEF AtInv, ValidSigned
<1> HIDE DEF a, b
<1>4. EvidenceOf(v, a, b) \in Evidence BY <1>2 DEF Evidence, EvidenceOf, Digest, Digests
<1>5. evidence' = evidence \cup {EvidenceOf(v, a, b)} BY <1>1 DEF a, b
<1>6. TypeOK' BY <1>1, <1>4, <1>5 DEF AtInv, TypeOK, votes, registry, pool
<1>7. ValidSigned' BY <1>a, <1>1, InboxesKept DEF votes
<1>8. SlashedForCause' /\ SlashedContradicted' BY <1>a, <1>1, RegistriesKept
<1>9. FinalsBacked' BY <1>a, <1>1, FinalsStayBacked
<1>10. EvidenceFounded'
  <2>1. signed' = signed /\ inbox' = inbox BY <1>1 DEF votes
  <2>2. Contradicted' = Contradicted BY <2>1 DEF Contradicted
  <2>3. ASSUME NEW e \in evidence' \ Forged
        PROVE  /\ e = EvidenceOf(e.validator, e.a, e.b)
               /\ Conflict(e.a, e.b)
               /\ e.validator \in Contradicted
               /\ e.a.valid => e.a \in signed[e.validator]
               /\ e.b.valid => e.b \in signed[e.validator]
    <3>1. CASE e \in evidence BY <3>1 DEF AtInv, EvidenceFounded
    <3>2. CASE e = EvidenceOf(v, a, b)
      <4>1. e.validator = v /\ e.a = a /\ e.b = b BY <3>2 DEF EvidenceOf
      <4>2. QED BY <3>2, <4>1, <1>2, <1>3
    <3>3. QED BY <1>5, <3>1, <3>2
  <2>4. QED BY <2>1, <2>2, <2>3 DEF EvidenceFounded, EvidenceOf, Conflict, Digest
<1>11. QED BY <1>6, <1>7, <1>8, <1>9, <1>10 DEF AtInv

\* Evidence that verifies was not forged and carries two signatures of its validator.
LEMMA VerifiedIsSigned ==
  ASSUME AtInv, NEW n \in Nodes, NEW e \in evidence, verifyDoubleSignEvidence(n, e)
  PROVE  /\ e \notin Forged
         /\ e.validator \in known[n] /\ e.validator \in Validators
         /\ e.validator \in Contradicted /\ e.validator \in DoubleSigners
<1>1. e \in Evidence BY DEF AtInv, TypeOK
<1>2. e.validator \in Validators /\ e.a.valid /\ e.b.valid /\ Conflict(e.a, e.b)
  BY <1>1 DEF Evidence, verifyDoubleSignEvidence
<1>3. e \notin Forged BY <1>2, AttestationsAssumption
<1>4. e.a \in signed[e.validator] /\ e.b \in signed[e.validator] /\ e.validator \in Contradicted
  BY <1>2, <1>3 DEF AtInv, EvidenceFounded
<1>5. e.a # e.b BY <1>2 DEF Conflict
<1>6. e.validator \in DoubleSigners BY <1>2, <1>4, <1>5 DEF DoubleSigners
<1>7. QED BY <1>2, <1>3, <1>4, <1>6 DEF verifyDoubleSignEvidence

LEMMA ReceiveEvidencePreserves ==
  ASSUME AtInv, NEW n \in Nodes, NEW e \in evidence, ReceiveEvidence(n, e)
  PROVE  AtInv'
<1>a. [Next]_vars BY DEF Next
<1>1. e \in Evidence /\ e.hash \in Digests BY DEF AtInv, TypeOK, Evidence
<1>2. /\ seen' = [seen EXCEPT ![n] = @ \cup {e.hash}]
      /\ accepted' = accepted \/ accepted' = [accepted EXCEPT ![n] = @ \cup {e.hash}]
      /\ careless' = careless /\ signed' = signed /\ inbox' = inbox
      /\ known' = known /\ evidence' = evidence /\ final' = final
  BY DEF ReceiveEvidence, votes
<1>3. /\ stake' \in [Nodes -> [Validators -> 0..MaxStake]]
      /\ slashed' \in [Nodes -> [Validators -> 0..MaxStake]]
      /\ SlashedForCause' /\ SlashedContradicted'
  <2>1. CASE verifyDoubleSignEvidence(n, e) /\ Slash(n, e.validator)
    <3>1. /\ e.validator \in known[n] /\ e.validator \in Validators
          /\ e.validator \in Contradicted /\ e.validator \in DoubleSigners
      BY <2>1, VerifiedIsSigned
    <3>2. QED BY <1>a, <1>2, <2>1, <3>1, SlashPreserves
  <2>2. CASE UNCHANGED <<stake, slashed>>
    BY <1>a, <1>2, <2>2, RegistriesKept DEF registry, AtInv, TypeOK
  <2>3. QED BY <2>1, <2>2 DEF ReceiveEvidence
<1>4. TypeOK'
  <2>1. seen \in [Nodes -> SUBSET Digests] /\ accepted \in [Nodes -> SUBSET Digests]
    BY DEF AtInv, TypeOK
  <2>2. seen' \in [Nodes -> SUBSET Digests] BY <1>1, <1>2, <2>1
  <2>3. accepted' \in [Nodes -> SUBSET Digests]
    <3>1. CASE accepted' = accepted BY <2>1, <3>1
    <3>2. CASE accepted' = [accepted EXCEPT ![n] = @ \cup {e.hash}] BY <1>1, <2>1, <3>2
    <3>3. QED BY <1>2, <3>1, <3>2
  <2>4. QED BY <1>2, <1>3, <2>2, <2>3 DEF AtInv, TypeOK
<1>5. ValidSigned' BY <1>a, <1>2, InboxesKept
<1>6. FinalsBacked' BY <1>a, <1>2, FinalsStayBacked
<1>7. EvidenceFounded' BY <1>a, <1>2, EvidenceKept
<1>8. QED BY <1>3, <1>4, <1>5, <1>6, <1>7 DEF AtInv

\* A block becomes final by the stakes its node has left, which are the registered
\* ones except of contradicted validators when it knows everybody.
LEMMA FinalizePreserves ==
  ASSUME AtInv, NEW n \in Nodes, NEW b \in Blocks, Finalize(n, b)
  PROVE  AtInv'
<1>a. [Next]_vars BY DEF Next
<1>1. /\ hasTwoThirdsQuorum(stake[n], Confirming(n, b))
      /\ final' = [final EXCEPT ![n] = @ \cup {[block |-> b, complete |-> known[n] = Validators]}]
      /\ UNCHANGED <<votes, registry, evidence, pool>>
  BY DEF Finalize
<1>2. TypeOK'
  <2>1. [block |-> b, complete |-> known[n] = Validators] \in [block : Blocks, complete : BOOLEAN]
    OBVIOUS
  <2>2. final' \in [Nodes -> SUBSET [block : Blocks, complete : BOOLEAN]]
    BY <1>1, <2>1 DEF AtInv, TypeOK
  <2>3. QED BY <1>1, <2>2 DEF AtInv, TypeOK, votes, registry, pool
<1>3. ValidSigned' BY <1>a, <1>1, InboxesKept DEF votes
<1>4. SlashedForCause' /\ SlashedContradicted' BY <1>a, <1>1, RegistriesKept
<1>5. ASSUME known[n] = Validators
      PROVE  /\ stake[n] \in [Validators -> 0..MaxStake]
             /\ StakesLeft(stake[n])
             /\ hasTwoThirdsQuorum(stake[n], Received(b))
  <2>1. /\ stake[n] \in [Validators -> 0..MaxStake]
        /\ slashed[n] \in [Validators -> 0..MaxStake]
    BY DEF AtInv, TypeOK
  <2>2. \A v \in Validators : /\ stake[n][v] + slashed[n][v] = StakeOf[v]
                              /\ slashed[n][v] > 0 => v \in Contradicted
    BY <1>5 DEF AtInv, SlashedForCause, SlashedContradicted
  <2>3. \A v \in Validators : stake[n][v] \in Nat /\ slashed[n][v] \in Nat
    BY <2>1, StakeAssumption
  <2>4. StakesLeft(stake[n]) BY <2>2, <2>3 DEF StakesLeft
  <2>5. Confirming(n, b) \in SUBSET Received(b) BY DEF Confirming, Confirms, Received
  <2>6. Received(b) \in SUBSET Validators BY DEF Received
  <2>7. QED BY <1>1, <2>1, <2>4, <2>5, <2>6, QuorumMonotone
<1>6. FinalsBacked'
  <2>1. SUFFICES ASSUME NEW m \in Nodes, NEW f \in final'[m], f.complete
                 PROVE  \E left \in [Validators -> 0..MaxStake] :
                          StakesLeft(left) /\ hasTwoThirdsQuorum(left, Received(f.block))
    <3>1. Contradicted' = Contradicted /\ \A c : Received(c)' = Received(c)
      BY <1>1 DEF votes, Contradicted, Received
    <3>2. \A left : StakesLeft(left)' = StakesLeft(left) BY <3>1 DEF StakesLeft
    <3>3. \A left, c : hasTwoThirdsQuorum(left, Received(c))' = hasTwoThirdsQuorum(left, Received(c))
      BY <3>1 DEF hasTwoThirdsQuorum, votingPower, totalActiveStake, Tokens
    <3>4. QED BY <3>2, <3>3 DEF FinalsBacked
  <2>2. CASE f \in final[m] BY <2>1, <2>2 DEF AtInv, FinalsBacked
  <2>3. CASE m = n /\ f = [block |-> b, complete |-> known[n] = Validators]
    BY <1>5, <2>1, <2>3
  <2>4. QED BY <1>1, <2>1, <2>2, <2>3 DEF AtInv, TypeOK
<1>7. EvidenceFounded' BY <1>a, <1>1, EvidenceKept
<1>8. QED BY <1>2, <1>3, <1>4, <1>6, <1>7 DEF AtInv

\* The invariant holds in every reachable state.
THEOREM AttestationsInvariant == Spec => []AtInv
<1>1. Init => AtInv BY AtInvInitially
<1>2. AtInv /\ [Next]_vars => AtInv'
  <2>1. SUFFICES ASSUME AtInv, [Next]_vars PROVE AtInv' OBVIOUS
  <2>2. CASE UNCHANGED vars
    <3>1. FinalsBacked' BY <2>1, <2>2, FinalsStayBacked DEF vars
    <3>2. SlashedForCause' /\ SlashedContradicted' BY <2>1, <2>2, RegistriesKept DEF vars
    <3>3. ValidSigned' BY <2>1, <2>2, InboxesKept DEF vars, votes
    <3>4. EvidenceFounded' BY <2>1, <2>2, EvidenceKept DEF vars
    <3>5. TypeOK' BY <2>1, <2>2 DEF vars, votes, registry, pool, AtInv, TypeOK
    <3>6. QED BY <3>1, <3>2, <3>3, <3>4, <3>5 DEF AtInv
  <2>3. ASSUME NEW v \in Validators, NEW att \in Ballots[v], Sign(v, att) PROVE AtInv'
    BY <2>1, <2>3, SignPreserves
  <2>4. ASSUME NEW n \in Nodes, NEW v \in Validators,
               \/ Register(n, v)
               \/ \E att \in signed[v] \cup Faked[n][v] : Deliver(n, v, att)
               \/ SlashSeen(n, v)
               \/ Report(n, v)
        PROVE  AtInv'
    BY <2>1, <2>4, RegisterPreserves, DeliverPreserves, SlashSeenPreserves, ReportPreserves
  <2>5. ASSUME NEW n \in Nodes, NEW b \in Blocks, Finalize(n, b) PROVE AtInv'
    BY <2>1, <2>5, FinalizePreserves
  <2>6. ASSUME NEW n \in Nodes, NEW e \in evidence, ReceiveEvidence(n, e) PROVE AtInv'
    BY <2>1, <2>6, ReceiveEvidencePreserves
  <2>7. QED BY <2>1, <2>2, <2>3, <2>4, <2>5, <2>6 DEF Next
<1>3. QED BY <1>1, <1>2, PTL DEF Spec

\* Two final blocks: whoever is in both their quorums has been contradicted.
LEMMA InvImpliesAccountability == AtInv => ForkIsSlashable
<1>1. SUFFICES ASSUME AtInv, NEW n \in Nodes, NEW m \in Nodes,
                      NEW f \in final[n], NEW g \in final[m],
                      f.complete, g.complete, f.block # g.block
               PROVE  3 * votingPower(StakeOf, Contradicted) > totalActiveStake(StakeOf)
  BY DEF ForkIsSlashable
<1>2. PICK left \in [Validators -> 0..MaxStake] :
        StakesLeft(left) /\ hasTwoThirdsQuorum(left, Received(f.block))
  BY <1>1 DEF AtInv, FinalsBacked
<1>3. PICK right \in [Validators -> 0..MaxStake] :
        StakesLeft(right) /\ hasTwoThirdsQuorum(right, Received(g.block))
  BY <1>1 DEF AtInv, FinalsBacked
<1>4. Received(f.block) \cap Received(g.block) \subseteq Contradicted
  BY <1>1 DEF Received, Contradicted, ForBlock, Conflict
<1>5. /\ Received(f.block) \in SUBSET Validators /\ Received(g.block) \in SUBSET Validators
      /\ Contradicted \in SUBSET Validators
  BY DEF Received, Contradicted
<1>6. StakeOf \in [Validators -> 0..MaxStake] BY AttestationsAssumption, StakeAssumption
<1>7. QED BY <1>2, <1>3, <1>4, <1>5, <1>6, QuorumsAccount DEF StakesLeft

\* Every variable keeps its type; no stake goes below zero or is slashed twice.
THEOREM AttestationsTypeCorrect == Spec => []TypeOK
<1>1. AtInv => TypeOK BY DEF AtInv
<1>2. QED BY <1>1, AttestationsInvariant, PTL

\* Two nodes that know everybody finalize different blocks only if conflicting
\* attestations in the names of validators with more than a third of all stake
\* have arrived somewhere.
THEOREM ForksAreSlashable == Spec => []ForkIsSlashable
BY AttestationsInvariant, InvImpliesAccountability, PTL

\* Each stake is lost once, and only where its validator has signed twice or two
\* attestations in its name conflict at the node itself, signed or not; whatever
\* evidence is forged.
THEOREM SlashingIsJust == Spec => []SlashedForCause
<1>1. AtInv => SlashedForCause BY DEF AtInv
<1>2. QED BY <1>1, AttestationsInvariant, PTL

---------------------------------------------------------------------------
(* The hashes of evidence *)

\* What a pool has seen is the hash of evidence that goes round; a node forgets no
\* validator; and genuine evidence whose hash it has seen has convicted.
HashInv ==
  /\ \A n \in Nodes : \A h \in seen[n] : \E e \in evidence : e.hash = h
  /\ \A n \in Nodes : AtStart[n] \subseteq known[n]
  /\ GenuineEvidenceConvicts

\* Two pieces of evidence that were not forged are the same if their hashes are.
LEMMA HashIdentifies ==
  ASSUME AtInv, NEW e \in evidence \ Forged, NEW g, Genuine(g), g.hash = e.hash
  PROVE  e.validator = g.validator /\ e.a = g.a /\ e.b = g.b
<1>1. e.hash = Digest(e.validator, e.a, e.b)
  BY DEF AtInv, EvidenceFounded, EvidenceOf
<1>2. g.hash = Digest(g.validator, g.a, g.b) BY DEF Genuine
<1>3. QED BY <1>1, <1>2 DEF Digest

\* An accepted hash stays accepted; a stake a known validator has lost does not return.
LEMMA ConvictionLasts ==
  ASSUME AtInv, HashInv, [Next]_vars, NEW n \in Nodes, NEW v \in AtStart[n]
  PROVE  /\ accepted[n] \subseteq accepted'[n]
         /\ stake[n][v] = 0 => stake'[n][v] = 0
<1>1. /\ stake \in [Nodes -> [Validators -> 0..MaxStake]]
      /\ accepted \in [Nodes -> SUBSET Digests]
      /\ v \in Validators /\ v \in known[n]
  BY AttestationsAssumption DEF AtInv, TypeOK, HashInv
<1>2. CASE stake' = stake /\ accepted' = accepted BY <1>2
<1>3. ASSUME NEW m \in Nodes, NEW w \in Validators, Register(m, w)
      PROVE  accepted' = accepted /\ stake'[n][v] = stake[n][v]
  BY <1>1, <1>3 DEF Register, pool
<1>4. ASSUME NEW m \in Nodes, NEW w \in Validators, SlashSeen(m, w)
      PROVE  accepted' = accepted /\ stake'[n][v] \in {stake[n][v], 0}
  BY <1>1, <1>4 DEF SlashSeen, Slash, pool
<1>5. ASSUME NEW m \in Nodes, NEW e \in evidence, ReceiveEvidence(m, e)
      PROVE  accepted[n] \subseteq accepted'[n] /\ stake'[n][v] \in {stake[n][v], 0}
  <2>1. e.validator \in Validators BY DEF AtInv, TypeOK, Evidence
  <2>2. QED BY <1>1, <1>5, <2>1 DEF ReceiveEvidence, Slash
<1>6. QED
  BY <1>2, <1>3, <1>4, <1>5
     DEF Next, vars, registry, pool, Sign, Deliver, Report, Finalize

\* Which steps leave all hashes and the evidence alone.
LEMMA HashesKept ==
  ASSUME AtInv, HashInv, [Next]_vars, seen' = seen, evidence' = evidence
  PROVE  GenuineEvidenceConvicts'
<1>1. SUFFICES ASSUME NEW n \in Nodes, NEW e \in evidence, Genuine(e), e.hash \in seen[n],
                      e.validator \in AtStart[n], ~ \E f \in Forged : f.hash = e.hash
               PROVE  e.hash \in accepted'[n] /\ stake'[n][e.validator] = 0
  BY DEF GenuineEvidenceConvicts, Genuine, Conflict, Digest
<1>2. e.hash \in accepted[n] /\ stake[n][e.validator] = 0
  BY <1>1 DEF HashInv, GenuineEvidenceConvicts
<1>3. QED BY <1>1, <1>2, ConvictionLasts

\* New evidence under a hash that was seen would be evidence there was already.
LEMMA ReportKeepsHashes ==
  ASSUME AtInv, HashInv, NEW m \in Nodes, NEW v \in Validators, Report(m, v)
  PROVE  GenuineEvidenceConvicts'
<1>a. [Next]_vars BY DEF Next
<1>1. PICK i \in 2..Len(inbox[m][v]) :
        /\ evidence' = evidence \cup {EvidenceOf(v, inbox[m][v][1], inbox[m][v][i])}
        /\ UNCHANGED <<votes, registry, pool, final>>
  BY DEF Report
<1>2. stake' = stake /\ accepted' = accepted /\ seen' = seen BY <1>1 DEF registry, pool
<1>3. SUFFICES ASSUME NEW n \in Nodes, NEW g \in evidence', Genuine(g), g.hash \in seen[n],
                      g.validator \in AtStart[n], ~ \E f \in Forged : f.hash = g.hash
               PROVE  g.hash \in accepted[n] /\ stake[n][g.validator] = 0
  BY <1>2 DEF GenuineEvidenceConvicts, Genuine, Conflict, Digest
<1>4. CASE g \in evidence BY <1>3, <1>4 DEF HashInv, GenuineEvidenceConvicts
<1>5. CASE g = EvidenceOf(v, inbox[m][v][1], inbox[m][v][i])
  <2>1. PICK e \in evidence : e.hash = g.hash BY <1>3 DEF HashInv
  <2>2. e \notin Forged BY <1>3, <2>1
  <2>3. e.validator = g.validator /\ e.a = g.a /\ e.b = g.b
    BY <1>3, <2>1, <2>2, HashIdentifies
  <2>4. Genuine(e) BY <1>3, <2>1, <2>3 DEF Genuine
  <2>5. QED BY <1>3, <2>1, <2>3, <2>4 DEF HashInv, GenuineEvidenceConvicts
<1>6. QED BY <1>1, <1>4, <1>5

\* Genuine evidence received under a hash nobody forged verifies, or is what was received.
LEMMA ReceiveKeepsHashes ==
  ASSUME AtInv, HashInv, NEW m \in Nodes, NEW e \in evidence, ReceiveEvidence(m, e)
  PROVE  GenuineEvidenceConvicts'
<1>a. [Next]_vars BY DEF Next
<1>1. /\ seen' = [seen EXCEPT ![m] = @ \cup {e.hash}] /\ evidence' = evidence
      /\ seen \in [Nodes -> SUBSET Digests] /\ accepted \in [Nodes -> SUBSET Digests]
      /\ stake \in [Nodes -> [Validators -> 0..MaxStake]]
  BY DEF ReceiveEvidence, AtInv, TypeOK
<1>2. SUFFICES ASSUME NEW n \in Nodes, NEW g \in evidence, Genuine(g), g.hash \in seen'[n],
                      g.validator \in AtStart[n], ~ \E f \in Forged : f.hash = g.hash
               PROVE  g.hash \in accepted'[n] /\ stake'[n][g.validator] = 0
  BY <1>1 DEF GenuineEvidenceConvicts, Genuine, Conflict, Digest
<1>3. CASE g.hash \in seen[n]
  <2>1. g.hash \in accepted[n] /\ stake[n][g.validator] = 0
    BY <1>2, <1>3 DEF HashInv, GenuineEvidenceConvicts
  <2>2. QED BY <1>a, <1>2, <2>1, ConvictionLasts
<1>4. CASE n = m /\ g.hash = e.hash
  <2>1. e \notin Forged BY <1>2, <1>4
  <2>2. e.validator = g.validator /\ e.a = g.a /\ e.b = g.b
    BY <1>2, <1>4, <2>1, HashIdentifies
  <2>3. g.validator \in known[m] /\ g.validator \in Validators
    BY <1>2, <1>4, AttestationsAssumption DEF HashInv
  <2>4. verifyDoubleSignEvidence(m, e)
    BY <1>2, <2>2, <2>3 DEF verifyDoubleSignEvidence, Genuine
  <2>5. Slash(m, e.validator) /\ accepted' = [accepted EXCEPT ![m] = @ \cup {e.hash}]
    BY <2>4 DEF ReceiveEvidence
  <2>6. stake'[m][e.validator] = 0 BY <1>1, <2>2, <2>3, <2>5 DEF Slash
  <2>7. QED BY <1>1, <1>4, <2>2, <2>5, <2>6
<1>5. QED BY <1>1, <1>2, <1>3, <1>4

\* Genuine evidence is never lost on a node that knew its validator from the start:
\* once its hash is seen it has been accepted and the stake is gone, unless the hash
\* was used for a forgery.
THEOREM EvidenceConvicts == Spec => []GenuineEvidenceConvicts
<1>1. Init => HashInv
  BY DEF Init, HashInv, GenuineEvidenceConvicts
<1>2. AtInv /\ HashInv /\ [Next]_vars => HashInv'
  <2>1. SUFFICES ASSUME AtInv, HashInv, [Next]_vars PROVE HashInv' OBVIOUS
  <2>2. evidence \subseteq evidence'
    BY <2>1 DEF Next, vars, Register, Sign, Deliver, SlashSeen, Report, Finalize, ReceiveEvidence
  <2>3. ASSUME NEW n \in Nodes, NEW h \in seen'[n] PROVE \E e \in evidence' : e.hash = h
    <3>1. CASE h \in seen[n] BY <2>1, <2>2, <3>1 DEF HashInv
    <3>2. ASSUME NEW m \in Nodes, NEW e \in evidence, ReceiveEvidence(m, e), h \notin seen[n]
          PROVE  h = e.hash
      BY <2>1, <2>3, <3>2 DEF ReceiveEvidence, AtInv, TypeOK
    <3>3. CASE seen' = seen BY <2>3, <3>1, <3>3
    <3>4. QED
      BY <2>1, <2>2, <3>1, <3>2, <3>3
         DEF Next, vars, pool, Register, Sign, Deliver, SlashSeen, Report, Finalize
  <2>4. ASSUME NEW n \in Nodes PROVE AtStart[n] \subseteq known'[n]
    <3>1. CASE known' = known BY <2>1, <3>1 DEF HashInv
    <3>2. ASSUME NEW m \in Nodes, NEW v \in Validators, Register(m, v)
          PROVE  known[n] \subseteq known'[n]
      BY <2>1, <3>2 DEF Register, AtInv, TypeOK
    <3>3. QED
      BY <2>1, <3>1, <3>2
         DEF HashInv, Next, vars, registry, Sign, Deliver, SlashSeen, Report, Finalize,
             ReceiveEvidence
  <2>5. GenuineEvidenceConvicts'
    <3>1. CASE seen' = seen /\ evidence' = evidence BY <2>1, <3>1, HashesKept
    <3>2. ASSUME NEW m \in Nodes, NEW v \in Validators, Report(m, v)
          PROVE  GenuineEvidenceConvicts'
      BY <2>1, <3>2, ReportKeepsHashes
    <3>3. ASSUME NEW m \in Nodes, NEW e \in evidence, ReceiveEvidence(m, e)
          PROVE  GenuineEvidenceConvicts'
      BY <2>1, <3>3, ReceiveKeepsHashes
    <3>4. QED
      BY <2>1, <3>1, <3>2, <3>3
         DEF Next, vars, pool, Register, Sign, Deliver, SlashSeen, Finalize
  <2>6. QED BY <2>3, <2>4, <2>5 DEF HashInv
<1>3. HashInv => GenuineEvidenceConvicts BY DEF HashInv
<1>4. QED BY <1>1, <1>2, <1>3, AttestationsInvariant, PTL DEF Spec

---------------------------------------------------------------------------
(* The fork choice *)

\* b comes before other in the order by which chooseCanonical sorts.
Before(n, b, other) ==
  \/ scoreBlock(n, b) > scoreBlock(n, other)
  \/ scoreBlock(n, b) = scoreBlock(n, other) /\ HashOf[b] <= HashOf[other]

LEMMA ScoreType ==
  ASSUME NEW n \in Nodes, NEW b \in Blocks
  PROVE  /\ Cardinality(Confirming(n, b)) \in Nat
         /\ Cardinality(Confirming(n, b)) <= Cardinality(Validators)
         /\ Cardinality(Validators) \in Nat /\ Height \in Nat /\ HashOf[b] \in Nat
         /\ scoreBlock(n, b) \in Nat
<1>1. Confirming(n, b) \in SUBSET Validators
  BY DEF Confirming
<1>2. /\ IsFiniteSet(Confirming(n, b))
      /\ Cardinality(Confirming(n, b)) <= Cardinality(Validators)
  BY <1>1, StakeAssumption, FS_Subset
<1>3. Cardinality(Confirming(n, b)) \in Nat /\ Cardinality(Validators) \in Nat
  BY <1>2, StakeAssumption, FS_CardinalityType
<1>4. Height \in Nat /\ HashOf[b] \in Nat
  BY AttestationsAssumption
<1>5. scoreBlock(n, b) \in Nat
  BY <1>3, <1>4 DEF scoreBlock, FINAL_SCORE
<1> QED BY <1>2, <1>3, <1>4, <1>5

\* Of finitely many blocks one comes before all others.
LEMMA FirstBlock ==
  ASSUME NEW n \in Nodes, Blocks # {}
  PROVE  \E b \in Blocks : \A other \in Blocks \ {b} : Before(n, b, other)
<1> DEFINE First(s) == \E b \in s : \A other \in s \ {b} : Before(n, b, other)
           T == {s \in SUBSET Blocks : s = {} \/ First(s)}
<1>1. \A b \in Blocks : scoreBlock(n, b) \in Nat /\ HashOf[b] \in Nat
  BY ScoreType
<1>2. ASSUME NEW s \in SUBSET Blocks, \A r \in (SUBSET s) \ {s} : r \in T
      PROVE  s \in T
  <2>1. CASE s = {}
    BY <2>1
  <2>2. CASE s # {}
    <3>1. PICK x \in s : TRUE
      BY <2>2
    <3>2. s \ {x} \in T
      BY <1>2, <3>1
    <3>3. CASE s \ {x} = {}
      BY <3>3
    <3>4. CASE First(s \ {x})
      <4>1. PICK y \in s \ {x} : \A other \in (s \ {x}) \ {y} : Before(n, y, other)
        BY <3>4
      <4>2. \/ Before(n, y, x)
            \/ \A other \in s \ {x} : Before(n, x, other)
        BY <1>1, <4>1 DEF Before
      <4>3. CASE Before(n, y, x)
        BY <4>1, <4>3
      <4>4. CASE \A other \in s \ {x} : Before(n, x, other)
        BY <4>4
      <4> QED BY <4>2, <4>3, <4>4
    <3> QED BY <3>2, <3>3, <3>4
  <2> QED BY <2>1, <2>2
<1>3. T = SUBSET Blocks
  <2> HIDE DEF T
  <2>1. T \in SUBSET SUBSET Blocks
    BY DEF T
  <2> QED BY <1>2, <2>1, AttestationsAssumption, SubsetInduction
<1> QED BY <1>3

\* A final block scores FINAL_SCORE more than it would otherwise.  As long as there
\* are not that many validators, their confirmations of another block cannot make up
\* for it, and the fork choice keeps to what is final.
THEOREM FinalIsCanonical ==
  ASSUME Cardinality(Validators) < FINAL_SCORE
  PROVE  Spec => []CanonicalIsFinal
<1>1. ASSUME TypeOK, NEW n \in Nodes, Finals(n) # {}
      PROVE  chooseCanonical(n) \in Finals(n)
  <2>1. PICK f \in Finals(n) : f \in Blocks
    BY <1>1 DEF TypeOK, Finals
  <2>2. PICK b \in Blocks : \A other \in Blocks \ {b} : Before(n, b, other)
    BY <2>1, FirstBlock
  <2>3. /\ chooseCanonical(n) \in Blocks
        /\ \A other \in Blocks \ {chooseCanonical(n)} : Before(n, chooseCanonical(n), other)
    BY <2>2 DEF chooseCanonical, Before
  <2> DEFINE c == chooseCanonical(n)
  <2> HIDE DEF c
  <2>4. ASSUME c \notin Finals(n) PROVE FALSE
    <3>1. c \in Blocks /\ Before(n, c, f)
      BY <2>1, <2>3, <2>4 DEF c
    <3>2. scoreBlock(n, c) = Cardinality(Confirming(n, c)) + Height
      BY <2>4, <3>1, ScoreType DEF scoreBlock
    <3>3. scoreBlock(n, f) = FINAL_SCORE + Cardinality(Confirming(n, f)) + Height
      BY <2>1 DEF scoreBlock
    <3>4. scoreBlock(n, c) < scoreBlock(n, f)
      BY <2>1, <3>1, <3>2, <3>3, ScoreType DEF FINAL_SCORE
    <3> QED BY <2>1, <3>1, <3>4, ScoreType DEF Before
  <2> QED BY <2>4 DEF c
<1>2. TypeOK => CanonicalIsFinal
  BY <1>1 DEF CanonicalIsFinal
<1> QED BY <1>2, AttestationsTypeCorrect, PTL
=============================================================================
