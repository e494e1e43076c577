---------------------------- MODULE Attestations ----------------------------
(***************************************************************************)
(* Validators attest to the blocks of one height and branch, and nodes     *)
(* finalize and choose a block by what has reached them.  Each node has    *)
(* its own registry of stakes (validator_registry.js), slashes who it sees *)
(* signing twice (slashing.js) and who evidence convicts                   *)
(* (slashing_evidence.js, evidence_gossip.js), so the stakes by which two  *)
(* nodes finalize may differ.  Signatures are verified in evidence only:   *)
(* an attestation nobody has signed counts for finality and for slashing   *)
(* as any other, and evidence comes under the hash its sender gives it.    *)
(***************************************************************************)
EXTENDS StakeWeightedConsensus, Sequences

CONSTANTS Nodes, Blocks,
          StakeOf,     \* the stake a validator registers with
          HashOf,      \* orders the blocks as their hashes
          Height,
          AtStart,     \* the validators a node knows from the start
          Careless,    \* sets of validators that may attest twice
          Ballots,     \* what a validator may attest, a bound
          Faked,       \* attestations in a validator's name that a node may get unsigned
          Forged,      \* evidence that was made up
          MaxEvidence  \* bound on the evidence that goes round

\* valid: the validator's own signature is on it
Attestation == [block : Blocks, status : {"confirmed", "rejected"}, valid : BOOLEAN]
\* The evidenceHash of the evidence that a and b are for v's double signing
Digest(v, a, b) == <<v, a, b>>
Digests == Validators \X Attestation \X Attestation
Evidence == [validator : Validators, a : Attestation, b : Attestation, hash : Digests]
FINAL_SCORE == 1000000

ASSUME AttestationsAssumption ==
  /\ StakeOf \in [Validators -> 1..MaxStake]
  /\ IsFiniteSet(Blocks)   \* a node chooses from a list
  /\ HashOf \in [Blocks -> Nat] /\ Height \in Nat
  /\ AtStart \in [Nodes -> SUBSET Validators]
  /\ Careless \subseteq SUBSET Validators
  /\ Ballots \in [Validators -> SUBSET {att \in Attestation : att.valid}]
  /\ Faked \in [Nodes -> [Validators -> SUBSET {att \in Attestation : ~att.valid}]]
  /\ Forged \subseteq {e \in Evidence : ~e.a.valid \/ ~e.b.valid}

VARIABLES
  careless,   \* who may attest twice in this behaviour
  signed,     \* the attestations each validator has signed
  inbox,      \* those in a validator's name that have reached a node, in order
  known,      \* the validators in a node's registry
  stake, slashed,   \* their stakes there; an inactive one has stake 0
  evidence,   \* evidence that is being passed on
  seen, accepted,   \* the hashes a node's pool has received and accepted
  final       \* the blocks a node has finalized, and whether it knew everybody

votes == <<careless, signed, inbox>>
registry == <<known, stake, slashed>>
pool == <<seen, accepted>>
vars == <<votes, registry, evidence, pool, final>>

TypeOK ==
  /\ careless \subseteq Validators
  /\ signed \in [Validators -> SUBSET Attestation]
  /\ inbox \in [Nodes -> [Validators -> Seq(Attestation)]]
  /\ known \in [Nodes -> SUBSET Validators]
  /\ stake \in [Nodes -> [Validators -> 0..MaxStake]]
  /\ slashed \in [Nodes -> [Validators -> 0..MaxStake]]
  /\ evidence \subseteq Evidence
  /\ seen \in [Nodes -> SUBSET Digests]
  /\ accepted \in [Nodes -> SUBSET Digests]
  /\ final \in [Nodes -> SUBSET [block : Blocks, complete : BOOLEAN]]

Init ==
  /\ careless \in Careless
  /\ signed = [v \in Validators |-> {}]
  /\ inbox = [n \in Nodes |-> [v \in Validators |-> << >>]]
  /\ known = AtStart
  /\ stake = [n \in Nodes |-> [v \in Validators |-> IF v \in AtStart[n] THEN StakeOf[v] ELSE 0]]
  /\ slashed = [n \in Nodes |-> [v \in Validators |-> 0]]
  /\ evidence = Forged
  /\ seen = [n \in Nodes |-> {}] /\ accepted = [n \in Nodes |-> {}]
  /\ final = [n \in Nodes |-> {}]

Register(n, v) ==
  /\ v \notin known[n]
  /\ known' = [known EXCEPT ![n] = @ \cup {v}]
  /\ stake' = [stake EXCEPT ![n][v] = StakeOf[v]]
  /\ UNCHANGED <<votes, slashed, evidence, pool, final>>

Sign(v, att) ==
  /\ att \notin signed[v]
  /\ signed[v] = {} \/ (v \in careless /\ Cardinality(signed[v]) < 2)
  /\ signed' = [signed EXCEPT ![v] = @ \cup {att}]
  /\ UNCHANGED <<careless, inbox, registry, evidence, pool, final>>

Deliver(n, v, att) ==
  /\ \A i \in 1..Len(inbox[n][v]) : inbox[n][v][i] # att
  /\ inbox' = [inbox EXCEPT ![n][v] = Append(@, att)]
  /\ UNCHANGED <<careless, signed, registry, evidence, pool, final>>

\* Mutant: the block an attestation is for is not looked at
ConfirmsAny(n, v, b) ==
  Len(inbox[n][v]) > 0 /\ inbox[n][v][1].status = "confirmed"

ForBlock(att, b) == att.block = b /\ att.status = "confirmed"

\* votingPower gets the attestations for one block from its callers; of a
\* validator's among them only the first one counts.
Confirms(n, v, b) ==
  \E i \in 1..Len(inbox[n][v]) :
    /\ ForBlock(inbox[n][v][i], b)
    /\ \A j \in 1..(i - 1) : inbox[n][v][j].block # b

Confirming(n, b) == {v \in Validators : Confirms(n, v, b)}

Finalize(n, b) ==
  /\ hasTwoThirdsQuorum(stake[n], Confirming(n, b))
  /\ final' = [final EXCEPT ![n] = @ \cup {[block |-> b, complete |-> known[n] = Validators]}]
  /\ UNCHANGED <<votes, registry, evidence, pool>>

\* Mutant: the stake of the registration is slashed again
SlashAgain(n, v) ==
  /\ slashed' = [slashed EXCEPT ![n][v] = @ + StakeOf[v]]
  /\ stake' = [stake EXCEPT ![n][v] = 0]

\* All of a validator's stake goes from stake to slashed, which is nothing when
\* it has been slashed before.
Slash(n, v) ==
  /\ slashed' = [slashed EXCEPT ![n][v] = @ + stake[n][v]]
  /\ stake' = [stake EXCEPT ![n][v] = 0]

\* Signatures are not looked at.
Conflict(a, b) == a.block # b.block \/ a.status # b.status

\* A later attestation is compared with the first.
DoubleSign(n, v, i) == i \in 2..Len(inbox[n][v]) /\ Conflict(inbox[n][v][1], inbox[n][v][i])

SlashSeen(n, v) ==
  /\ \E i \in 2..Len(inbox[n][v]) : DoubleSign(n, v, i)
  /\ v \in known[n]
  /\ Slash(n, v)
  /\ UNCHANGED <<votes, known, evidence, pool, final>>

\* createDoubleSignEvidence
EvidenceOf(v, a, b) == [validator |-> v, a |-> a, b |-> b, hash |-> Digest(v, a, b)]

Report(n, v) ==
  \E i \in 2..Len(inbox[n][v]) :
    /\ Cardinality(evidence) < MaxEvidence
    /\ DoubleSign(n, v, i)
    /\ evidence' = evidence \cup {EvidenceOf(v, inbox[n][v][1], inbox[n][v][i])}
    /\ UNCHANGED <<votes, registry, pool, final>>

\* Mutant: the signatures are not verified
VerifyUnsigned(n, e) == e.validator \in known[n] /\ Conflict(e.a, e.b)

\* Mutant: two attestations for one block do not conflict
VerifyBlocksDiffer(n, e) ==
  /\ e.validator \in known[n]
  /\ e.a.block # e.b.block
  /\ e.a.valid /\ e.b.valid

\* Everything is checked except the hash.
verifyDoubleSignEvidence(n, e) ==
  /\ e.validator \in known[n]
  /\ Conflict(e.a, e.b)
  /\ e.a.valid /\ e.b.valid

\* The hash is marked as seen before the evidence is verified: what comes before
\* its validator is known, or after other evidence under its hash, is refused
\* for good.
ReceiveEvidence(n, e) ==
  /\ e.hash \notin seen[n]
  /\ seen' = [seen EXCEPT ![n] = @ \cup {e.hash}]
  /\ \/ /\ verifyDoubleSignEvidence(n, e)
        /\ Slash(n, e.validator)
        /\ accepted' = [accepted EXCEPT ![n] = @ \cup {e.hash}]
     \/ ~verifyDoubleSignEvidence(n, e) /\ UNCHANGED <<stake, slashed, accepted>>
  /\ UNCHANGED <<votes, known, evidence, final>>

Next ==
  \/ \E v \in Validators : \E att \in Ballots[v] : Sign(v, att)
  \/ \E n \in Nodes, v \in Validators :
       \/ Register(n, v)
       \/ \E att \in signed[v] \cup Faked[n][v] : Deliver(n, v, att)
       \/ SlashSeen(n, v)
       \/ Report(n, v)
  \/ \E n \in Nodes, b \in Blocks : Finalize(n, b)
  \/ \E n \in Nodes, e \in evidence : ReceiveEvidence(n, e)

Spec == Init /\ [][Next]_vars
-----------------------------------------------------------------------------
Finals(n) == {f.block : f \in final[n]}

\* Mutant: finality does not score
ScoreConfirmations(n, b) == Cardinality(Confirming(n, b)) + Height

scoreBlock(n, b) ==
  (IF b \in Finals(n) THEN FINAL_SCORE ELSE 0) + Cardinality(Confirming(n, b)) + Height

chooseCanonical(n) ==
  CHOOSE b \in Blocks : \A other \in Blocks \ {b} :
    \/ scoreBlock(n, b) > scoreBlock(n, other)
    \/ scoreBlock(n, b) = scoreBlock(n, other) /\ HashOf[b] <= HashOf[other]

DoubleSigners == {v \in Validators : \E a, b \in signed[v] : a # b}

\* In whose name two attestations that conflict have reached the nodes, together
Contradicted == {v \in Validators :
  \E n, m \in Nodes : \E i \in 1..Len(inbox[n][v]), j \in 1..Len(inbox[m][v]) :
    Conflict(inbox[n][v][i], inbox[m][v][j])}

\* Two nodes that know every validator, whomever they have slashed meanwhile,
\* finalize different blocks only if what has reached the nodes slashes more than
\* a third of all stake; two thirds of a node's remaining stake is the quorum.
ForkIsSlashable ==
  \A n, m \in Nodes : \A f \in final[n], g \in final[m] :
    f.complete /\ g.complete /\ f.block # g.block =>
      3 * votingPower(StakeOf, Contradicted) > totalActiveStake(StakeOf)

\* A block with more confirmations never replaces a final one in the fork choice.
CanonicalIsFinal ==
  \A n \in Nodes : Finals(n) # {} => chooseCanonical(n) \in Finals(n)

\* A validator loses the stake it registered with once, although a node may come to
\* it in both ways and several times; and it loses it where it has signed twice, or
\* where two attestations in its name conflict at that very node.  What other nodes
\* pass on, forged or made of attestations it never signed, takes nothing.
SlashedForCause ==
  \A n \in Nodes, v \in Validators :
    /\ stake[n][v] + slashed[n][v] = IF v \in known[n] THEN StakeOf[v] ELSE 0
    /\ slashed[n][v] > 0 =>
         v \in DoubleSigners \/ \E i \in 2..Len(inbox[n][v]) : DoubleSign(n, v, i)

Genuine(e) == Conflict(e.a, e.b) /\ e.a.valid /\ e.b.valid /\ e.hash = Digest(e.validator, e.a, e.b)

\* Of genuine evidence a node has seen the hash only when it has accepted it and
\* taken the stake, unless it learned of the validator late or the hash is one under
\* which evidence was forged.
GenuineEvidenceConvicts ==
  \A n \in Nodes : \A e \in evidence :
    Genuine(e) /\ e.hash \in seen[n] =>
      \/ e.hash \in accepted[n] /\ stake[n][e.validator] = 0
      \/ e.validator \notin AtStart[n]
      \/ \E f \in Forged : f.hash = e.hash
=============================================================================
