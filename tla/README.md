# Verification of the Diamond Data Chain contracts and node prototypes

TLA+ models of the DDC presale with the contracts and scripts around it, of the
treasury, and of the node prototypes; TLC runs that check them on small
instances; and TLAPS proofs of their central properties for all values of the
constants. Paths are relative to the repository.

## Inventory

| Component | State | Operations | What makes it correct |
| --- | --- | --- | --- |
| Presale with vesting, `contracts/presale/DDCPresaleVesting.sol` | batches, purchases, principals, claims, totals, TGE, finalized | `startPresaleOnce`, `buyWithUSDT`, `advanceIfEnded`, `claim`, `finalize`, `sweepRaisedFundsToTreasury`, `withdrawRaisedFunds`, `setTGE`, `setRecorderOnce`, `pause`, `unpause` | allocation is conserved over roll-overs, the books agree, nobody is paid before vesting, the buyers' reserve survives finalize, everybody is paid in the end |
| Reward pool, `contracts/DDCRewardPool.sol` | presale, burn-locked and eligible balances | `setPresaleOnce`, `accountPresaleReconciliation` | accounts only for what it received; what it misses to the burn target is what it holds as eligible, burn cap kept; never blocks finalize |
| Recorder, `contracts/DDCPresaleRecorder.sol` | writer, seen references, purchases, totals | `setWriter`, `recordPurchase` | a reference at most once; totals are the sums of the entries; has every sale, whoever else records |
| DDC token, `contracts/DDCToken.sol`, and USDT | balances | transfers | balances are conserved |
| Timelock, `contracts/security/DDCTimelock.sol` | queued calls | `queue`, `execute`, `cancel` | no call before its delay, each at most once |
| Treasury vaults, `contracts/treasury/*.sol` | claimed amounts | `claim`, `claimMonthly`, `claimGrant` | never ahead of the release, paid in the end |
| Deployment scripts, `scripts/deploy_*.js`, `fund_prod_presale.js`, `start_presale_once.js` | none of their own | transactions in an order | every intermediate state is safe |
| Keeper, `scripts/keeper_advance_batches.js` | none | `advanceIfEnded` when a batch looks over | a late or early call does no harm |
| Relayer and sync scripts, `scripts/recorder_relayer.js`, `sync_recorder_*.js` | last block | check, then record | a purchase recorded once; none passed by or left out of a list |
| Rounds and locks, `prototype/real-node/{lock_rules,round_consensus,stake_weighted_consensus}.js` | locks per validator, votes | propose, prevote, precommit, lock, unlock | two blocks of a height are final only through byzantine stake or locks that were moved back |
| Registry, slashing, evidence, fork choice, `prototype/real-node/{validator_registry,slashing,slashing_evidence,evidence_gossip,fork_choice}.js` | stakes, attestations, evidence seen, final blocks | register, attest, slash, report, receive, finalize, choose | a stake is slashed once, and where something was signed twice or a node got conflicting attestations; genuine evidence convicts; a fork slashes a third of the stake |
| Daemon, storage, network, `prototype/real-node/{validator_daemon,storage,async_network}.js` | position, files, queue | start, stop, handle, persist, append, send, tick | the log stays ordered through crashes |
| Socket peers and scoring, `prototype/real-node/{p2p_socket_node,peer_scoring}.js` | sockets by name, scores, bans | dial, accept, broadcast, score, close | a message is accepted once |
| Gossip, `prototype/real-node/gossip_node.js` | peers by socket | listen, dial, hello, gossip, pass on, fail, end | gossip arrives once, except that of an outsider that dialed into a ring |
| Branch validation, `prototype/validator-sim/validator_sim.js` | uptime, slashed stake | draw, validate | the draw is fair, slashing counts timeouts |
| Data layer, `prototype/data-layer/data_validator.js` | accepted hashes, latest content | validate | an accepted dataset never changes |

How they interact. The owner deploys and wires the contracts, one transaction
at a time. Buyers call the presale, which pulls USDT, forwards whole chunks of it
to the treasury, and calls the recorder within the purchase. `finalize` moves the
residual DDC to the reward pool and calls it in the same transaction. Anybody may
call `advanceIfEnded`, `finalize`, `sweepRaisedFundsToTreasury` and
`withdrawRaisedFunds`. Scripts read the contracts' views and write in later
transactions. The timelock makes the owner's calls, here those that fund the
vaults; the grant vault asks the presale whether it is finalized. The node
prototypes are independent of the contracts. Among them the daemon is fed by the
network, the registries are read by finality and written by slashing and by
evidence, and the peers are scored by what their sockets bring.

Where it is hard. A transaction is atomic on the chain, so the concurrency is in
the order of transactions, in the block time that passes between them, and in
scripts that act on what they read earlier. One sync may close several batches.
Claims are paid out of the same balance that funds the residual, before finalize
or after. The amounts finalize computes must satisfy the pool's requires, or the
presale could never be finalized. A vault follows a fixed schedule and not its
balance, so it may owe what it has not been given yet. Voters of different rounds,
attestations and evidence arrive in any order, at registries that differ; a daemon
is killed between two files; two peers share several sockets. The list of hazards,
each at its line, is in `PROJECT.json`.

## Modules

| Module | Models |
| --- | --- |
| `ERC20` | the ledgers of DDC and USDT, and the parties |
| `BatchSchedule` | the batches as data: `_startPresale`, `_syncBatches` as a loop of passes (`SyncStep`, `SyncLoop`), `_effectiveCurrentBatchId` |
| `VestingCurve` | `_unlockedTotal` with its four terms, each rounded down |
| `DDCRewardPool`, `DDCPresaleRecorder` | the two called contracts; a call is an operator that the caller's action conjoins |
| `DDCPresaleVesting` | composes them all: one action per transaction, plus `Tick` for the next block; `RecordDirectly` for the entries the recorder's writer or owner makes; `Spec` starts at the bare constructors, `DeployedSpec` after `deploy_prod.js` and the funding |
| `TokenAllocation` | what the presale promises of its allocation, which it implements |
| `PresaleProperties`, `MCPresale` | what must hold of that composition; the constants of its runs |
| `RecorderSync` | the relayer and the sync script over `DDCPresaleRecorder`: every call to the node is a step of its own, transactions are sent, executed and waited for in separate steps |
| `PurchaseMirror` | what the recorder promises, which `RecorderSync` implements |
| `MCRecorderSync` | the constants of its runs |
| `Treasury`, `MCTreasury` | the timelock and the three vaults over `ERC20`'s ledgers |
| `StakeWeightedConsensus` | voting power and quorums |
| `Rounds` | proposals, prevotes and precommits of voters that keep the lock rules, with byzantine validators among them |
| `Attestations`, `MCAttestations` | nodes with registries of their own: attestations, finality, fork choice, double signing, evidence |
| `ValidatorDaemon` | the daemon, its two files and the network that feeds it, with crashes |
| `P2PSocketNode` | nodes with sockets to each other, and their scores of their peers |
| `GossipNode`, `ValidatorSim`, `DataValidator` | the three smaller programs |
| `MCPrototypes` | one of six programs in each behaviour: `Rounds`, `ValidatorDaemon`, `P2PSocketNode`, `GossipNode`, `ValidatorSim`, `DataValidator` |
| `ScheduleProofs`, `PresaleProofs`, `RecorderSyncProofs`, `TreasuryProofs`, `RoundsProofs`, `AttestationsProofs`, `NodeProofs` | the proofs |
| `FiniteSums` | what the proofs about sums, quorums and loops share |

State and actions. A variable has the name of the variable it stands for; the
comments in the modules name those that differ. In the contracts a `require` is a
conjunct of the guard, and a call that reverts, at any depth, is no step. What a
transaction does inside is part of its action: `BuyWithUSDT` syncs, sells,
records, sweeps and syncs again. Prices, limits, durations and allocations are
constants. Abstracted: `baseAllocation` is a constant and not a field,
timestamps of purchases, events, allowances, the paging of views, several
projects in one recorder, `transferOwnership`. The `startTime` given to the
presale's constructor is 0 in `deploy_prod.js` and is modelled as 0. The loop of
`_syncBatches` closes a batch per pass, so `SyncLoop` makes at most
`TOTAL_BATCHES` passes. The branch of `_syncBatches` for a batch that is already
open is in `NextBatch`, and `BatchesFollow` proves that it is never taken.

In `RecorderSync` the presale is the list of blocks with purchases it emits. A
process is a relayer (`recorder_relayer.js`, which begins at the latest block, polls
and never ends) or a sync script (`sync_recorder_from_txhashes.js`, which works
through a list and exits); `pc` says
which call to the node comes next, and `todo`, `last` and `latest` are its local
variables. `Send` simulates the call first, as gas estimation does; the transaction
is executed later (`ExecuteAwaited`) and may be reverted then. A failed call
(`CallFails`) throws: the relayer polls again from `last`, a sync script exits; a
transaction they waited for stays on its way (`ExecuteOrphan`). Abstracted: events of
other kinds and reorganisations; a hash is a tuple of what is hashed.
`sync_recorder_from_presale.js` is not modelled: it reads `ev.logIndex` (line 60), which
is `ev.index` in the ethers 6 of `package.json`, so `BigInt(undefined)` throws at the
first purchase, before anything is asked or sent. A restarted relayer begins at the
latest block: what was bought while it was down is nobody's promise, and no property
speaks of it.

In `Treasury` the timelock's calls are token transfers to a vault. An `execute` whose
call fails reverts as a whole, so it is no step and can be tried again. That the
owner funds the vaults through the timelock is the environment chosen here:
`deploy_treasury_vaults.js` only deploys them. `FinalizePresale` stands for the
presale the grant vault asks.

In `Rounds` a byzantine validator is taken to have sent every vote, and every
proposal when it is the proposer, so its votes count in every quorum and are kept
in no variable. `runRound` lets all validators vote at once; here each votes when it
gets to it, and in later rounds before others have finished earlier ones. The
repository has no program that runs rounds with `LockManager`; `Rounds` is how the
functions of both fit together, `canVote` before a prevote and `lock` with a
precommit. `unlockAndRelock` may be asked of any voter at any time, for any block and
round, with the guard of `canUnlock` and no other. Asked for the very block the voter is
locked on it looks at no round, so the lock can be moved back to an older one; the
history variable `lowered` notes whose was, and `Agreement` counts their stake with the
byzantine one: with `lowered` left out it does not hold. `FirstRound` is the round the
voters start with, so that there is an older one to move back to.

In `Attestations` a node's `stake` is the active stake in its registry, 0 for a
validator it does not know or has slashed out. `Confirms` reads an inbox as
`stake_weighted_consensus.js` does, where a second attestation of a validator for a
block is ignored and one for another block is not. `ReceiveEvidence` marks evidence as
seen, by the hash its sender gave it, before it verifies it; the hash is compared with
nothing. Evidence that was made up is in `Forged`: a signature in it is not by its
validator, while its hash may be that of genuine evidence. Signatures are verified in
evidence only: an attestation in a validator's name that it has not signed (`Faked`,
`valid` is `FALSE`) counts for finality and slashes as any other. `Confirms` picks the
attestations for one block (`ForBlock`), which the callers of `votingPower` do. That
what a node accepts reaches the others is nowhere in the code (`receive` only returns
`gossip: true`), so nothing is assumed of it and there is no liveness property. The
scenarios of `partition_fork_merge.js` are behaviours of this model.

In `ValidatorDaemon` a crash may come before, after and within the write of a file;
a write that is cut short leaves a file that does not parse (`torn`), after which
the constructor, or the next append, throws. `Tick` hands over all that is due in the
order of sending, as `async_network.js` does; delays differ, so messages overtake
each other, and what comes while the daemon is down or stopped is lost. In
`P2PSocketNode` a node keeps its sockets by name, and `names` says under which.

In `GossipNode` a process first listens (`StartProcess`) and later dials (`Dial`) any
process that listens by then, one that dials it or itself included, so that chains,
trees and rings come about. It sends its own gossip once; nobody remembers what was
passed on. A process ends by its timer once nobody is connected to it (`Shutdown`), or
by a socket error, which nothing handles (`Fail`).

## Runs

| Run | States | What it checks |
| --- | --- | --- |
| `presale_safety` | 168 808 | three batches, two buyers, three txIds: allocation, schedule, books, caps, what the view shows, vesting, amounts of finalize |
| `presale_wiring` | 120 000 | from the constructors: linking, wiring, partial and over-funding, writer changes, direct USDT; reserve after finalize, the allocation dealt out as `TokenAllocation` has it, whole chunks to the treasury |
| `presale_liveness` | 38 240 | the presale is finalized, buyers are paid in full; while the recorder's writer changes and the writer or the owner records directly, it adds up (`RecorderAddsUp`) and has every purchase (`RecorderMirrorsSales`) |
| `recorder_sync` | 225 924 | a relayer and a sync script at once, one failure or restart, a changing writer: recorded at most once (`IsMirror`), nothing passed by |
| `recorder_sync_liveness` | 39 414 | two relayers that race with one wallet both get on |
| `treasury` | 239 306 | the timelock funds the vaults in parts, cancels and fails, while they are claimed from: what was paid in is held or paid out (`TreasuryAddsUp`), never ahead of schedule (`VaultsKeepSchedule`), and all of it in the end (`EverythingIsPaid`) |
| `attestations` | 498 229 | two nodes, a double signer, attestations nobody signed, evidence that is forged, early or under another's hash: a fork slashes a third of the stake, the fork choice stays with what is final, a stake goes once and for a cause, genuine evidence convicts (`GenuineEvidenceConvicts`) |
| `prototypes` | 537 861 | `Agreement` in three rounds of three voters, one byzantine, with locks moved back; the daemon's log through two crashes; messages accepted once by two peers that dial each other; gossip of three processes in chains, trees and rings; an epoch of branches; data objects |
| `recorder_rebuild` | violation | `ALERT_MATRIX.md` answers a desync with a rebuild from transaction hashes; where the presale records by itself, as `deploy_prod.js` wires it, this lists every purchase twice |
| `advance_after_finalize` | violation | `TEST_RUNS.md` says advancing is blocked after finalize; the call succeeds and does nothing |
| `burn_split` | violation | `COIN_ALLOCATION_MANIFEST.md` says half of the presale is burn-locked; what the pool burn-locks shrinks with the sales |
| `recorder_coupling` | violation | `DECISIONS.md` says buying is not coupled to the recorder; a purchase reverts when the recorder refuses it |

`prototypes` is a sum: the six programs share nothing, so a behaviour runs one of
them and every property speaks of one; its blocks are symmetric. The longest runs,
`presale_liveness` and `prototypes`, take about two minutes each on two workers.

Bounds of the presale. Batches last one second and hold 20 units of DDC, so a purchase
of 2 gives 20 units at price 2 and sells a batch out, one of 3 gives 30, which fits only
after a roll-over, and at price 3 the amounts are rounded. `DDC_UNIT` is 20,
`MAX_PURCHASE_USDT` 4 so that a second purchase hits the limit, the sweep threshold 5 so
that remainders stay behind. The clock stops after the last batch and the last phase of
vesting (`MaxTime`), which lets every batch expire, sell out or both; the TGE falls
before, within and after the sale. Three batches are the fewest with a first, a middle
and a last one, and let one sync close two. Two buyers are enough for the sums and the
limits per buyer. A direct entry (`DirectRecords`, in `presale_liveness`) comes under
the txId of a purchase, where the second of the two reverts, and in the list of a buyer
who may buy under the other.

Bounds of the others. The recorder's runs have two blocks and two purchases, in one
block or in two: the least with a block to come back to after its first purchase is
recorded. One failure (`MaxFailures`) leaves one transaction without a process that
waits for it, and three transactions for the same purchase may then be on their way.
`treasury` has three DDC over four steps, so that the vested amount is rounded; two
months, so that one can be claimed late together with the next; and three queued
transfers, of one or two DDC, one USDT or the grant, so that a vault can be funded in
parts. `attestations` has two nodes and validators of stakes 2, 1 and 1: the quorum is
three of four tokens, and the double signer is needed for either block. A second
validator signs for one block and is attested for by a fake at one node, the third signs
nothing and is attested for at the other. One of the nodes learns of the double signer
late; at most `MaxEvidence` pieces of evidence go round. In
`prototypes` the voters start in round 1 of 0 to 3, with stakes 2, 2 and 1 of which the
last is byzantine: the fewest in which a block gets its prevotes in one round, another
becomes final in the next, both locks are moved back to round 0 and the first becomes
final too. `Agreement` without `lowered` is violated there; three messages of which two
are of one height, with delays of up to two ticks, overtake each other; two crashes let
the second follow a restart; two sockets let two peers dial each other, or one dial
twice; three gossiping processes form chains, stars, rings of one to three and a ring
with one outside that dials into it, whose gossip goes round, up to `MaxHeard` messages
a process; three objects let one contradict another after a third. What does not depend
on the small numbers is proved.

Deadlock. The presale's and the recorder's runs check it, and there is none, because
`advanceIfEnded` is always possible, as in the code, and scripts can always be
started or poll. The three other runs do not check it: the clock, the rounds, the
messages and the attestations are used up in the end and the model stops there.

Fairness. In the presale: weak fairness of `Tick` (blocks keep coming), of
`AdvanceIfEnded` (`keeper_advance_batches.js` calls it in an endless loop), of
`Finalize` and of each buyer's `Claim`: both are open to whoever is interested and
stay enabled until done. No fairness is assumed of the owner or of purchases, and
pausing for ever is allowed. The liveness run starts funded and linked
(`DeployedSpec`): without that, finalize reverts, which is what the code intends.
In `RecorderSync` a running relayer goes on (its loop has no end and catches
exceptions) and a transaction that was sent is executed; nobody has to start a
script or to keep it running. A relayer can only catch up while its wallet may
write, so the liveness run has a fixed writer, and failures are finitely many.
In `Treasury` time passes, the presale is finalized (`EventuallyFinalized` says when
it is) and the wallets that are owed keep claiming; none is assumed of the owner or
of the timelock, so only a vault that was given enough is shown to pay.

## Proofs

`PresaleProofs` proves, for `Spec` and for `DeployedSpec`, that types are kept
(`TypeCorrect`), that nothing is lost or oversold (`NothingLostOrOversold`), that
batches follow one another (`BatchesFollow`), that a late keeper does no harm
(`KeeperMayBeLate`), how the batch shown as active and the one sold relate
(`ActiveBatchIsSold`, see below), that every purchase goes to the first batch still
selling (`PurchasesGoToTheOpenBatch`), that the treasury gets whole chunks
(`TreasuryGetsWholeChunks`), that finalize is for good (`FinalizeIsForGood`), that
claims stay within vesting (`ClaimsAreVested`) and vesting never shrinks
(`VestingIsMonotone`), that the reserve covers the claims (`ReserveIsKept`), that the
pool never refuses finalize's amounts (`PoolNeverBlocksFinalize`), and that it is backed
and keeps the cap (`PoolIsBacked`). Of the books it proves that the buyers' accounts,
the batches' sales and the lists of purchases add up to the totals kept beside them
(`TotalsAddUp`), that nobody spends more than the limit in a batch (`LimitHolds`), that
the recorder's totals, lists and references agree whoever records
(`RecorderIsConsistent`) and, for `DeployedSpec`, that it has every purchase
(`RecorderHasAllSales`). Last, after finalize every DDC of the nominal total is a
buyer's or the pool's (`NothingIsLeftOver`), and the presale implements
`TokenAllocation` (`PresaleAllocates`): a purchase is a `Sell`, a claim a `Pay`,
finalize is `Close`, and all else stutters. That finalize is `Close` needs that the
residual covers what is missing to the burn target, so that capping the burn there never
binds, and that the pool's accounts were empty before.

Three of these say less than one may hope, because the code does. The view `batchInfo`
and a purchase differ between the end of a batch and the next sync: the view shows the
batch that is over, while `buyWithUSDT` syncs first and sells the next one at its price.
`ActiveBatchSells` says that this is the only difference, and that a sync ends it. The
pool's own count of the burn target (`remainingPresaleBurnTarget`) is of what finalize
burn-locks; the burn half of the sales is booked as eligible for rewards, so what the
pool shows as missing after finalize is just that half, up to the target. `PoolIsBacked`
says so, and that this much is there as eligible; it does not say that the target is
met. And nothing keeps the recorder's writer or owner from adding entries, also under a
txId before its purchase, which then reverts: `RecorderMirrorsSales` says that every
purchase made is listed once and in order, with nothing else under its txId, and not that
the recorder has nothing else.

None of these is inductive alone; `InductiveInv` is their
conjunction with what they need from one another. `SaleInv` says that the schedule
is well formed, settled (the current batch is not sold out unless it is the last
and closed) and accounts for all DDC; a pass of the loop keeps it, hence the whole
loop, by induction over the passes. `HalvesInv` gives that the residual finalize
computes is positive and covers the missing burn. `AccountsInv` says that principals
and claims add up to their totals; with the release curve, monotone in time and in the
principal (`ScheduleProofs`), nobody has claimed more than the principal. `HoldingsInv`
is then the reserve and the pool's backing. For the purchases `Passed` is added: every
batch that was left was sold out or over. `BooksInv` relates the lists of purchases to
the accounts and the batches, entry by entry and in sum; what a purchase appends is
added to one account, one batch and one total at once. `RecorderAddsUp` needs only
the types besides: an accepted entry is new and ends the user's list and the global one.
`MirrorInv` says that, once wired, every purchase's txId is used and every reference of
a list recorded, so a later entry, of a purchase or direct, is under a new reference and
leaves the places of the purchases in the list as they are.

`FiniteSums` stands for the induction over data that the library's theorems cannot be
used for here. The least element of a set of numbers gives induction over an interval
(the passes of a loop, the running stake of a draw), and a smallest counterexample
among the subsets of a finite set gives induction over finite sets. With it the sum of
a function, which is a fold, is the number of its units, a set of pairs, so that adding
to one value and comparing two sums follow from facts about cardinalities.

`RecorderSyncProofs`: types (`SyncTypeCorrect`), no running relayer has passed a
purchase by (`RelayersSkipNothing`), a sync script that ends has recorded its list
(`SyncsAreComplete`), and the scripts implement `PurchaseMirror` (`RecorderIsMirror`)
where the presale does not record by itself (`~Wired`): with both, a purchase is listed
under two references, which is what `recorder_rebuild` shows. `SyncInv` relates what
a process has still to do to what is recorded: a transaction that was executed
recorded the head of the list, and what is left of a relayer's block is its list.

`TreasuryProofs`: `TreasuryInvariant` (no balance below zero, nothing claimed that is
not due) and `VaultsNeverPayAhead`. A claim is measured against what was due when it
was made, so the proof rests on what is due growing with time, through the
division that rounds it. `VaultsAddUp`: what the timelock has executed for a vault is
what the vault holds and what its wallet has got; each executed transfer adds to one
of the two sides of the ledger, and a cancelled or failing one to neither.

`RoundsProofs`: `RoundsAgree`, by `RoundsInv`. A block is choosable in a round while
those that have precommitted it there, those that may yet and the byzantine ones have a
quorum; who has precommitted it and was never moved back is only led away by a block of
a later round, which had a quorum of prevotes, and then it is not choosable any more,
unless the byzantine and the lowered hold more than a third. That two quorums share more
than a third follows from counting tokens, a set too.

`AttestationsProofs`: types, `SlashingIsJust`, `EvidenceConvicts` and
`ForksAreSlashable`, by `AtInv`: a final block had a quorum of the stakes its node had
not slashed by then, and these are the registered stakes except of those in whose name
conflicting attestations have reached the nodes, whether they signed them or not.
Whatever is slashed later, these attestations remain. `SlashingIsJust` names both causes:
a validator has signed twice, or two attestations in its name conflict at the very node,
in which case an honest validator too loses its stake; forged evidence alone takes none.
`EvidenceConvicts` rests on what a node has seen: nothing else is under that hash unless
it was forged. `FinalIsCanonical` says that the fork choice stays with what is
final, provided there are fewer validators than the million that `fork_choice.js` adds
for finality: with a million confirmations another block would have the greater score.

`NodeProofs`: `LogStaysOrdered` and `CrashesLoseOneEntry` (`DaemonInv` says how far the
memory is ahead of the files in each state of the process; the latter holds while no
crash has torn a file within a write, after which the file cannot be read at all),
`MessagesAcceptedOnce` (`PeersInv`: what was accepted is listed as seen, which no
window, name or socket resets), `AcceptedDataIsFinal` (`DataInv`). `GossipIsHeardOnce`,
by `GossipInv`: what a process has dialed never changes, and gossip only moves from a
process to its dialers, so whoever has heard it reaches the process that heard it first
by a path of dials, and has dialed somebody who heard it before. Somebody about to hear
it again would close that path to a ring its source has dialed from outside, which the
property excepts. `DrawIsFair`: the running stakes cut the numbers below the total into
one interval for each active validator, and `weightedPick` finds the interval a number
lies in. `TimeoutsArePaid`, by `SimInv`: uptime counts the timeouts down, and what was
slashed follows from their number.

Assumptions: the named `ASSUME`s of the modules. Of the presale: positive durations,
allocations, prices and units, the burn target within the cap (the pool's constants) and
twice it within the nominal total, enough supply to fund it, and buyers who are none of
the contracts or the treasury; and finitely many users, since an address has 160 bits.
Of the treasury: a positive duration, allocation and month. Of voting: finitely many
validators; nothing of the byzantine ones. In `Attestations` there are finitely many
blocks. Of the peers: finitely many. A process is not called `HELLO`. An epoch has at
least one branch. The numbers of batches, buyers, purchases, seconds, scripts, nodes,
messages and crashes are arbitrary.

Model-checked only: the liveness properties `EventuallyFinalized`, `BuyersPaidInFull`,
`RelayerCatchesUp` and `EverythingIsPaid`, which rest on fairness. Every invariant and
every action property of a passing run has a theorem.

## Findings

Four runs expect a violation and show where a document or a test disagrees with
the code; `PROJECT.json` quotes the lines. In each the code's behaviour is safe
for the buyers. `test/batch_rollover_idempotency_check.js` also looks for
`revert("invalid batch state")` in the source, which is not there; this is a matter
of text and has no run.

Observations from the prototypes, which no document contradicts. A request to
`unlockAndRelock` for the locked block in an older round moves the lock back, after
which a quorum of a round in between unlocks it; two blocks of a height can then become
final although at most a third of the stake is byzantine. `detectDoubleSign` and
`applySlashing` verify no signature, so two attestations in an honest validator's name
slash it. `EvidencePool` takes the hash from the sender, so forged evidence under the
hash of genuine evidence keeps the genuine one out. In a ring of `gossip_node.js`
processes the gossip of one outside that dialed into it goes round for ever.
`sync_recorder_from_presale.js` throws at its first purchase (`ev.logIndex`). An
acceptor keeps a socket under a made-up name and, after the first message, under the
sender's, so it writes every broadcast to it twice and the second copy costs it score. A
file the daemon was writing when it was killed stops it for good: the state file at the
next start, the log at the next message. Evidence that comes before its validator is
known is refused for good; `GenuineEvidenceConvicts` names that and the forged hash as
the only ways it is.

## What is left

The composition of `Attestations` with `P2PSocketNode` as its network.

## Not modelled

- `stake_manager.js`: no code of the repository connects it with a registry or with
  consensus; each of its operations adds to or takes from one validator's two numbers.
- `sync_recorder_from_presale.js`, which throws before it reaches the recorder.
- Two daemons on one directory: every program gives a daemon a directory of its own.
- `clear` of the storage, which nothing calls, and the times the daemon notes.
- Of the socket peers: `stop`, lines that are not JSON, senders that name another.
- `p2p_node.js`, which makes the same connections and keeps no state; `node.js` and
  `three_node_finality.js`, which count the votes of one block once; `vrf.js`,
  `validator_keys.js` and signature helpers, which are hashes without state;
  `detectFork`, a grouping of a list.
- `network-flow`, `mini-node`, `ddc-256` and the attack scripts: they drive the functions
  above once, on fixed or random inputs, and print what they count; their weighted draw
  and their epoch of branches are those of `ValidatorSim`.
- The keeper's loop: what it reads before it calls `advanceIfEnded` only decides when
  the call comes, and the model lets it come at any time.
- Operational checks, which only read and print, and reorganisations of the chain.
