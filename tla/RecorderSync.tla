---------------------------- MODULE RecorderSync ----------------------------
(***************************************************************************)
(* The scripts that copy the presale's Purchased events into the recorder: *)
(* recorder_relayer.js, which polls block after block and never ends, and  *)
(* sync_recorder_from_txhashes.js, which works through a list once.  Both  *)
(* ask whether an event's sourceRef is recorded and, if not, send a        *)
(* transaction and wait for it.  Between any two of these steps other      *)
(* scripts, the owner and the chain go on; a call to the node may fail,    *)
(* also while a transaction is on its way; and a script may be stopped and *)
(* started again.  sync_recorder_from_presale.js is left out: it reads the *)
(* logIndex of an event, which ethers 6 calls index, and throws at its     *)
(* first purchase, before it asks or sends anything.                       *)
(***************************************************************************)
EXTENDS DDCPresaleRecorder, Functions

CONSTANTS TxIds,       \* purchases, named by their txId
          BuyerOf, DdcOf, PaidOf,   \* of each purchase
          Relayers,    \* processes that run recorder_relayer.js
          Syncs,       \* processes that run a sync script
          WalletOf,    \* the wallet of a process
          Writers,     \* arguments of setWriter
          Wired,       \* the presale records its purchases itself
          MaxBlocks,   \* bound on the blocks with purchases
          MaxFailures  \* bound on failed calls and stopped scripts

Workers == Relayers \cup Syncs

\* keccak256(txId, transactionHash, logIndex), a function of the purchase
LogRef(id) == <<"log", id>>

ASSUME SyncAssumption ==
  /\ BuyerOf \in [TxIds -> Users]
  /\ DdcOf \in [TxIds -> Nat \ {0}]
  /\ PaidOf \in [TxIds -> Nat]
  /\ Relayers \cap Syncs = {}
  /\ WalletOf \in [Workers -> Addresses]
  /\ Writers \subseteq Addresses
  /\ Wired \in BOOLEAN
  /\ SourceRefs = TxIds \cup {LogRef(id) : id \in TxIds}
  /\ \A id, other \in TxIds : other # LogRef(id)
  /\ MaxBlocks \in Nat /\ MaxFailures \in Nat

VARIABLES
  blocks,     \* the blocks with purchases, each the list of its purchases
  pc,         \* where a process is
  since,      \* the block a relayer started at
  last,       \* the last block a relayer has finished
  latest,     \* the latest block it knows
  todo,       \* the events a process still has to look at
  target,     \* the events there were when a sync script was started
  inFlight,   \* the transaction a process waits for, for the first of todo
  orphans,    \* transactions on their way that nobody waits for any more
  failures

chainVars == <<blocks, recorderVars>>
workerVars == <<pc, since, last, latest, todo, target, inFlight, orphans, failures>>
vars == <<chainVars, workerVars>>

Items(s) == {s[i] : i \in 1..Len(s)}

bought == UNION {Items(blocks[b]) : b \in 1..Len(blocks)}

TypeOK ==
  /\ RecorderTypeOK
  /\ blocks \in Seq(Seq(TxIds))
  /\ pc \in [Workers -> {"down", "poll", "block", "check", "send", "wait", "done"}]
  /\ since \in [Relayers -> 0..MaxBlocks]
  /\ last \in [Relayers -> 0..MaxBlocks]
  /\ latest \in [Relayers -> 0..MaxBlocks]
  /\ todo \in [Workers -> Seq(TxIds)]
  /\ target \in [Syncs -> SUBSET TxIds]
  /\ inFlight \in [Workers -> {"none", "pending", "ok", "reverted"}]
  /\ orphans \subseteq [wallet : Addresses, id : TxIds]
  /\ failures \in 0..MaxFailures

Init ==
  /\ RecorderInit(IF Wired THEN PRESALE ELSE RELAYER)
  /\ blocks = << >>
  /\ pc = [w \in Workers |-> "down"]
  /\ since = [r \in Relayers |-> 0]
  /\ last = [r \in Relayers |-> 0]
  /\ latest = [r \in Relayers |-> 0]
  /\ todo = [w \in Workers |-> << >>]
  /\ target = [s \in Syncs |-> {}]
  /\ inFlight = [w \in Workers |-> "none"]
  /\ orphans = {}
  /\ failures = 0

---------------------------------------------------------------------------
(* The chain *)

\* A block with purchases.  A wired presale records a purchase under its txId
\* in the same transaction; such a block holds one purchase.
MineBlock(ids) ==
  /\ Len(blocks) < MaxBlocks
  /\ Items(ids) \cap bought = {}
  /\ blocks' = Append(blocks, ids)
  /\ IF Wired
     THEN /\ Len(ids) = 1
          /\ RecordPurchase(PRESALE, BuyerOf[ids[1]], DdcOf[ids[1]], PaidOf[ids[1]], ids[1])
     ELSE UNCHANGED recorderVars
  /\ UNCHANGED workerVars

ChangeWriter(address) ==
  /\ SetWriter(address)
  /\ UNCHANGED <<blocks, workerVars>>

\* A script's call of recordPurchase: executed, or reverted
RecordLog(wallet, id) ==
  RecordPurchase(wallet, BuyerOf[id], DdcOf[id], PaidOf[id], LogRef(id))

Accepted(wallet, id) == RecordAccepted(wallet, DdcOf[id], LogRef(id))

ExecuteAwaited(w) ==
  /\ inFlight[w] = "pending"
  /\ \/ /\ RecordLog(WalletOf[w], Head(todo[w]))
        /\ inFlight' = [inFlight EXCEPT ![w] = "ok"]
     \/ /\ ~Accepted(WalletOf[w], Head(todo[w]))
        /\ inFlight' = [inFlight EXCEPT ![w] = "reverted"]
        /\ UNCHANGED recorderVars
  /\ UNCHANGED <<blocks, pc, since, last, latest, todo, target, orphans, failures>>

ExecuteOrphan(t) ==
  /\ t \in orphans
  /\ orphans' = orphans \ {t}
  /\ \/ RecordLog(t.wallet, t.id)
     \/ ~Accepted(t.wallet, t.id) /\ UNCHANGED recorderVars
  /\ UNCHANGED <<blocks, pc, since, last, latest, todo, target, inFlight, failures>>

---------------------------------------------------------------------------
(* The scripts *)

\* A transaction the process no longer waits for stays on its way
Forget(w) ==
  /\ inFlight' = [inFlight EXCEPT ![w] = "none"]
  /\ orphans' = IF inFlight[w] = "pending"
                THEN orphans \cup {[wallet |-> WalletOf[w], id |-> Head(todo[w])]}
                ELSE orphans

\* Mutant: it begins behind the latest block
StartRelayerBehind(r) ==
  /\ pc[r] = "down"
  /\ pc' = [pc EXCEPT ![r] = "poll"]
  /\ since' = [since EXCEPT ![r] = Len(blocks) + 1]
  /\ last' = [last EXCEPT ![r] = Len(blocks) + 1]
  /\ UNCHANGED <<chainVars, latest, todo, target, inFlight, orphans, failures>>

\* main of the relayer up to its loop: it begins at the latest block
StartRelayer(r) ==
  /\ pc[r] = "down"
  /\ pc' = [pc EXCEPT ![r] = "poll"]
  /\ since' = [since EXCEPT ![r] = Len(blocks)]
  /\ last' = [last EXCEPT ![r] = Len(blocks)]
  /\ UNCHANGED <<chainVars, latest, todo, target, inFlight, orphans, failures>>

\* The sync script is given a list of transactions, some of which may not be mined yet.
StartSync(s, list) ==
  /\ pc[s] \in {"down", "done"}
  /\ pc' = [pc EXCEPT ![s] = "check"]
  /\ todo' = [todo EXCEPT ![s] = list]
  /\ target' = [target EXCEPT ![s] = Items(list) \cap bought]
  /\ UNCHANGED <<chainVars, since, last, latest, inFlight, orphans, failures>>

Poll(r) ==
  /\ pc[r] = "poll"
  /\ latest' = [latest EXCEPT ![r] = Len(blocks)]
  /\ pc' = [pc EXCEPT ![r] = "block"]
  /\ UNCHANGED <<chainVars, since, last, todo, target, inFlight, orphans, failures>>

\* Mutant: the latest block is left for later
NextBlockBeforeLatest(r) ==
  /\ pc[r] = "block"
  /\ \/ /\ last[r] + 1 < latest[r]
        /\ todo' = [todo EXCEPT ![r] = blocks[last[r] + 1]]
        /\ pc' = [pc EXCEPT ![r] = "check"]
     \/ /\ last[r] + 1 >= latest[r]
        /\ pc' = [pc EXCEPT ![r] = "poll"]
        /\ UNCHANGED todo
  /\ UNCHANGED <<chainVars, since, last, latest, target, inFlight, orphans, failures>>

\* The events of the next block, if there is one up to latest
NextBlock(r) ==
  /\ pc[r] = "block"
  /\ \/ /\ last[r] < latest[r]
        /\ todo' = [todo EXCEPT ![r] = blocks[last[r] + 1]]
        /\ pc' = [pc EXCEPT ![r] = "check"]
     \/ /\ last[r] >= latest[r]
        /\ pc' = [pc EXCEPT ![r] = "poll"]
        /\ UNCHANGED todo
  /\ UNCHANGED <<chainVars, since, last, latest, target, inFlight, orphans, failures>>

\* The event is left out when its sourceRef is recorded, or when its
\* transaction has no receipt
Check(w) ==
  /\ pc[w] = "check"
  /\ todo[w] # << >>
  /\ \/ /\ Head(todo[w]) \in bought => LogRef(Head(todo[w])) \in recordedSourceRef
        /\ todo' = [todo EXCEPT ![w] = Tail(@)]
        /\ UNCHANGED pc
     \/ /\ Head(todo[w]) \in bought
        /\ LogRef(Head(todo[w])) \notin recordedSourceRef
        /\ pc' = [pc EXCEPT ![w] = "send"]
        /\ UNCHANGED todo
  /\ UNCHANGED <<chainVars, since, last, latest, target, inFlight, orphans, failures>>

\* The last event of a block, or of the list, has been dealt with
EndOfList(w) ==
  /\ pc[w] = "check"
  /\ todo[w] = << >>
  /\ IF w \in Relayers
     THEN /\ last' = [last EXCEPT ![w] = @ + 1]
          /\ pc' = [pc EXCEPT ![w] = "block"]
     ELSE /\ pc' = [pc EXCEPT ![w] = "done"]
          /\ UNCHANGED last
  /\ UNCHANGED <<chainVars, since, latest, todo, target, inFlight, orphans, failures>>

\* Mutant: a relayer goes on with the next block after an error
GiveUpBlock(w) ==
  /\ pc' = [pc EXCEPT ![w] = IF w \in Relayers THEN "poll" ELSE "down"]
  /\ last' = IF w \in Relayers /\ last[w] < latest[w] THEN [last EXCEPT ![w] = @ + 1] ELSE last
  /\ Forget(w)
  /\ UNCHANGED <<since, latest, todo, target>>

\* An exception: the relayer polls again, a sync script exits
GiveUp(w) ==
  /\ pc' = [pc EXCEPT ![w] = IF w \in Relayers THEN "poll" ELSE "down"]
  /\ Forget(w)
  /\ UNCHANGED <<since, last, latest, todo, target>>

\* Sending first simulates the call, and throws if that reverts
Send(w) ==
  /\ pc[w] = "send"
  /\ \/ /\ Accepted(WalletOf[w], Head(todo[w]))
        /\ inFlight' = [inFlight EXCEPT ![w] = "pending"]
        /\ pc' = [pc EXCEPT ![w] = "wait"]
        /\ UNCHANGED <<since, last, latest, todo, target, orphans>>
     \/ /\ ~Accepted(WalletOf[w], Head(todo[w]))
        /\ GiveUp(w)
  /\ UNCHANGED <<chainVars, failures>>

\* Mutant: a reverted transaction counts as a sent one
WaitedForAny(w) ==
  /\ pc[w] = "wait"
  /\ inFlight[w] \in {"ok", "reverted"}
  /\ todo' = [todo EXCEPT ![w] = Tail(@)]
  /\ inFlight' = [inFlight EXCEPT ![w] = "none"]
  /\ pc' = [pc EXCEPT ![w] = "check"]
  /\ UNCHANGED <<since, last, latest, target, orphans>>
  /\ UNCHANGED <<chainVars, failures>>

\* tx.wait() returns, or throws when the transaction was reverted
Waited(w) ==
  /\ pc[w] = "wait"
  /\ \/ /\ inFlight[w] = "ok"
        /\ todo' = [todo EXCEPT ![w] = Tail(@)]
        /\ inFlight' = [inFlight EXCEPT ![w] = "none"]
        /\ pc' = [pc EXCEPT ![w] = "check"]
        /\ UNCHANGED <<since, last, latest, target, orphans>>
     \/ /\ inFlight[w] = "reverted"
        /\ GiveUp(w)
  /\ UNCHANGED <<chainVars, failures>>

\* A call to the node fails
CallFails(w) ==
  /\ pc[w] \in {"block", "check", "send", "wait"}
  /\ failures < MaxFailures
  /\ failures' = failures + 1
  /\ GiveUp(w)
  /\ UNCHANGED chainVars

\* The script is stopped
Stop(w) ==
  /\ pc[w] \notin {"down", "done"}
  /\ failures < MaxFailures
  /\ failures' = failures + 1
  /\ pc' = [pc EXCEPT ![w] = "down"]
  /\ Forget(w)
  /\ UNCHANGED <<chainVars, since, last, latest, todo, target>>

---------------------------------------------------------------------------

\* The lists of up to two of the given purchases, none twice
ListsOf(ids) == {<<id>> : id \in ids} \cup {<<p[1], p[2]>> : p \in {q \in ids \X ids : q[1] # q[2]}}

Work(w) == Check(w) \/ EndOfList(w) \/ Send(w) \/ Waited(w)

Next ==
  \/ \E ids \in ListsOf(TxIds) : MineBlock(ids)
  \/ \E a \in Writers : ChangeWriter(a)
  \/ \E w \in Workers : ExecuteAwaited(w) \/ Work(w) \/ CallFails(w) \/ Stop(w)
  \/ \E t \in orphans : ExecuteOrphan(t)
  \/ \E r \in Relayers : StartRelayer(r) \/ Poll(r) \/ NextBlock(r)
  \/ \E s \in Syncs, list \in ListsOf(TxIds) : StartSync(s, list)

Spec == Init /\ [][Next]_vars

\* A running relayer goes on, and a transaction that was sent is executed.
\* Nothing is assumed of who starts and stops a script, nor of purchases.
Fairness ==
  /\ \A r \in Relayers : WF_vars(Work(r) \/ Poll(r) \/ NextBlock(r))
  /\ \A w \in Workers : WF_vars(ExecuteAwaited(w))

FairSpec == Spec /\ Fairness

---------------------------------------------------------------------------
(* What must hold *)

recorded == {id \in TxIds : LogRef(id) \in recordedSourceRef}

\* A running relayer leaves nothing behind: what was bought in the blocks it
\* has finished is recorded, whatever failed on the way.
RelayerSkipsNothing ==
  \A r \in Relayers : pc[r] # "down" =>
    \A b \in since[r]+1..last[r] : Items(blocks[b]) \subseteq recorded

\* A sync script that ends without an exception has recorded its whole list.
SyncIsComplete ==
  \A s \in Syncs : pc[s] = "done" => target[s] \subseteq recorded

\* With a presale that does not record by itself, the recorder is a mirror of
\* the purchases, however many scripts run at once, fail and start again.
Mirror == INSTANCE PurchaseMirror
            WITH Purchases <- TxIds,
                 mirror <- [i \in 1..Len(globalPurchases) |-> globalPurchases[i].sourceRef[2]]

IsMirror == Mirror!MirrorSpec

\* Every purchase in a block a running relayer still has before it is recorded
\* in the end, unless the relayer is stopped.
RelayerCatchesUp ==
  \A r \in Relayers, id \in TxIds :
    (pc[r] # "down" /\ \E b \in last[r]+1..Len(blocks) : id \in Items(blocks[b]))
      ~> (id \in recorded \/ pc[r] = "down")

\* ALERT_MATRIX.md: "Recorder desync | Stop relayer, rebuild from tx hashes":
\* after a rebuild the recorder's totals are those of the presale.
RebuildRestoresMirror ==
  \A s \in Syncs : pc[s] = "done" /\ target[s] = bought =>
    \A u \in Users :
      userTotals[u].ddc = SumFunctionOnSet(DdcOf, {id \in bought : BuyerOf[id] = u})
=============================================================================
