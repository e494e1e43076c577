------------------------- MODULE RecorderSyncProofs -------------------------
(***************************************************************************)
(* The scripts that copy the presale's purchases into the recorder, for    *)
(* any number of relayers, sync scripts, blocks and failures: a relayer    *)
(* passes nothing by, a sync script that ends has recorded its list, and   *)
(* with a presale that does not record by itself the recorder implements   *)
(* PurchaseMirror.                                                         *)
(***************************************************************************)
EXTENDS RecorderSync, TLAPS

\* The recorder lists a purchase under its LogRef only when it was made, and lists
\* nothing else unless the presale itself does.
ListInv ==
  /\ recorded \subseteq bought
  /\ {globalPurchases[i].sourceRef : i \in 1..Len(globalPurchases)} = recordedSourceRef
  /\ ~Wired => \A ref \in recordedSourceRef : \E id \in recorded : ref = LogRef(id)
  /\ \A t \in orphans : t.id \in bought

\* A process that sends or waits does so for the first purchase of its list.
WorkerInv(w) ==
  /\ pc[w] \in {"send", "wait"} => todo[w] # << >> /\ Head(todo[w]) \in bought
  /\ inFlight[w] # "none" => pc[w] = "wait"
  /\ inFlight[w] = "ok" => Head(todo[w]) \in recorded

\* What a relayer has still to do is all there is left of the block it is at.
RelayerInv(r) ==
  /\ last[r] <= Len(blocks) /\ latest[r] <= Len(blocks)
  /\ pc[r] \in {"check", "send", "wait"} =>
       /\ last[r] < latest[r]
       /\ Items(blocks[last[r] + 1]) \subseteq recorded \cup Items(todo[r])
  /\ pc[r] # "down" => \A b \in since[r]+1..last[r] : Items(blocks[b]) \subseteq recorded

SyncScriptInv(s) ==
  /\ target[s] \subseteq bought
  /\ pc[s] \in {"check", "send", "wait"} => target[s] \subseteq recorded \cup Items(todo[s])
  /\ pc[s] = "done" => target[s] \subseteq recorded

ProcessInv ==
  /\ \A w \in Workers : WorkerInv(w)
  /\ \A r \in Relayers : RelayerInv(r)
  /\ \A s \in Syncs : SyncScriptInv(s)

SyncInv == TypeOK /\ Len(blocks) <= MaxBlocks /\ ListInv /\ ProcessInv

LEMMA BoundsAreNumbers ==
  MaxBlocks \in Nat /\ MaxFailures \in Nat /\ (\A w \in Workers : WalletOf[w] \in Addresses)
BY SyncAssumption

LEMMA PurchasesAreTyped ==
  ASSUME NEW id \in TxIds
  PROVE  /\ BuyerOf[id] \in Users /\ DdcOf[id] \in Nat /\ PaidOf[id] \in Nat
         /\ id \in SourceRefs /\ LogRef(id) \in SourceRefs
         /\ \A other \in TxIds : id # LogRef(other)
BY SyncAssumption

LEMMA LogRefIsInjective ==
  ASSUME NEW id, NEW other, LogRef(id) = LogRef(other)
  PROVE  id = other
BY DEF LogRef

\* A list is its first purchase and the rest.
LEMMA ItemsOfTail ==
  ASSUME NEW s \in Seq(TxIds), s # << >>
  PROVE  /\ Head(s) \in TxIds /\ Tail(s) \in Seq(TxIds)
         /\ Items(s) = {Head(s)} \cup Items(Tail(s))
<1>1. /\ Head(s) \in TxIds /\ Tail(s) \in Seq(TxIds)
      /\ Len(Tail(s)) = Len(s) - 1 /\ Len(s) \in Nat /\ Len(s) > 0
      /\ Head(s) = s[1] /\ \A i \in 1..Len(Tail(s)) : Tail(s)[i] = s[i + 1]
  OBVIOUS
<1>2. ASSUME NEW x \in Items(s) PROVE x \in {Head(s)} \cup Items(Tail(s))
  <2>1. PICK i \in 1..Len(s) : x = s[i] BY <1>2 DEF Items
  <2>2. CASE i = 1 BY <2>1, <2>2, <1>1
  <2>3. CASE i # 1
    <3>1. i - 1 \in 1..Len(Tail(s)) /\ Tail(s)[i - 1] = s[i] BY <2>1, <2>3, <1>1
    <3>2. QED BY <2>1, <3>1 DEF Items
  <2>4. QED BY <2>2, <2>3
<1>3. Head(s) \in Items(s) BY <1>1 DEF Items
<1>4. ASSUME NEW x \in Items(Tail(s)) PROVE x \in Items(s)
  <2>1. PICK i \in 1..Len(Tail(s)) : x = Tail(s)[i] BY <1>4 DEF Items
  <2>2. i + 1 \in 1..Len(s) /\ s[i + 1] = x BY <2>1, <1>1
  <2>3. QED BY <2>2 DEF Items
<1>5. QED BY <1>1, <1>2, <1>3, <1>4

LEMMA EmptyList == Items(<< >>) = {}
BY DEF Items

\* What a call of the recorder that is executed changes.
LEMMA RecordedTypes ==
  ASSUME RecorderTypeOK, NEW caller, NEW user \in Users, NEW ddc \in Nat, NEW paid \in Nat,
         NEW ref \in SourceRefs, RecordPurchase(caller, user, ddc, paid, ref)
  PROVE  /\ RecorderTypeOK'
         /\ ref \notin recordedSourceRef /\ recordedSourceRef' = recordedSourceRef \cup {ref}
         /\ Len(globalPurchases') = Len(globalPurchases) + 1 /\ Len(globalPurchases) \in Nat
         /\ \A i \in 1..Len(globalPurchases) : globalPurchases'[i] = globalPurchases[i]
         /\ globalPurchases'[Len(globalPurchases) + 1].sourceRef = ref
<1> DEFINE entry == [ddcAmount |-> ddc, payAmount |-> paid, sourceRef |-> ref]
           totals == AddToTotals(userTotals[user], ddc, paid)
<1>1. entry \in RecorderEntry /\ entry.sourceRef = ref BY DEF RecorderEntry
<1>2. /\ ref \notin recordedSourceRef /\ recordedSourceRef' = recordedSourceRef \cup {ref}
      /\ globalPurchases' = Append(globalPurchases, entry)
      /\ recordedPurchases' = [recordedPurchases EXCEPT ![user] = Append(@, entry)]
      /\ userTotals' = [userTotals EXCEPT ![user] = totals] /\ writer' = writer
  BY DEF RecordPurchase, RecordAccepted
<1>3. /\ recordedPurchases \in [Users -> Seq(RecorderEntry)]
      /\ globalPurchases \in Seq(RecorderEntry) /\ userTotals \in [Users -> Totals]
  BY DEF RecorderTypeOK
<1>4. totals \in Totals
  <2>1. userTotals[user] \in Totals BY <1>3
  <2>2. QED BY <2>1 DEF Totals, AddToTotals
<1> HIDE DEF entry, totals
<1>5. /\ globalPurchases' \in Seq(RecorderEntry)
      /\ recordedPurchases' \in [Users -> Seq(RecorderEntry)]
  <2>1. \A q \in Seq(RecorderEntry) : Append(q, entry) \in Seq(RecorderEntry) BY <1>1
  <2>2. QED BY <2>1, <1>2, <1>3
<1>6. userTotals' \in [Users -> Totals] BY <1>2, <1>3, <1>4
<1>7. RecorderTypeOK' BY <1>2, <1>5, <1>6 DEF RecorderTypeOK
<1>8. QED BY <1>1, <1>2, <1>3, <1>7

\* The list agrees with the references after such a call.
LEMMA RecordedList ==
  ASSUME SyncInv, NEW caller, NEW id \in TxIds, NEW ref \in {id, LogRef(id)},
         RecordPurchase(caller, BuyerOf[id], DdcOf[id], PaidOf[id], ref)
  PROVE  /\ RecorderTypeOK'
         /\ {globalPurchases'[i].sourceRef : i \in 1..Len(globalPurchases')} = recordedSourceRef'
         /\ recordedSourceRef' = recordedSourceRef \cup {ref} /\ ref \notin recordedSourceRef
         /\ ref = LogRef(id) => recorded' = recorded \cup {id}
         /\ ref = id => recorded' = recorded
<1>1. RecorderTypeOK /\ ref \in SourceRefs BY PurchasesAreTyped DEF SyncInv, TypeOK
<1>2. /\ RecorderTypeOK'
      /\ recordedSourceRef' = recordedSourceRef \cup {ref} /\ ref \notin recordedSourceRef
      /\ Len(globalPurchases') = Len(globalPurchases) + 1 /\ Len(globalPurchases) \in Nat
      /\ \A i \in 1..Len(globalPurchases) : globalPurchases'[i] = globalPurchases[i]
      /\ globalPurchases'[Len(globalPurchases) + 1].sourceRef = ref
  BY <1>1, PurchasesAreTyped, RecordedTypes
<1>3. {globalPurchases'[i].sourceRef : i \in 1..Len(globalPurchases')} = recordedSourceRef'
  <2>1. {globalPurchases[i].sourceRef : i \in 1..Len(globalPurchases)} = recordedSourceRef
    BY DEF SyncInv, ListInv
  <2>2. ASSUME NEW i \in 1..Len(globalPurchases')
        PROVE  globalPurchases'[i].sourceRef \in recordedSourceRef'
    <3>1. CASE i \in 1..Len(globalPurchases) BY <3>1, <2>1, <1>2
    <3>2. CASE i = Len(globalPurchases) + 1 BY <3>2, <1>2
    <3>3. QED BY <3>1, <3>2, <1>2
  <2>3. ASSUME NEW x \in recordedSourceRef'
        PROVE  \E i \in 1..Len(globalPurchases') : x = globalPurchases'[i].sourceRef
    <3>1. CASE x = ref
      <4>1. Len(globalPurchases) + 1 \in 1..Len(globalPurchases') BY <1>2
      <4>2. QED BY <3>1, <4>1, <1>2
    <3>2. CASE x \in recordedSourceRef
      <4>1. PICK i \in 1..Len(globalPurchases) : x = globalPurchases[i].sourceRef BY <3>2, <2>1
      <4>2. i \in 1..Len(globalPurchases') /\ globalPurchases'[i] = globalPurchases[i]
        BY <1>2
      <4>3. QED BY <4>1, <4>2
    <3>3. QED BY <2>3, <3>1, <3>2, <1>2
  <2>4. QED BY <2>2, <2>3
<1>4. ref = LogRef(id) => recorded' = recorded \cup {id}
  BY <1>2, LogRefIsInjective DEF recorded
<1>5. ref = id => recorded' = recorded BY <1>2, PurchasesAreTyped DEF recorded
<1>6. QED BY <1>2, <1>3, <1>4, <1>5

---------------------------------------------------------------------------
(* The chain *)

\* The chain only grows, and what a process waits for gets executed.
ChainGrows ==
  /\ recorded \subseteq recorded' /\ bought \subseteq bought'
  /\ Len(blocks') \in Nat /\ Len(blocks) \in Nat /\ Len(blocks) <= Len(blocks')
  /\ \A b \in 1..Len(blocks) : blocks'[b] = blocks[b]
  /\ UNCHANGED <<pc, since, last, latest, todo, target>>
  /\ \A w \in Workers :
       /\ inFlight'[w] # "none" => inFlight[w] # "none"
       /\ inFlight'[w] = "ok" => inFlight[w] = "ok" \/ Head(todo[w]) \in recorded'

LEMMA ChainPreserves ==
  ASSUME SyncInv, ChainGrows
  PROVE  ProcessInv'
<1>1. ASSUME NEW w \in Workers PROVE WorkerInv(w)'
  BY DEF SyncInv, ProcessInv, WorkerInv, ChainGrows
<1>2. ASSUME NEW r \in Relayers PROVE RelayerInv(r)'
  <2>1. /\ last[r] \in Nat /\ latest[r] \in Nat /\ since[r] \in Nat /\ Len(blocks) \in Nat
    BY BoundsAreNumbers DEF SyncInv, TypeOK, ChainGrows
  <2>2. RelayerInv(r) BY DEF SyncInv, ProcessInv
  <2>3. last'[r] = last[r] /\ latest'[r] = latest[r] /\ since'[r] = since[r]
        /\ pc' = pc /\ todo' = todo
    BY DEF ChainGrows
  <2>4. last[r] <= Len(blocks') /\ latest[r] <= Len(blocks')
    BY <2>1, <2>2 DEF RelayerInv, ChainGrows
  <2>5. pc[r] \in {"check", "send", "wait"} =>
          /\ last[r] < latest[r]
          /\ Items(blocks'[last[r] + 1]) \subseteq recorded' \cup Items(todo[r])
    <3>1. SUFFICES ASSUME pc[r] \in {"check", "send", "wait"}
                   PROVE  /\ last[r] < latest[r]
                          /\ Items(blocks'[last[r] + 1]) \subseteq recorded' \cup Items(todo[r])
      OBVIOUS
    <3>2. /\ last[r] < latest[r] /\ last[r] + 1 \in 1..Len(blocks)
          /\ Items(blocks[last[r] + 1]) \subseteq recorded \cup Items(todo[r])
      BY <2>1, <2>2, <3>1 DEF RelayerInv
    <3>3. blocks'[last[r] + 1] = blocks[last[r] + 1] /\ recorded \subseteq recorded'
      BY <3>2 DEF ChainGrows
    <3>4. QED BY <3>2, <3>3
  <2>6. pc[r] # "down" => \A b \in since[r]+1..last[r] : Items(blocks'[b]) \subseteq recorded'
    <3>1. SUFFICES ASSUME pc[r] # "down", NEW b \in since[r]+1..last[r]
                   PROVE  Items(blocks'[b]) \subseteq recorded'
      OBVIOUS
    <3>2. b \in 1..Len(blocks) BY <2>1, <2>2 DEF RelayerInv
    <3>3. Items(blocks[b]) \subseteq recorded BY <2>2, <3>1 DEF RelayerInv
    <3>4. QED BY <3>2, <3>3 DEF ChainGrows
  <2>7. QED BY <2>3, <2>4, <2>5, <2>6 DEF RelayerInv
<1>3. ASSUME NEW s \in Syncs PROVE SyncScriptInv(s)'
  BY DEF SyncInv, ProcessInv, SyncScriptInv, ChainGrows
<1>4. QED BY <1>1, <1>2, <1>3 DEF ProcessInv

LEMMA BlocksType ==
  ASSUME SyncInv
  PROVE  blocks \in Seq(Seq(TxIds)) /\ Len(blocks) \in Nat
BY DEF SyncInv, TypeOK

\* What leaves the list of blocks alone.
LEMMA SameBlocks ==
  ASSUME SyncInv, blocks' = blocks
  PROVE  /\ bought' = bought /\ Len(blocks') \in Nat /\ Len(blocks) \in Nat
         /\ Len(blocks) <= Len(blocks') /\ \A b \in 1..Len(blocks) : blocks'[b] = blocks[b]
BY BlocksType DEF bought, Items

LEMMA MineBlockPreserves ==
  ASSUME SyncInv, NEW ids \in ListsOf(TxIds), MineBlock(ids)
  PROVE  SyncInv'
<1>1. ids \in Seq(TxIds) /\ ids # << >> /\ ids[1] \in TxIds
  <2>1. CASE \E id \in TxIds : ids = <<id>> BY <2>1
  <2>2. CASE \E q \in TxIds \X TxIds : ids = <<q[1], q[2]>> BY <2>2
  <2>3. QED BY <2>1, <2>2 DEF ListsOf
<1>2. /\ blocks' = Append(blocks, ids) /\ Len(blocks) < MaxBlocks /\ UNCHANGED workerVars
      /\ IF Wired
         THEN RecordPurchase(PRESALE, BuyerOf[ids[1]], DdcOf[ids[1]], PaidOf[ids[1]], ids[1])
         ELSE UNCHANGED recorderVars
  BY DEF MineBlock
<1>3. /\ blocks' \in Seq(Seq(TxIds)) /\ Len(blocks') = Len(blocks) + 1 /\ Len(blocks) \in Nat
      /\ \A b \in 1..Len(blocks) : blocks'[b] = blocks[b]
      /\ blocks'[Len(blocks) + 1] = ids
  BY <1>1, <1>2, BlocksType
<1>4. bought \subseteq bought'
  <2>1. SUFFICES ASSUME NEW x \in bought PROVE x \in bought' OBVIOUS
  <2>2. PICK b \in 1..Len(blocks) : x \in Items(blocks[b]) BY <2>1 DEF bought
  <2>3. b \in 1..Len(blocks') /\ x \in Items(blocks'[b]) BY <2>2, <1>3
  <2>4. QED BY <2>3 DEF bought
<1>5. /\ RecorderTypeOK' /\ recorded' = recorded
      /\ {globalPurchases'[i].sourceRef : i \in 1..Len(globalPurchases')} = recordedSourceRef'
      /\ ~Wired => recordedSourceRef' = recordedSourceRef
  <2>1. CASE Wired BY <1>1, <1>2, <2>1, RecordedList
  <2>2. CASE ~Wired
    BY <1>2, <2>2 DEF recorderVars, RecorderTypeOK, SyncInv, TypeOK, ListInv, recorded
  <2>3. QED BY <2>1, <2>2
<1>6. TypeOK' BY <1>2, <1>3, <1>5 DEF SyncInv, TypeOK, workerVars
<1>7. ListInv' BY <1>2, <1>4, <1>5 DEF SyncInv, ListInv, workerVars
<1>8. ChainGrows BY <1>2, <1>3, <1>4, <1>5 DEF ChainGrows, workerVars
<1>9. Len(blocks') <= MaxBlocks BY <1>2, <1>3, BoundsAreNumbers
<1>10. QED BY <1>6, <1>7, <1>8, <1>9, ChainPreserves DEF SyncInv

LEMMA ChangeWriterPreserves ==
  ASSUME SyncInv, NEW a \in Writers, ChangeWriter(a)
  PROVE  SyncInv'
<1>1. /\ writer' = a /\ a \in Addresses /\ blocks' = blocks /\ UNCHANGED workerVars
      /\ UNCHANGED <<recordedSourceRef, recordedPurchases, globalPurchases, userTotals>>
  BY SyncAssumption DEF ChangeWriter, SetWriter
<1>2. TypeOK' BY <1>1 DEF SyncInv, TypeOK, RecorderTypeOK, workerVars
<1>3. bought' = bought /\ recorded' = recorded BY <1>1, SameBlocks DEF recorded
<1>4. ListInv' BY <1>1, <1>3 DEF SyncInv, ListInv, workerVars
<1>5. ChainGrows BY <1>1, <1>3, SameBlocks DEF ChainGrows, workerVars
<1>6. Len(blocks') <= MaxBlocks BY <1>1 DEF SyncInv
<1>7. QED BY <1>2, <1>4, <1>5, <1>6, ChainPreserves DEF SyncInv

\* A transaction is executed that records a purchase.
LEMMA ExecutedList ==
  ASSUME SyncInv, NEW wallet, NEW id \in bought, id \in TxIds, RecordLog(wallet, id),
         blocks' = blocks, orphans' \subseteq orphans
  PROVE  /\ RecorderTypeOK' /\ ListInv' /\ bought' = bought
         /\ recorded' = recorded \cup {id}
<1>1. /\ RecorderTypeOK'
      /\ {globalPurchases'[i].sourceRef : i \in 1..Len(globalPurchases')} = recordedSourceRef'
      /\ recordedSourceRef' = recordedSourceRef \cup {LogRef(id)}
      /\ recorded' = recorded \cup {id}
  BY RecordedList DEF RecordLog
<1>2. bought' = bought BY SameBlocks
<1>3. ListInv' BY <1>1, <1>2 DEF SyncInv, ListInv
<1>4. QED BY <1>1, <1>2, <1>3

LEMMA ExecuteAwaitedPreserves ==
  ASSUME SyncInv, NEW w \in Workers, ExecuteAwaited(w)
  PROVE  SyncInv'
<1>1. /\ inFlight[w] = "pending" /\ blocks' = blocks
      /\ UNCHANGED <<pc, since, last, latest, todo, target, orphans, failures>>
      /\ Len(blocks') <= MaxBlocks
  BY DEF ExecuteAwaited, SyncInv
<1>2. /\ todo[w] # << >> /\ Head(todo[w]) \in bought /\ todo[w] \in Seq(TxIds)
      /\ Head(todo[w]) \in TxIds
  <2>1. WorkerInv(w) /\ todo[w] \in Seq(TxIds) BY DEF SyncInv, ProcessInv, TypeOK
  <2>2. todo[w] # << >> /\ Head(todo[w]) \in bought BY <1>1, <2>1 DEF WorkerInv
  <2>3. QED BY <2>1, <2>2, ItemsOfTail
<1>3. CASE /\ RecordLog(WalletOf[w], Head(todo[w]))
           /\ inFlight' = [inFlight EXCEPT ![w] = "ok"]
  <2>1. /\ RecorderTypeOK' /\ ListInv' /\ bought' = bought
        /\ recorded' = recorded \cup {Head(todo[w])}
    BY <1>1, <1>2, <1>3, ExecutedList
  <2>2. TypeOK' BY <1>1, <1>3, <2>1 DEF SyncInv, TypeOK
  <2>3. ChainGrows BY <1>1, <1>3, <2>1, SameBlocks DEF ChainGrows, SyncInv, TypeOK
  <2>4. QED BY <1>1, <2>1, <2>2, <2>3, ChainPreserves DEF SyncInv
<1>4. CASE /\ inFlight' = [inFlight EXCEPT ![w] = "reverted"] /\ UNCHANGED recorderVars
  <2>1. bought' = bought /\ recorded' = recorded
    BY <1>1, <1>4, SameBlocks DEF recorded, recorderVars
  <2>2. TypeOK' BY <1>1, <1>4 DEF SyncInv, TypeOK, RecorderTypeOK, recorderVars
  <2>3. ListInv' BY <1>1, <1>4, <2>1 DEF SyncInv, ListInv, recorderVars
  <2>4. ChainGrows BY <1>1, <1>4, <2>1, SameBlocks DEF ChainGrows, SyncInv, TypeOK
  <2>5. QED BY <1>1, <2>2, <2>3, <2>4, ChainPreserves DEF SyncInv
<1>5. QED BY <1>3, <1>4 DEF ExecuteAwaited

LEMMA ExecuteOrphanPreserves ==
  ASSUME SyncInv, NEW t \in orphans, ExecuteOrphan(t)
  PROVE  SyncInv'
<1>1. /\ orphans' = orphans \ {t} /\ blocks' = blocks
      /\ UNCHANGED <<pc, since, last, latest, todo, target, inFlight, failures>>
      /\ Len(blocks') <= MaxBlocks
  BY DEF ExecuteOrphan, SyncInv
<1>2. t.id \in bought /\ t.id \in TxIds BY DEF SyncInv, ListInv, TypeOK
<1>3. CASE RecordLog(t.wallet, t.id)
  <2>1. RecorderTypeOK' /\ ListInv' /\ bought' = bought /\ recorded' = recorded \cup {t.id}
    BY <1>1, <1>2, <1>3, ExecutedList
  <2>2. TypeOK' BY <1>1, <2>1 DEF SyncInv, TypeOK
  <2>3. ChainGrows BY <1>1, <2>1, SameBlocks DEF ChainGrows
  <2>4. QED BY <1>1, <2>1, <2>2, <2>3, ChainPreserves DEF SyncInv
<1>4. CASE UNCHANGED recorderVars
  <2>1. bought' = bought /\ recorded' = recorded
    BY <1>1, <1>4, SameBlocks DEF recorded, recorderVars
  <2>2. TypeOK' BY <1>1, <1>4 DEF SyncInv, TypeOK, RecorderTypeOK, recorderVars
  <2>3. ListInv' BY <1>1, <1>4, <2>1 DEF SyncInv, ListInv, recorderVars
  <2>4. ChainGrows BY <1>1, <1>4, <2>1, SameBlocks DEF ChainGrows
  <2>5. QED BY <1>1, <2>2, <2>3, <2>4, ChainPreserves DEF SyncInv
<1>5. QED BY <1>3, <1>4 DEF ExecuteOrphan

---------------------------------------------------------------------------
(* The scripts *)

\* A step of one process leaves the chain and the others alone.
OnlyMoves(w) ==
  /\ UNCHANGED chainVars
  /\ \A x \in Workers \ {w} :
       pc'[x] = pc[x] /\ todo'[x] = todo[x] /\ inFlight'[x] = inFlight[x]
  /\ \A x \in Relayers \ {w} :
       since'[x] = since[x] /\ last'[x] = last[x] /\ latest'[x] = latest[x]
  /\ \A x \in Syncs \ {w} : target'[x] = target[x]

LEMMA SameChain ==
  ASSUME SyncInv, UNCHANGED chainVars
  PROVE  /\ blocks' = blocks /\ bought' = bought /\ recorded' = recorded
         /\ recordedSourceRef' = recordedSourceRef /\ globalPurchases' = globalPurchases
         /\ RecorderTypeOK' /\ Len(blocks) \in Nat
<1>1. blocks' = blocks /\ UNCHANGED recorderVars BY DEF chainVars
<1>2. bought' = bought /\ Len(blocks) \in Nat BY <1>1, SameBlocks
<1>3. RecorderTypeOK' BY <1>1 DEF SyncInv, TypeOK, RecorderTypeOK, recorderVars
<1>4. QED BY <1>1, <1>2, <1>3 DEF recorderVars, recorded

LEMMA MoverPreserves ==
  ASSUME SyncInv, NEW w \in Workers, OnlyMoves(w), TypeOK',
         \A t \in orphans' : t.id \in bought,
         WorkerInv(w)', w \in Relayers => RelayerInv(w)', w \in Syncs => SyncScriptInv(w)'
  PROVE  SyncInv'
<1>1. /\ blocks' = blocks /\ bought' = bought /\ recorded' = recorded
      /\ recordedSourceRef' = recordedSourceRef /\ globalPurchases' = globalPurchases
  BY SameChain DEF OnlyMoves
<1>2. ListInv' BY <1>1 DEF SyncInv, ListInv
<1>3. ASSUME NEW x \in Workers \ {w} PROVE WorkerInv(x)'
  BY <1>1 DEF SyncInv, ProcessInv, WorkerInv, OnlyMoves
<1>4. ASSUME NEW x \in Relayers \ {w} PROVE RelayerInv(x)'
  <2>1. x \in Workers \ {w} BY DEF Workers
  <2>2. RelayerInv(x) BY DEF SyncInv, ProcessInv
  <2>3. QED BY <1>1, <2>1, <2>2 DEF RelayerInv, OnlyMoves
<1>5. ASSUME NEW x \in Syncs \ {w} PROVE SyncScriptInv(x)'
  <2>1. x \in Workers \ {w} BY DEF Workers
  <2>2. SyncScriptInv(x) BY DEF SyncInv, ProcessInv
  <2>3. QED BY <1>1, <2>1, <2>2 DEF SyncScriptInv, OnlyMoves
<1>6. ProcessInv' BY <1>3, <1>4, <1>5 DEF ProcessInv
<1>7. Len(blocks') <= MaxBlocks BY <1>1 DEF SyncInv
<1>8. QED BY <1>2, <1>6, <1>7 DEF SyncInv

\* What is known of a process, whichever it is.
LEMMA ProcessFacts ==
  ASSUME SyncInv, NEW w \in Workers
  PROVE  /\ WorkerInv(w) /\ todo[w] \in Seq(TxIds)
         /\ w \in Relayers =>
              /\ RelayerInv(w) /\ w \notin Syncs
              /\ last[w] \in Nat /\ latest[w] \in Nat /\ since[w] \in Nat
              /\ last[w] \in 0..MaxBlocks
         /\ w \in Syncs => SyncScriptInv(w) /\ w \notin Relayers
         /\ w \notin Relayers => w \in Syncs
         /\ Len(blocks) \in Nat /\ Len(blocks) <= MaxBlocks
<1>1. WorkerInv(w) /\ todo[w] \in Seq(TxIds) BY DEF SyncInv, ProcessInv, TypeOK
<1>2. Relayers \cap Syncs = {} BY SyncAssumption
<1>3. w \in Relayers => /\ last[w] \in 0..MaxBlocks /\ latest[w] \in 0..MaxBlocks
                        /\ since[w] \in 0..MaxBlocks
  BY DEF SyncInv, TypeOK
<1>4. QED BY <1>1, <1>2, <1>3, BoundsAreNumbers, BlocksType DEF SyncInv, ProcessInv, Workers

\* The purchases of a block were made.
LEMMA BlockWasBought ==
  ASSUME SyncInv, NEW b \in 1..Len(blocks)
  PROVE  Items(blocks[b]) \subseteq bought
BY DEF bought

LEMMA StartRelayerPreserves ==
  ASSUME SyncInv, NEW r \in Relayers, StartRelayer(r)
  PROVE  SyncInv'
<1>1. r \in Workers BY DEF Workers
<1>2. /\ pc[r] = "down" /\ pc' = [pc EXCEPT ![r] = "poll"]
      /\ since' = [since EXCEPT ![r] = Len(blocks)]
      /\ last' = [last EXCEPT ![r] = Len(blocks)]
      /\ UNCHANGED <<chainVars, latest, todo, target, inFlight, orphans, failures>>
  BY DEF StartRelayer
<1>3. Len(blocks) \in 0..MaxBlocks BY <1>1, ProcessFacts, BoundsAreNumbers
<1>4. TypeOK' BY <1>1, <1>2, <1>3, SameChain DEF SyncInv, TypeOK
<1>5. OnlyMoves(r) BY <1>2 DEF OnlyMoves, SyncInv, TypeOK
<1>6. pc'[r] = "poll" /\ since'[r] = Len(blocks) /\ last'[r] = Len(blocks)
  BY <1>1, <1>2 DEF SyncInv, TypeOK
<1>7. WorkerInv(r)' BY <1>1, <1>2, <1>6, ProcessFacts DEF WorkerInv
<1>8. RelayerInv(r)' BY <1>1, <1>2, <1>3, <1>6, ProcessFacts, SameChain DEF RelayerInv
<1>9. \A t \in orphans' : t.id \in bought BY <1>2 DEF SyncInv, ListInv
<1>10. QED BY <1>1, <1>4, <1>5, <1>7, <1>8, <1>9, MoverPreserves, ProcessFacts

LEMMA StartSyncPreserves ==
  ASSUME SyncInv, NEW s \in Syncs, NEW list \in ListsOf(TxIds), StartSync(s, list)
  PROVE  SyncInv'
<1>1. s \in Workers BY DEF Workers
<1>2. list \in Seq(TxIds) /\ Items(list) \subseteq TxIds
  <2>1. CASE \E id \in TxIds : list = <<id>> BY <2>1 DEF Items
  <2>2. CASE \E q \in TxIds \X TxIds : list = <<q[1], q[2]>> BY <2>2 DEF Items
  <2>3. QED BY <2>1, <2>2 DEF ListsOf
<1>3. /\ pc[s] \in {"down", "done"} /\ pc' = [pc EXCEPT ![s] = "check"]
      /\ todo' = [todo EXCEPT ![s] = list]
      /\ target' = [target EXCEPT ![s] = Items(list) \cap bought]
      /\ UNCHANGED <<chainVars, since, last, latest, inFlight, orphans, failures>>
  BY DEF StartSync
<1>4. TypeOK'
  <2>1. target' \in [Syncs -> SUBSET TxIds] BY <1>2, <1>3 DEF SyncInv, TypeOK
  <2>2. todo' \in [Workers -> Seq(TxIds)] BY <1>2, <1>3 DEF SyncInv, TypeOK
  <2>3. pc' \in [Workers -> {"down", "poll", "block", "check", "send", "wait", "done"}]
    BY <1>3 DEF SyncInv, TypeOK
  <2>4. QED BY <1>3, <2>1, <2>2, <2>3, SameChain DEF SyncInv, TypeOK
<1>5. OnlyMoves(s) BY <1>3 DEF OnlyMoves, SyncInv, TypeOK
<1>6. pc'[s] = "check" /\ todo'[s] = list /\ target'[s] = Items(list) \cap bought
  BY <1>1, <1>3 DEF SyncInv, TypeOK
<1>7. WorkerInv(s)' BY <1>1, <1>3, <1>6, ProcessFacts DEF WorkerInv
<1>8. SyncScriptInv(s)' BY <1>3, <1>6, SameChain DEF SyncScriptInv
<1>9. \A t \in orphans' : t.id \in bought BY <1>3 DEF SyncInv, ListInv
<1>10. QED BY <1>1, <1>4, <1>5, <1>7, <1>8, <1>9, MoverPreserves, ProcessFacts

LEMMA PollPreserves ==
  ASSUME SyncInv, NEW r \in Relayers, Poll(r)
  PROVE  SyncInv'
<1>1. r \in Workers BY DEF Workers
<1>2. /\ pc[r] = "poll" /\ pc' = [pc EXCEPT ![r] = "block"]
      /\ latest' = [latest EXCEPT ![r] = Len(blocks)]
      /\ UNCHANGED <<chainVars, since, last, todo, target, inFlight, orphans, failures>>
  BY DEF Poll
<1>3. Len(blocks) \in 0..MaxBlocks BY <1>1, ProcessFacts, BoundsAreNumbers
<1>4. TypeOK' BY <1>1, <1>2, <1>3, SameChain DEF SyncInv, TypeOK
<1>5. OnlyMoves(r) BY <1>2 DEF OnlyMoves, SyncInv, TypeOK
<1>6. pc'[r] = "block" /\ latest'[r] = Len(blocks) BY <1>1, <1>2 DEF SyncInv, TypeOK
<1>7. WorkerInv(r)' BY <1>1, <1>2, <1>6, ProcessFacts DEF WorkerInv
<1>8. RelayerInv(r)' BY <1>1, <1>2, <1>3, <1>6, ProcessFacts, SameChain DEF RelayerInv
<1>9. \A t \in orphans' : t.id \in bought BY <1>2 DEF SyncInv, ListInv
<1>10. QED BY <1>1, <1>4, <1>5, <1>7, <1>8, <1>9, MoverPreserves, ProcessFacts

LEMMA NextBlockPreserves ==
  ASSUME SyncInv, NEW r \in Relayers, NextBlock(r)
  PROVE  SyncInv'
<1>1. r \in Workers BY DEF Workers
<1>2. /\ pc[r] = "block"
      /\ UNCHANGED <<chainVars, since, last, latest, target, inFlight, orphans, failures>>
  BY DEF NextBlock
<1>3. \A t \in orphans' : t.id \in bought BY <1>2 DEF SyncInv, ListInv
<1>4. CASE /\ last[r] < latest[r]
           /\ todo' = [todo EXCEPT ![r] = blocks[last[r] + 1]]
           /\ pc' = [pc EXCEPT ![r] = "check"]
  <2>1. last[r] + 1 \in 1..Len(blocks) BY <1>1, <1>4, ProcessFacts DEF RelayerInv
  <2>2. blocks[last[r] + 1] \in Seq(TxIds) BY <2>1, BlocksType
  <2>3. TypeOK' BY <1>1, <1>2, <1>4, <2>2, SameChain DEF SyncInv, TypeOK
  <2>4. OnlyMoves(r) BY <1>2, <1>4 DEF OnlyMoves, SyncInv, TypeOK
  <2>5. pc'[r] = "check" /\ todo'[r] = blocks[last[r] + 1]
    BY <1>1, <1>4 DEF SyncInv, TypeOK
  <2>6. WorkerInv(r)' BY <1>1, <1>2, <2>5, ProcessFacts DEF WorkerInv
  <2>7. RelayerInv(r)' BY <1>1, <1>2, <1>4, <2>5, ProcessFacts, SameChain DEF RelayerInv
  <2>8. QED BY <1>1, <1>3, <2>3, <2>4, <2>6, <2>7, MoverPreserves, ProcessFacts
<1>5. CASE pc' = [pc EXCEPT ![r] = "poll"] /\ UNCHANGED todo
  <2>1. TypeOK' BY <1>1, <1>2, <1>5, SameChain DEF SyncInv, TypeOK
  <2>2. OnlyMoves(r) BY <1>2, <1>5 DEF OnlyMoves, SyncInv, TypeOK
  <2>3. pc'[r] = "poll" BY <1>1, <1>5 DEF SyncInv, TypeOK
  <2>4. WorkerInv(r)' BY <1>1, <1>2, <2>3, ProcessFacts DEF WorkerInv
  <2>5. RelayerInv(r)' BY <1>1, <1>2, <2>3, ProcessFacts, SameChain DEF RelayerInv
  <2>6. QED BY <1>1, <1>3, <2>1, <2>2, <2>4, <2>5, MoverPreserves, ProcessFacts
<1>6. QED BY <1>4, <1>5 DEF NextBlock

\* The first purchase of the list is recorded, or was never made, and is done with.
LEMMA HeadIsDone ==
  ASSUME SyncInv, NEW w \in Workers, UNCHANGED chainVars,
         pc[w] \in {"check", "send", "wait"}, todo[w] # << >>,
         Head(todo[w]) \in bought => Head(todo[w]) \in recorded,
         todo' = [todo EXCEPT ![w] = Tail(todo[w])], pc'[w] = "check", inFlight'[w] = "none",
         UNCHANGED <<since, last, latest, target>>
  PROVE  /\ todo' \in [Workers -> Seq(TxIds)]
         /\ WorkerInv(w)'
         /\ w \in Relayers => RelayerInv(w)'
         /\ w \in Syncs => SyncScriptInv(w)'
<1>1. /\ Tail(todo[w]) \in Seq(TxIds) /\ Items(todo[w]) = {Head(todo[w])} \cup Items(Tail(todo[w]))
  BY ProcessFacts, ItemsOfTail
<1>2. todo' \in [Workers -> Seq(TxIds)] /\ todo'[w] = Tail(todo[w])
  BY <1>1 DEF SyncInv, TypeOK
<1>3. WorkerInv(w)' BY DEF WorkerInv
<1>4. blocks' = blocks /\ bought' = bought /\ recorded' = recorded BY SameChain
<1>5. ASSUME w \in Relayers PROVE RelayerInv(w)'
  <2>1. RelayerInv(w) /\ last[w] \in Nat /\ latest[w] \in Nat BY <1>5, ProcessFacts
  <2>2. /\ last[w] < latest[w] /\ last[w] + 1 \in 1..Len(blocks)
        /\ Items(blocks[last[w] + 1]) \subseteq recorded \cup Items(todo[w])
    BY <1>5, <2>1, ProcessFacts DEF RelayerInv
  <2>3. Items(blocks[last[w] + 1]) \subseteq bought BY <2>2, BlockWasBought
  <2>4. Items(blocks[last[w] + 1]) \subseteq recorded \cup Items(Tail(todo[w]))
    BY <1>1, <2>2, <2>3
  <2>5. pc[w] # "down" OBVIOUS
  <2>6. QED BY <1>2, <1>4, <2>1, <2>2, <2>4, <2>5 DEF RelayerInv
<1>6. ASSUME w \in Syncs PROVE SyncScriptInv(w)'
  <2>1. target[w] \subseteq bought /\ target[w] \subseteq recorded \cup Items(todo[w])
    BY <1>6, ProcessFacts DEF SyncScriptInv
  <2>2. target[w] \subseteq recorded \cup Items(Tail(todo[w])) BY <1>1, <2>1
  <2>3. QED BY <1>2, <1>4, <2>1, <2>2 DEF SyncScriptInv
<1>7. QED BY <1>2, <1>3, <1>5, <1>6

LEMMA CheckPreserves ==
  ASSUME SyncInv, NEW w \in Workers, Check(w)
  PROVE  SyncInv'
<1>1. /\ pc[w] = "check" /\ todo[w] # << >>
      /\ UNCHANGED <<chainVars, since, last, latest, target, inFlight, orphans, failures>>
  BY DEF Check
<1>2. \A t \in orphans' : t.id \in bought BY <1>1 DEF SyncInv, ListInv
<1>3. inFlight'[w] = "none" BY <1>1, ProcessFacts DEF WorkerInv
<1>4. Head(todo[w]) \in TxIds BY <1>1, ProcessFacts, ItemsOfTail
<1>5. CASE /\ Head(todo[w]) \in bought => LogRef(Head(todo[w])) \in recordedSourceRef
           /\ todo' = [todo EXCEPT ![w] = Tail(todo[w])]
           /\ UNCHANGED pc
  <2>1. Head(todo[w]) \in bought => Head(todo[w]) \in recorded BY <1>4, <1>5 DEF recorded
  <2>2. /\ todo' \in [Workers -> Seq(TxIds)]
        /\ WorkerInv(w)'
        /\ w \in Relayers => RelayerInv(w)'
        /\ w \in Syncs => SyncScriptInv(w)'
    BY <1>1, <1>3, <1>5, <2>1, HeadIsDone
  <2>3. TypeOK' BY <1>1, <1>5, <2>2, SameChain DEF SyncInv, TypeOK
  <2>4. OnlyMoves(w) BY <1>1, <1>5 DEF OnlyMoves, SyncInv, TypeOK
  <2>5. QED BY <1>2, <2>2, <2>3, <2>4, MoverPreserves
<1>6. CASE /\ Head(todo[w]) \in bought
           /\ pc' = [pc EXCEPT ![w] = "send"]
           /\ UNCHANGED todo
  <2>1. pc'[w] = "send" BY <1>6 DEF SyncInv, TypeOK
  <2>2. TypeOK' BY <1>1, <1>6, SameChain DEF SyncInv, TypeOK
  <2>3. OnlyMoves(w) BY <1>1, <1>6 DEF OnlyMoves, SyncInv, TypeOK
  <2>4. WorkerInv(w)' BY <1>1, <1>3, <1>6, <2>1, SameChain DEF WorkerInv
  <2>5. w \in Relayers => RelayerInv(w)'
    BY <1>1, <1>6, <2>1, ProcessFacts, SameChain DEF RelayerInv
  <2>6. w \in Syncs => SyncScriptInv(w)'
    BY <1>1, <1>6, <2>1, ProcessFacts, SameChain DEF SyncScriptInv
  <2>7. QED BY <1>2, <2>2, <2>3, <2>4, <2>5, <2>6, MoverPreserves
<1>7. QED BY <1>5, <1>6 DEF Check

\* A list that is empty has been recorded.
LEMMA EndOfListPreserves ==
  ASSUME SyncInv, NEW w \in Workers, EndOfList(w)
  PROVE  SyncInv'
<1>1. /\ pc[w] = "check" /\ todo[w] = << >>
      /\ UNCHANGED <<chainVars, since, latest, todo, target, inFlight, orphans, failures>>
  BY DEF EndOfList
<1>2. \A t \in orphans' : t.id \in bought BY <1>1 DEF SyncInv, ListInv
<1>3. inFlight'[w] = "none" BY <1>1, ProcessFacts DEF WorkerInv
<1>4. Items(todo[w]) = {} BY <1>1, EmptyList
<1>5. CASE w \in Relayers
  <2>1. /\ last' = [last EXCEPT ![w] = last[w] + 1] /\ pc' = [pc EXCEPT ![w] = "block"]
    BY <1>5 DEF EndOfList
  <2>2. /\ RelayerInv(w) /\ w \notin Syncs /\ last[w] \in Nat /\ latest[w] \in Nat
        /\ since[w] \in Nat /\ Len(blocks) \in Nat /\ Len(blocks) <= MaxBlocks
    BY <1>5, ProcessFacts
  <2>3. /\ last[w] < latest[w] /\ latest[w] <= Len(blocks)
        /\ Items(blocks[last[w] + 1]) \subseteq recorded
    BY <1>1, <1>4, <2>2 DEF RelayerInv
  <2>4. last[w] + 1 \in 0..MaxBlocks BY <2>2, <2>3, BoundsAreNumbers
  <2>5. TypeOK' BY <1>1, <2>1, <2>4, SameChain DEF SyncInv, TypeOK
  <2>6. OnlyMoves(w) BY <1>1, <2>1 DEF OnlyMoves, SyncInv, TypeOK
  <2>7. pc'[w] = "block" /\ last'[w] = last[w] + 1 BY <1>5, <2>1 DEF SyncInv, TypeOK
  <2>8. WorkerInv(w)' BY <1>3, <2>7 DEF WorkerInv
  <2>9. \A b \in since[w]+1..last[w]+1 : Items(blocks[b]) \subseteq recorded
    <3>1. SUFFICES ASSUME NEW b \in since[w]+1..last[w]+1
                   PROVE  Items(blocks[b]) \subseteq recorded
      OBVIOUS
    <3>2. CASE b = last[w] + 1 BY <3>2, <2>3
    <3>3. CASE b \in since[w]+1..last[w] BY <3>3, <1>1, <2>2 DEF RelayerInv
    <3>4. QED BY <2>2, <3>2, <3>3
  <2>10. RelayerInv(w)'
    <3>1. blocks' = blocks /\ recorded' = recorded BY <1>1, SameChain
    <3>2. last[w] + 1 <= Len(blocks) BY <2>2, <2>3
    <3>3. QED BY <1>1, <2>3, <2>7, <2>9, <3>1, <3>2 DEF RelayerInv
  <2>11. QED BY <1>2, <2>2, <2>5, <2>6, <2>8, <2>10, MoverPreserves
<1>6. CASE w \notin Relayers
  <2>1. UNCHANGED last /\ pc' = [pc EXCEPT ![w] = "done"] BY <1>6 DEF EndOfList
  <2>2. TypeOK' BY <1>1, <2>1, SameChain DEF SyncInv, TypeOK
  <2>3. OnlyMoves(w) BY <1>1, <2>1 DEF OnlyMoves, SyncInv, TypeOK
  <2>4. pc'[w] = "done" BY <2>1 DEF SyncInv, TypeOK
  <2>5. WorkerInv(w)' BY <1>3, <2>4 DEF WorkerInv
  <2>6. SyncScriptInv(w)
    BY <1>6, ProcessFacts
  <2>7. SyncScriptInv(w)' BY <1>1, <1>4, <2>4, <2>6, SameChain DEF SyncScriptInv
  <2>8. QED BY <1>2, <1>6, <2>2, <2>3, <2>5, <2>7, MoverPreserves
<1>7. QED BY <1>5, <1>6

\* A process that gives up, or is stopped, keeps its place; what it waits for stays on
\* its way.
LEMMA ForgetPreserves ==
  ASSUME SyncInv, NEW w \in Workers, NEW p \in {"poll", "down"},
         UNCHANGED chainVars, pc' = [pc EXCEPT ![w] = p],
         p = "poll" => w \in Relayers /\ pc[w] # "down",
         Forget(w), UNCHANGED <<since, last, latest, todo, target>>,
         failures' \in 0..MaxFailures
  PROVE  SyncInv'
<1>1. /\ inFlight' = [inFlight EXCEPT ![w] = "none"]
      /\ orphans' = IF inFlight[w] = "pending"
                    THEN orphans \cup {[wallet |-> WalletOf[w], id |-> Head(todo[w])]}
                    ELSE orphans
  BY DEF Forget
<1>2. pc'[w] = p /\ inFlight'[w] = "none" BY <1>1 DEF SyncInv, TypeOK
<1>3. inFlight[w] = "pending" => Head(todo[w]) \in bought /\ Head(todo[w]) \in TxIds
  <2>1. SUFFICES ASSUME inFlight[w] = "pending"
                 PROVE  Head(todo[w]) \in bought /\ Head(todo[w]) \in TxIds
    OBVIOUS
  <2>2. todo[w] # << >> /\ Head(todo[w]) \in bought BY <2>1, ProcessFacts DEF WorkerInv
  <2>3. QED BY <2>2, ProcessFacts, ItemsOfTail
<1>4. /\ \A t \in orphans' : t.id \in bought
      /\ orphans' \subseteq [wallet : Addresses, id : TxIds]
  <2>1. (\A t \in orphans : t.id \in bought) /\ orphans \subseteq [wallet : Addresses, id : TxIds]
    BY DEF SyncInv, ListInv, TypeOK
  <2>2. QED BY <1>1, <1>3, <2>1, BoundsAreNumbers
<1>5. TypeOK' BY <1>1, <1>4, SameChain DEF SyncInv, TypeOK
<1>6. OnlyMoves(w) BY <1>1 DEF OnlyMoves, SyncInv, TypeOK
<1>7. WorkerInv(w)' BY <1>2 DEF WorkerInv
<1>8. w \in Relayers => RelayerInv(w)'
  BY <1>2, ProcessFacts, SameChain DEF RelayerInv
<1>9. w \in Syncs => SyncScriptInv(w)'
  BY <1>2, ProcessFacts, SameChain DEF SyncScriptInv
<1>10. QED BY <1>4, <1>5, <1>6, <1>7, <1>8, <1>9, MoverPreserves

LEMMA GiveUpPreserves ==
  ASSUME SyncInv, NEW w \in Workers, UNCHANGED chainVars, GiveUp(w), pc[w] # "down",
         failures' \in 0..MaxFailures
  PROVE  SyncInv'
<1> DEFINE p == IF w \in Relayers THEN "poll" ELSE "down"
<1>1. /\ pc' = [pc EXCEPT ![w] = p] /\ Forget(w)
      /\ UNCHANGED <<since, last, latest, todo, target>>
  BY DEF GiveUp
<1>2. p \in {"poll", "down"} /\ (p = "poll" => w \in Relayers /\ pc[w] # "down") OBVIOUS
<1> HIDE DEF p
<1>3. QED BY <1>1, <1>2, ForgetPreserves

LEMMA StopPreserves ==
  ASSUME SyncInv, NEW w \in Workers, Stop(w)
  PROVE  SyncInv'
<1>1. failures' \in 0..MaxFailures BY BoundsAreNumbers DEF Stop, SyncInv, TypeOK
<1>2. QED BY <1>1, ForgetPreserves DEF Stop

LEMMA CallFailsPreserves ==
  ASSUME SyncInv, NEW w \in Workers, CallFails(w)
  PROVE  SyncInv'
<1>1. failures' \in 0..MaxFailures BY BoundsAreNumbers DEF CallFails, SyncInv, TypeOK
<1>2. QED BY <1>1, GiveUpPreserves DEF CallFails

LEMMA SendPreserves ==
  ASSUME SyncInv, NEW w \in Workers, Send(w)
  PROVE  SyncInv'
<1>1. pc[w] = "send" /\ UNCHANGED <<chainVars, failures>> BY DEF Send
<1>2. CASE GiveUp(w)
  <2>1. failures' \in 0..MaxFailures BY <1>1 DEF SyncInv, TypeOK
  <2>2. QED BY <1>1, <1>2, <2>1, GiveUpPreserves
<1>3. CASE /\ inFlight' = [inFlight EXCEPT ![w] = "pending"]
           /\ pc' = [pc EXCEPT ![w] = "wait"]
           /\ UNCHANGED <<since, last, latest, todo, target, orphans>>
  <2>1. pc'[w] = "wait" /\ inFlight'[w] = "pending" BY <1>3 DEF SyncInv, TypeOK
  <2>2. TypeOK' BY <1>1, <1>3, SameChain DEF SyncInv, TypeOK
  <2>3. OnlyMoves(w) BY <1>1, <1>3 DEF OnlyMoves, SyncInv, TypeOK
  <2>4. WorkerInv(w)' BY <1>1, <1>3, <2>1, ProcessFacts, SameChain DEF WorkerInv
  <2>5. w \in Relayers => RelayerInv(w)'
    BY <1>1, <1>3, <2>1, ProcessFacts, SameChain DEF RelayerInv
  <2>6. w \in Syncs => SyncScriptInv(w)'
    BY <1>1, <1>3, <2>1, ProcessFacts, SameChain DEF SyncScriptInv
  <2>7. \A t \in orphans' : t.id \in bought BY <1>3 DEF SyncInv, ListInv
  <2>8. QED BY <2>2, <2>3, <2>4, <2>5, <2>6, <2>7, MoverPreserves
<1>4. QED BY <1>2, <1>3 DEF Send

LEMMA WaitedPreserves ==
  ASSUME SyncInv, NEW w \in Workers, Waited(w)
  PROVE  SyncInv'
<1>1. pc[w] = "wait" /\ UNCHANGED <<chainVars, failures>> BY DEF Waited
<1>2. CASE GiveUp(w)
  <2>1. failures' \in 0..MaxFailures BY <1>1 DEF SyncInv, TypeOK
  <2>2. QED BY <1>1, <1>2, <2>1, GiveUpPreserves
<1>3. CASE /\ inFlight[w] = "ok"
           /\ todo' = [todo EXCEPT ![w] = Tail(todo[w])]
           /\ inFlight' = [inFlight EXCEPT ![w] = "none"]
           /\ pc' = [pc EXCEPT ![w] = "check"]
           /\ UNCHANGED <<since, last, latest, target, orphans>>
  <2>1. pc'[w] = "check" /\ inFlight'[w] = "none" BY <1>3 DEF SyncInv, TypeOK
  <2>2. todo[w] # << >> /\ Head(todo[w]) \in recorded
    BY <1>1, <1>3, ProcessFacts DEF WorkerInv
  <2>3. /\ todo' \in [Workers -> Seq(TxIds)]
        /\ WorkerInv(w)'
        /\ w \in Relayers => RelayerInv(w)'
        /\ w \in Syncs => SyncScriptInv(w)'
    BY <1>1, <1>3, <2>1, <2>2, HeadIsDone
  <2>4. TypeOK' BY <1>1, <1>3, <2>3, SameChain DEF SyncInv, TypeOK
  <2>5. OnlyMoves(w) BY <1>1, <1>3 DEF OnlyMoves, SyncInv, TypeOK
  <2>6. \A t \in orphans' : t.id \in bought BY <1>3 DEF SyncInv, ListInv
  <2>7. QED BY <2>3, <2>4, <2>5, <2>6, MoverPreserves
<1>4. QED BY <1>2, <1>3 DEF Waited

---------------------------------------------------------------------------
(* The specification *)

LEMMA InitEstablishes ==
  ASSUME Init
  PROVE  SyncInv
<1>1. /\ recordedSourceRef = {} /\ globalPurchases = << >>
      /\ recordedPurchases = [u \in Users |-> << >>] /\ blocks = << >> /\ orphans = {}
      /\ userTotals = [u \in Users |-> [ddc |-> 0, usdt |-> 0]]
      /\ writer \in Addresses
  BY DEF Init, RecorderInit, Addresses
<1>2. recorded = {} /\ bought = {}
  BY <1>1 DEF recorded, bought
<1>3. RecorderTypeOK
  BY <1>1 DEF RecorderTypeOK, Totals
<1>4. TypeOK
  BY <1>1, <1>3, BoundsAreNumbers DEF Init, TypeOK
<1>5. ListInv
  BY <1>1, <1>2 DEF ListInv
<1>6. ASSUME NEW w \in Workers PROVE WorkerInv(w)
  BY DEF Init, WorkerInv
<1>7. ASSUME NEW r \in Relayers PROVE RelayerInv(r)
  <2>1. pc[r] = "down" /\ last[r] = 0 /\ latest[r] = 0 BY DEF Init, Workers
  <2>2. Len(blocks) = 0 BY <1>1
  <2>3. QED BY <2>1, <2>2 DEF RelayerInv
<1>8. ASSUME NEW s \in Syncs PROVE SyncScriptInv(s)
  BY DEF Init, Workers, SyncScriptInv
<1>9. Len(blocks) <= MaxBlocks BY <1>1, BoundsAreNumbers
<1>10. QED BY <1>4, <1>5, <1>6, <1>7, <1>8, <1>9 DEF SyncInv, ProcessInv

LEMMA StutterPreserves ==
  ASSUME SyncInv, UNCHANGED vars
  PROVE  SyncInv'
<1>1. /\ UNCHANGED chainVars
      /\ UNCHANGED <<pc, since, last, latest, todo, target, inFlight, orphans, failures>>
  BY DEF vars, workerVars
<1>2. /\ blocks' = blocks /\ bought' = bought /\ recorded' = recorded
      /\ recordedSourceRef' = recordedSourceRef /\ globalPurchases' = globalPurchases
      /\ RecorderTypeOK'
  BY <1>1, SameChain
<1>3. TypeOK' BY <1>1, <1>2 DEF SyncInv, TypeOK
<1>4. ListInv' BY <1>1, <1>2 DEF SyncInv, ListInv
<1>5. ASSUME NEW w \in Workers PROVE WorkerInv(w)'
  BY <1>1, <1>2 DEF SyncInv, ProcessInv, WorkerInv
<1>6. ASSUME NEW r \in Relayers PROVE RelayerInv(r)'
  <2>1. RelayerInv(r) BY DEF SyncInv, ProcessInv
  <2>2. QED BY <1>1, <1>2, <2>1 DEF RelayerInv
<1>7. ASSUME NEW s \in Syncs PROVE SyncScriptInv(s)'
  BY <1>1, <1>2 DEF SyncInv, ProcessInv, SyncScriptInv
<1>8. ProcessInv' BY <1>5, <1>6, <1>7 DEF ProcessInv
<1>9. Len(blocks') <= MaxBlocks BY <1>2 DEF SyncInv
<1>10. QED BY <1>3, <1>4, <1>8, <1>9 DEF SyncInv

LEMMA NextPreserves ==
  ASSUME SyncInv, Next
  PROVE  SyncInv'
<1>1. CASE \E ids \in ListsOf(TxIds) : MineBlock(ids) BY <1>1, MineBlockPreserves
<1>2. CASE \E a \in Writers : ChangeWriter(a) BY <1>2, ChangeWriterPreserves
<1>3. CASE \E w \in Workers : ExecuteAwaited(w) \/ Work(w) \/ CallFails(w) \/ Stop(w)
  <2>1. PICK w \in Workers : ExecuteAwaited(w) \/ Work(w) \/ CallFails(w) \/ Stop(w) BY <1>3
  <2>2. CASE Work(w)
    BY <2>2, CheckPreserves, EndOfListPreserves, SendPreserves, WaitedPreserves DEF Work
  <2>3. QED BY <2>1, <2>2, ExecuteAwaitedPreserves, CallFailsPreserves, StopPreserves
<1>4. CASE \E t \in orphans : ExecuteOrphan(t) BY <1>4, ExecuteOrphanPreserves
<1>5. CASE \E r \in Relayers : StartRelayer(r) \/ Poll(r) \/ NextBlock(r)
  BY <1>5, StartRelayerPreserves, PollPreserves, NextBlockPreserves
<1>6. CASE \E s \in Syncs, list \in ListsOf(TxIds) : StartSync(s, list)
  BY <1>6, StartSyncPreserves
<1>7. QED BY <1>1, <1>2, <1>3, <1>4, <1>5, <1>6 DEF Next

LEMMA SyncInvHolds == Spec => []SyncInv
<1>1. Init => SyncInv BY InitEstablishes
<1>2. SyncInv /\ [Next]_vars => SyncInv' BY NextPreserves, StutterPreserves
<1>3. QED BY <1>1, <1>2, PTL DEF Spec

\* Every variable keeps its type: the scripts never act on an event they do not
\* have, and a relayer never passes the latest block.
THEOREM SyncTypeCorrect == Spec => []TypeOK
<1>1. SyncInv => TypeOK BY DEF SyncInv
<1>2. QED BY <1>1, SyncInvHolds, PTL

\* A relayer passes nothing by, however many scripts race with it and whatever
\* fails: an event it leaves out is recorded, and after an exception it comes
\* back to the block it was at (recorder_relayer.js).
THEOREM RelayersSkipNothing == Spec => []RelayerSkipsNothing
<1>1. SyncInv => RelayerSkipsNothing
  BY DEF SyncInv, ProcessInv, RelayerInv, RelayerSkipsNothing
<1>2. QED BY <1>1, SyncInvHolds, PTL

\* A sync script that ends without an exception has recorded its list
\* (sync_recorder_from_presale.js, sync_recorder_from_txhashes.js).
THEOREM SyncsAreComplete == Spec => []SyncIsComplete
<1>1. SyncInv => SyncIsComplete
  BY DEF SyncInv, ProcessInv, SyncScriptInv, SyncIsComplete
<1>2. QED BY <1>1, SyncInvHolds, PTL

---------------------------------------------------------------------------
(* The recorder as a mirror *)

\* The purchases the recorder lists, in order
Listed == [i \in 1..Len(globalPurchases) |-> globalPurchases[i].sourceRef[2]]

LEMMA AppendIsFunction ==
  ASSUME NEW S, NEW s \in Seq(S), NEW x \in S
  PROVE  Append(s, x) = [i \in 1..Len(s)+1 |-> IF i <= Len(s) THEN s[i] ELSE x]
<1> DEFINE a == Append(s, x)
<1>1. a \in Seq(S) /\ Len(a) = Len(s) + 1 /\ Len(s) \in Nat OBVIOUS
<1>2. \A i \in 1..Len(s) : a[i] = s[i] OBVIOUS
<1>3. a[Len(s) + 1] = x OBVIOUS
<1> HIDE DEF a
<1>4. a \in [1..Len(s)+1 -> S] BY <1>1
<1>5. \A i \in 1..Len(s)+1 : a[i] = IF i <= Len(s) THEN s[i] ELSE x BY <1>1, <1>2, <1>3
<1>6. a = [i \in 1..Len(s)+1 |-> IF i <= Len(s) THEN s[i] ELSE x] BY <1>4, <1>5
<1>7. QED BY <1>6 DEF a

LEMMA ListedFacts ==
  ASSUME SyncInv, ~Wired
  PROVE  Listed \in Seq(TxIds) /\ Items(Listed) = recorded
<1>1. {globalPurchases[i].sourceRef : i \in 1..Len(globalPurchases)} = recordedSourceRef
  BY DEF SyncInv, ListInv
<1>2. \A ref \in recordedSourceRef : \E id \in recorded : ref = LogRef(id)
  BY DEF SyncInv, ListInv
<1>3. Len(globalPurchases) \in Nat
  BY DEF SyncInv, TypeOK, RecorderTypeOK
<1>4. \A id : LogRef(id)[2] = id BY DEF LogRef
<1>5. \A i \in 1..Len(globalPurchases) :
        globalPurchases[i].sourceRef[2] \in recorded
  BY <1>1, <1>2, <1>4
<1>6. Listed \in Seq(TxIds)
  <2>1. recorded \subseteq TxIds BY DEF recorded
  <2>2. Listed \in [1..Len(globalPurchases) -> TxIds] BY <1>5, <2>1 DEF Listed
  <2>3. QED BY <1>3, <2>2
<1>7. Len(Listed) = Len(globalPurchases) BY <1>3, <1>6 DEF Listed
<1>8. ASSUME NEW id \in recorded PROVE id \in Items(Listed)
  <2>1. LogRef(id) \in recordedSourceRef BY DEF recorded
  <2>2. PICK i \in 1..Len(globalPurchases) : globalPurchases[i].sourceRef = LogRef(id)
    BY <1>1, <2>1
  <2>3. i \in 1..Len(Listed) /\ Listed[i] = id BY <1>4, <1>7, <2>2 DEF Listed
  <2>4. QED BY <2>3 DEF Items
<1>9. ASSUME NEW x \in Items(Listed) PROVE x \in recorded
  <2>1. PICK i \in 1..Len(Listed) : x = Listed[i] BY <1>9 DEF Items
  <2>2. x = globalPurchases[i].sourceRef[2] BY <1>7, <2>1 DEF Listed
  <2>3. QED BY <1>5, <1>7, <2>1, <2>2
<1>10. QED BY <1>6, <1>8, <1>9

\* A call of the recorder that is executed is a step of the mirror.
LEMMA RecordLogMirrors ==
  ASSUME SyncInv, ~Wired, NEW wallet, NEW id \in TxIds, id \in bought,
         RecordLog(wallet, id), bought' = bought
  PROVE  Mirror!Record(id)
<1>1. /\ LogRef(id) \notin recordedSourceRef
      /\ globalPurchases' = Append(globalPurchases,
           [ddcAmount |-> DdcOf[id], payAmount |-> PaidOf[id],
            sourceRef |-> LogRef(id)])
  BY DEF RecordLog, RecordPurchase, RecordAccepted
<1>2. /\ Len(globalPurchases') = Len(globalPurchases) + 1 /\ Len(globalPurchases) \in Nat
      /\ \A i \in 1..Len(globalPurchases) : globalPurchases'[i] = globalPurchases[i]
      /\ globalPurchases'[Len(globalPurchases) + 1].sourceRef = LogRef(id)
  BY PurchasesAreTyped, RecordedTypes DEF RecordLog, SyncInv, TypeOK
<1>3. Listed \in Seq(TxIds) /\ Items(Listed) = recorded BY ListedFacts
<1>4. Len(Listed) = Len(globalPurchases) BY <1>2, <1>3 DEF Listed
<1>5. id \notin Items(Listed) BY <1>1, <1>3 DEF recorded
<1>6. Listed' = Append(Listed, id)
  <2>1. Listed' = [i \in 1..Len(globalPurchases)+1 |-> globalPurchases'[i].sourceRef[2]]
    BY <1>2 DEF Listed
  <2>2. Append(Listed, id) =
          [i \in 1..Len(globalPurchases)+1 |->
             IF i <= Len(globalPurchases) THEN Listed[i] ELSE id]
    BY <1>3, <1>4, AppendIsFunction
  <2>3. ASSUME NEW i \in 1..Len(globalPurchases)+1
        PROVE  globalPurchases'[i].sourceRef[2] =
                 IF i <= Len(globalPurchases) THEN Listed[i] ELSE id
    <3>1. CASE i <= Len(globalPurchases) BY <1>2, <3>1 DEF Listed
    <3>2. CASE i = Len(globalPurchases) + 1 BY <1>2, <3>2 DEF LogRef
    <3>3. QED BY <1>2, <3>1, <3>2
  <2>4. QED BY <2>1, <2>2, <2>3
<1>7. QED BY <1>5, <1>6 DEF Mirror!Record, Mirror!mirrored, Listed, Items

LEMMA MirrorStep ==
  ASSUME SyncInv, ~Wired, [Next]_vars
  PROVE  [Mirror!MirrorNext]_<<bought, Listed>>
<1>1. ASSUME blocks' = blocks, UNCHANGED recorderVars
      PROVE  UNCHANGED <<bought, Listed>>
  BY <1>1, SameBlocks DEF Listed, recorderVars
<1>2. ASSUME UNCHANGED chainVars PROVE UNCHANGED <<bought, Listed>>
  BY <1>1, <1>2 DEF chainVars
<1>3. ASSUME NEW ids \in ListsOf(TxIds), MineBlock(ids)
      PROVE  Mirror!Buy(Items(ids)) /\ Items(ids) \in SUBSET TxIds
  <2>1. ids \in Seq(TxIds) /\ ids # << >> /\ ids[1] \in TxIds /\ 1 \in 1..Len(ids)
    <3>1. CASE \E id \in TxIds : ids = <<id>> BY <3>1
    <3>2. CASE \E q \in TxIds \X TxIds : ids = <<q[1], q[2]>> BY <3>2
    <3>3. QED BY <3>1, <3>2 DEF ListsOf
  <2>2. /\ blocks' = Append(blocks, ids) /\ Items(ids) \cap bought = {}
        /\ UNCHANGED recorderVars
    BY <1>3 DEF MineBlock
  <2>3. Items(ids) # {} /\ Items(ids) \subseteq TxIds BY <2>1 DEF Items
  <2>4. bought' = bought \cup Items(ids)
    <3>1. /\ Len(blocks') = Len(blocks) + 1 /\ Len(blocks) \in Nat
          /\ \A b \in 1..Len(blocks) : blocks'[b] = blocks[b]
          /\ blocks'[Len(blocks) + 1] = ids
      BY <2>1, <2>2, BlocksType
    <3>2. ASSUME NEW x \in bought' PROVE x \in bought \cup Items(ids)
      <4>1. PICK b \in 1..Len(blocks') : x \in Items(blocks'[b]) BY <3>2 DEF bought, Items
      <4>2. CASE b \in 1..Len(blocks) BY <3>1, <4>1, <4>2 DEF bought
      <4>3. CASE b = Len(blocks) + 1 BY <3>1, <4>1, <4>3
      <4>4. QED BY <3>1, <4>2, <4>3
    <3>3. ASSUME NEW x \in bought PROVE x \in bought'
      <4>1. PICK b \in 1..Len(blocks) : x \in Items(blocks[b]) BY <3>3 DEF bought
      <4>2. b \in 1..Len(blocks') /\ x \in Items(blocks'[b]) BY <3>1, <4>1
      <4>3. QED BY <4>2 DEF bought, Items
    <3>4. ASSUME NEW x \in Items(ids) PROVE x \in bought'
      <4>1. Len(blocks) + 1 \in 1..Len(blocks') /\ x \in Items(blocks'[Len(blocks) + 1])
        BY <3>1, <3>4
      <4>2. QED BY <4>1 DEF bought, Items
    <3>5. QED BY <3>2, <3>3, <3>4
  <2>5. Listed' = Listed BY <2>2 DEF Listed, recorderVars
  <2>6. QED BY <2>2, <2>3, <2>4, <2>5 DEF Mirror!Buy, Listed
<1>4. ASSUME NEW w \in Workers, ExecuteAwaited(w)
      PROVE  (\E id \in TxIds : Mirror!Record(id)) \/ UNCHANGED <<bought, Listed>>
  <2>1. /\ inFlight[w] = "pending" /\ blocks' = blocks
        /\ RecordLog(WalletOf[w], Head(todo[w])) \/ UNCHANGED recorderVars
    BY <1>4 DEF ExecuteAwaited
  <2>2. Head(todo[w]) \in TxIds /\ Head(todo[w]) \in bought
    BY <2>1, ProcessFacts, ItemsOfTail DEF WorkerInv
  <2>3. bought' = bought BY <2>1, SameBlocks
  <2>4. CASE RecordLog(WalletOf[w], Head(todo[w]))
    BY <2>2, <2>3, <2>4, RecordLogMirrors
  <2>5. QED BY <1>1, <2>1, <2>4
<1>5. ASSUME NEW t \in orphans, ExecuteOrphan(t)
      PROVE  (\E id \in TxIds : Mirror!Record(id)) \/ UNCHANGED <<bought, Listed>>
  <2>1. blocks' = blocks /\ (RecordLog(t.wallet, t.id) \/ UNCHANGED recorderVars)
    BY <1>5 DEF ExecuteOrphan
  <2>2. t.id \in TxIds /\ t.id \in bought BY DEF SyncInv, TypeOK, ListInv
  <2>3. bought' = bought BY <2>1, SameBlocks
  <2>4. CASE RecordLog(t.wallet, t.id) BY <2>2, <2>3, <2>4, RecordLogMirrors
  <2>5. QED BY <1>1, <2>1, <2>4
<1>6. CASE \E ids \in ListsOf(TxIds) : MineBlock(ids)
  BY <1>3, <1>6 DEF Mirror!MirrorNext
<1>7. CASE \E a \in Writers : ChangeWriter(a)
  BY <1>7, SameBlocks DEF ChangeWriter, SetWriter, Listed
<1>8. CASE \E w \in Workers : ExecuteAwaited(w) \/ Work(w) \/ CallFails(w) \/ Stop(w)
  <2>1. PICK w \in Workers : ExecuteAwaited(w) \/ Work(w) \/ CallFails(w) \/ Stop(w) BY <1>8
  <2>2. CASE ExecuteAwaited(w) BY <1>4, <2>2 DEF Mirror!MirrorNext
  <2>3. CASE Work(w) \/ CallFails(w) \/ Stop(w)
    BY <1>2, <2>3 DEF Work, Check, EndOfList, Send, Waited, CallFails, Stop
  <2>4. QED BY <2>1, <2>2, <2>3
<1>9. CASE \E t \in orphans : ExecuteOrphan(t) BY <1>5, <1>9 DEF Mirror!MirrorNext
<1>10. CASE \/ \E r \in Relayers : StartRelayer(r) \/ Poll(r) \/ NextBlock(r)
            \/ \E s \in Syncs, list \in ListsOf(TxIds) : StartSync(s, list)
  BY <1>2, <1>10 DEF StartRelayer, Poll, NextBlock, StartSync
<1>11. CASE UNCHANGED vars BY <1>2, <1>11 DEF vars
<1>12. QED BY <1>6, <1>7, <1>8, <1>9, <1>10, <1>11 DEF Next

\* Where the presale does not record by itself, the scripts make the recorder a
\* mirror of the purchases: each is listed at most once and only after it was
\* made, whichever scripts race, fail and start again (DDCPresaleRecorder.sol
\* with the scripts that call recordPurchase).
THEOREM RecorderIsMirror ==
  ASSUME ~Wired
  PROVE  Spec => IsMirror
<1>1. Init => Mirror!MirrorInit
  <2> SUFFICES ASSUME Init PROVE Mirror!MirrorInit OBVIOUS
  <2>2. bought = {} BY DEF Init, bought
  <2>3. globalPurchases = << >> BY DEF Init, RecorderInit
  <2>4. QED BY <2>2, <2>3 DEF Mirror!MirrorInit
<1>2. SyncInv /\ [Next]_vars => [Mirror!MirrorNext]_<<bought, Listed>>
  BY MirrorStep
<1>3. QED BY <1>1, <1>2, SyncInvHolds, PTL DEF Spec, IsMirror, Mirror!MirrorSpec, Listed
=============================================================================
