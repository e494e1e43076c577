------------------------- MODULE DDCPresaleRecorder -------------------------
(***************************************************************************)
(* The contract DDCPresaleRecorder, the on-chain list of purchases.  Its   *)
(* writer or its owner appends to it; a sourceRef is accepted once.  There *)
(* is one project here, and of a purchase the model keeps what the totals  *)
(* and the duplicate check depend on.  An entry does not say whose it is:  *)
(* the code pushes it to the user's list and to the global one.            *)
(***************************************************************************)
EXTENDS ERC20, Sequences

CONSTANT SourceRefs   \* what a caller may pass as sourceRef (never 0)

VARIABLES writer,
          recordedSourceRef,   \* sourceRefs seen
          recordedPurchases,   \* _userPurchases
          globalPurchases,     \* _globalPurchases
          userTotals           \* _userTotals

recorderVars == <<writer, recordedSourceRef, recordedPurchases, globalPurchases, userTotals>>

RecorderEntry == [ddcAmount : Nat, payAmount : Nat, sourceRef : SourceRefs]

Totals == [ddc : Nat, usdt : Nat]

RecorderTypeOK ==
  /\ writer \in Addresses
  /\ recordedSourceRef \in SUBSET SourceRefs
  /\ recordedPurchases \in [Users -> Seq(RecorderEntry)]
  /\ globalPurchases \in Seq(RecorderEntry)
  /\ userTotals \in [Users -> Totals]

\* The constructor
RecorderInit(firstWriter) ==
  /\ writer = firstWriter
  /\ recordedSourceRef = {}
  /\ recordedPurchases = [u \in Users |-> << >>]
  /\ globalPurchases = << >>
  /\ userTotals = [u \in Users |-> [ddc |-> 0, usdt |-> 0]]

\* The owner's setWriter
SetWriter(address) ==
  /\ address # NOBODY
  /\ writer' = address
  /\ UNCHANGED <<recordedSourceRef, recordedPurchases, globalPurchases, userTotals>>

\* Mutant: a sourceRef may be used again
RecordAcceptedAgain(caller, ddcAmount, sourceRef) ==
  /\ caller \in {writer, OWNER}
  /\ ddcAmount > 0

\* onlyWriterOrOwner and the requires of recordPurchase
RecordAccepted(caller, ddcAmount, sourceRef) ==
  /\ caller \in {writer, OWNER}
  /\ ddcAmount > 0
  /\ sourceRef \notin recordedSourceRef

\* Mutant: the amount paid overwrites the total
OverwriteUsdt(totals, ddcAmount, payAmount) ==
  [ddc |-> totals.ddc + ddcAmount, usdt |-> payAmount]

AddToTotals(totals, ddcAmount, payAmount) ==
  [ddc |-> totals.ddc + ddcAmount, usdt |-> totals.usdt + payAmount]

RecordPurchase(caller, user, ddcAmount, payAmount, sourceRef) ==
  /\ RecordAccepted(caller, ddcAmount, sourceRef)
  /\ recordedSourceRef' = recordedSourceRef \cup {sourceRef}
  /\ LET p == [ddcAmount |-> ddcAmount, payAmount |-> payAmount, sourceRef |-> sourceRef]
     IN  /\ recordedPurchases' = [recordedPurchases EXCEPT ![user] = Append(@, p)]
         /\ globalPurchases' = Append(globalPurchases, p)
  /\ userTotals' = [userTotals EXCEPT ![user] = AddToTotals(@, ddcAmount, payAmount)]
  /\ UNCHANGED writer

listUserPurchases(user) == recordedPurchases[user]
===========================================================================
