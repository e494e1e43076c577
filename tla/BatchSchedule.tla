--------------------------- MODULE BatchSchedule ---------------------------
(***************************************************************************)
(* The batch schedule of DDCPresaleVesting: the batches, the loop          *)
(* _syncBatches that closes the current batch and opens the next one with  *)
(* what was left unsold, and the view _effectiveCurrentBatchId.            *)
(*                                                                         *)
(* Everything here is a function of a schedule, which is a record          *)
(*     [currentBatchId |-> ..., batches |-> ...]                           *)
(* and of the block time; DDCPresaleVesting keeps the schedule in its      *)
(* variables.  A batch's baseAllocation is always the constant and is left *)
(* out of the record.                                                      *)
(***************************************************************************)
EXTENDS Integers

CONSTANTS TOTAL_BATCHES,          \* batches of the presale (40)
          BATCH_DURATION,         \* seconds a batch lasts unless it sells out
          BATCH_BASE_ALLOCATION,  \* DDC every batch brings along
          Prices                  \* _prices, indexed from 0: USDT per DDC_UNIT

ASSUME ScheduleAssumption ==
  /\ TOTAL_BATCHES \in Nat \ {0}
  /\ BATCH_DURATION \in Nat \ {0}
  /\ BATCH_BASE_ALLOCATION \in Nat \ {0}
  /\ Prices \in [0..TOTAL_BATCHES-1 -> Nat \ {0}]

BatchIds == 1..TOTAL_BATCHES

\* DDC on sale over the whole presale
PRESALE_NOMINAL_TOTAL == TOTAL_BATCHES * BATCH_BASE_ALLOCATION

Batch == [priceUSDT : Nat, rolloverIn : Nat, hardCap : Nat, sold : Nat,
          startTime : Nat, endTime : Nat, isClosed : BOOLEAN]

Schedule == [currentBatchId : 0..TOTAL_BATCHES, batches : [BatchIds -> Batch]]

\* An entry of the mapping nobody has written yet
Unopened == [priceUSDT |-> 0, rolloverIn |-> 0, hardCap |-> 0, sold |-> 0,
             startTime |-> 0, endTime |-> 0, isClosed |-> FALSE]

OpenedBatch(id, rollover, start) ==
  [priceUSDT  |-> Prices[id-1],
   rolloverIn |-> rollover,
   hardCap    |-> BATCH_BASE_ALLOCATION + rollover,
   sold       |-> 0,
   startTime  |-> start,
   endTime    |-> start + BATCH_DURATION,
   isClosed   |-> FALSE]

EmptySchedule == [currentBatchId |-> 0, batches |-> [id \in BatchIds |-> Unopened]]

\* _startPresale
StartedSchedule(s, startTime) ==
  [currentBatchId |-> 1, batches |-> [s.batches EXCEPT ![1] = OpenedBatch(1, 0, startTime)]]

---------------------------------------------------------------------------
(* The loop _syncBatches *)

SoldOut(b) == b.sold >= b.hardCap

Expired(b, now) == now > b.endTime

Unsold(b) == IF b.hardCap > b.sold THEN b.hardCap - b.sold ELSE 0

\* Mutant: the next batch starts whenever somebody calls
NextStartAtCall(b, now) == now

NextStart(b, now) == IF SoldOut(b) THEN now ELSE b.endTime

\* The next batch once b, its predecessor, is closed.  The last branch is the
\* one for a batch that is already open.
NextBatch(id, b, n, now) ==
  IF n.startTime = 0
  THEN OpenedBatch(id, Unsold(b), NextStart(b, now))
  ELSE LET topped == [n EXCEPT !.rolloverIn = @ + Unsold(b), !.hardCap = @ + Unsold(b)]
       IN  IF SoldOut(b) /\ now < n.startTime
           THEN [topped EXCEPT !.startTime = NextStart(b, now),
                               !.endTime = NextStart(b, now) + BATCH_DURATION]
           ELSE topped

\* Mutant: only a sold-out batch makes way for the next
DueWhenSoldOut(s, now) ==
  /\ s.currentBatchId # 0
  /\ LET b == s.batches[s.currentBatchId] IN SoldOut(b) /\ ~b.isClosed

\* The loop has work to do: its guard holds and neither break is taken
Due(s, now) ==
  /\ s.currentBatchId # 0
  /\ LET b == s.batches[s.currentBatchId]
     IN  (SoldOut(b) \/ Expired(b, now)) /\ ~b.isClosed

Close(s) == [s.batches EXCEPT ![s.currentBatchId].isClosed = TRUE]

\* Mutant: the batch that is left is not marked closed
AdvanceLeavingOpen(s, now) ==
  LET id == s.currentBatchId + 1
  IN  [currentBatchId |-> id,
       batches |-> [s.batches EXCEPT
                      ![id] = NextBatch(id, s.batches[s.currentBatchId], s.batches[id], now)]]

Advance(s, now) ==
  LET id == s.currentBatchId + 1
  IN  [currentBatchId |-> id,
       batches |-> [Close(s) EXCEPT
                      ![id] = NextBatch(id, s.batches[s.currentBatchId], s.batches[id], now)]]

\* One pass of the loop; the identity once the loop has ended
SyncStep(s, now) ==
  IF ~Due(s, now) THEN s
  ELSE IF s.currentBatchId = TOTAL_BATCHES THEN [s EXCEPT !.batches = Close(s)]
  ELSE Advance(s, now)

\* The whole loop: a pass closes a batch, so there are at most TOTAL_BATCHES
SyncLoop(s, now) ==
  LET after[n \in 0..TOTAL_BATCHES] ==
        IF n = 0 THEN s ELSE SyncStep(after[n-1], now)
  IN  after[TOTAL_BATCHES]

---------------------------------------------------------------------------
(* The view *)

\* _effectiveCurrentBatchId: the first batch from the current one on that is
\* open and neither sold out nor expired, if the walk gets that far
Live(b, now) == ~b.isClosed /\ ~SoldOut(b) /\ ~Expired(b, now)

EffectiveCurrentBatchId(s, now) ==
  LET Reached(id) == \A j \in s.currentBatchId..id : s.batches[j].startTime # 0
      stops == {id \in s.currentBatchId..TOTAL_BATCHES :
                  id # 0 /\ Reached(id) /\ (Live(s.batches[id], now) \/ id = TOTAL_BATCHES)}
  IN  IF s.currentBatchId = 0 \/ stops = {} THEN s.currentBatchId
      ELSE CHOOSE id \in stops : \A j \in stops : id <= j
===========================================================================
