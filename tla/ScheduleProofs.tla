--------------------------- MODULE ScheduleProofs ---------------------------
(***************************************************************************)
(* Lemmas about the two computations of the presale, for every number of   *)
(* batches, every duration, principal and time.  The loop _syncBatches:    *)
(* what a pass keeps, the loop keeps, and the loop only stops when no      *)
(* batch is due.  The release curve: what is released never exceeds the    *)
(* principal, and it only grows, with time and with the principal,         *)
(* although each of its terms is rounded down and the formula changes from *)
(* phase to phase.                                                         *)
(*                                                                         *)
(* SyncLoop is a recursive function.  That it exists, and what holds of    *)
(* its last value, is proved by induction over the passes.                 *)
(***************************************************************************)
EXTENDS BatchSchedule, VestingCurve, FiniteSums

---------------------------------------------------------------------------
(* The passes of the loop *)

\* The schedules after each of N passes
Passes(f, s, t, N) ==
  f = [n \in 0..N |-> IF n = 0 THEN s ELSE SyncStep(f[n-1], t)]

\* The recursive function SyncLoop is built on exists.
LEMMA PassesExist ==
  ASSUME NEW s, NEW t, NEW N \in Nat
  PROVE  \E f : Passes(f, s, t, N)
<1> DEFINE T == {k \in 0..N : \E f : Passes(f, s, t, k)}
<1>1. 0 \in T
  <2> DEFINE f == [n \in 0..0 |-> s]
  <2>1. Passes(f, s, t, 0)
    BY DEF Passes
  <2> QED BY <2>1
<1>2. ASSUME NEW k \in T, k < N PROVE k + 1 \in T
  <2>1. PICK f : Passes(f, s, t, k)
    OBVIOUS
  <2> DEFINE g == [n \in 0..k+1 |-> IF n = k + 1 THEN SyncStep(f[k], t) ELSE f[n]]
  <2>2. \A n \in 0..k : g[n] = f[n]
    OBVIOUS
  <2>3. ASSUME NEW n \in 0..k+1 PROVE g[n] = IF n = 0 THEN s ELSE SyncStep(g[n-1], t)
    BY <2>1, <2>2 DEF Passes
  <2>4. Passes(g, s, t, k + 1)
    BY <2>3 DEF Passes
  <2> QED BY <2>4, <1>2
<1> HIDE DEF T
<1>3. T \in SUBSET (0..N)
  BY DEF T
<1>4. T = 0..N
  BY <1>1, <1>2, <1>3, IntervalInduction
<1> QED BY <1>4 DEF T

\* The loop's result is the last of its passes.
LEMMA SyncLoopPasses ==
  ASSUME NEW s, NEW t
  PROVE  \E f : /\ f[0] = s
                /\ \A n \in 0..TOTAL_BATCHES-1 : f[n+1] = SyncStep(f[n], t)
                /\ SyncLoop(s, t) = f[TOTAL_BATCHES]
<1> DEFINE f == CHOOSE f : Passes(f, s, t, TOTAL_BATCHES)
<1>1. Passes(f, s, t, TOTAL_BATCHES)
  BY PassesExist, ScheduleAssumption
<1>2. SyncLoop(s, t) = f[TOTAL_BATCHES]
  BY DEF SyncLoop, Passes
<1> HIDE DEF f
<1>3. f[0] = s
  BY <1>1, ScheduleAssumption DEF Passes
<1>4. ASSUME NEW n \in 0..TOTAL_BATCHES-1 PROVE f[n+1] = SyncStep(f[n], t)
  BY <1>1, ScheduleAssumption DEF Passes
<1> QED BY <1>2, <1>3, <1>4

\* What every pass keeps, the loop keeps.
LEMMA SyncLoopInvariant ==
  ASSUME NEW G, NEW t, NEW s \in G, \A x \in G : SyncStep(x, t) \in G
  PROVE  SyncLoop(s, t) \in G
<1>1. PICK f : /\ f[0] = s
               /\ \A n \in 0..TOTAL_BATCHES-1 : f[n+1] = SyncStep(f[n], t)
               /\ SyncLoop(s, t) = f[TOTAL_BATCHES]
  BY SyncLoopPasses
<1> DEFINE T == {n \in 0..TOTAL_BATCHES : f[n] \in G}
<1>2. T \in SUBSET (0..TOTAL_BATCHES) /\ 0 \in T
  BY <1>1, ScheduleAssumption
<1>3. \A k \in T : k < TOTAL_BATCHES => k + 1 \in T
  BY <1>1, ScheduleAssumption
<1>4. T = 0..TOTAL_BATCHES
  <2> HIDE DEF T
  <2> QED BY <1>2, <1>3, IntervalInduction, ScheduleAssumption
<1> QED BY <1>1, <1>4, ScheduleAssumption
---------------------------------------------------------------------------
(* What is invariant of a started schedule *)

\* Batch id, opened and sold from by time t
OpenedWell(b, id, t) ==
  /\ b.priceUSDT = Prices[id-1]
  /\ b.startTime # 0
  /\ b.endTime = b.startTime + BATCH_DURATION
  /\ 0 < b.hardCap /\ b.sold <= b.hardCap
  /\ b.sold > 0 => b.startTime <= t

\* Batch n succeeds batch b
Follows(n, b) ==
  /\ b.isClosed
  /\ b.startTime <= n.startTime /\ n.startTime <= b.endTime
  /\ n.startTime < b.endTime => SoldOut(b)
  /\ n.rolloverIn = Unsold(b)

\* The schedule at time t, between the passes of a sync too.  The last
\* conjunct says that a sold-out batch is noticed before its time is over.
ScheduleInv(s, t) ==
  /\ s \in Schedule
  /\ s.currentBatchId # 0
  /\ \A id \in BatchIds : s.currentBatchId < id => s.batches[id] = Unopened
  /\ \A id \in BatchIds : id <= s.currentBatchId => OpenedWell(s.batches[id], id, t)
  /\ \A id \in BatchIds : id < s.currentBatchId => Follows(s.batches[id+1], s.batches[id])
  /\ LET b == s.batches[s.currentBatchId]
     IN  /\ b.isClosed => s.currentBatchId = TOTAL_BATCHES
         /\ SoldOut(b) /\ ~b.isClosed => t <= b.endTime

\* DDC that is still on sale or will be
Remaining(s) ==
  Unsold(s.batches[s.currentBatchId]) + (TOTAL_BATCHES - s.currentBatchId) * BATCH_BASE_ALLOCATION

LEMMA UnsoldType ==
  ASSUME NEW b \in Batch
  PROVE  Unsold(b) \in Nat
BY DEF Unsold, Batch

LEMMA UnopenedType == Unopened \in Batch
BY DEF Unopened, Batch

LEMMA OpenedBatchType ==
  ASSUME NEW id \in BatchIds, NEW rollover \in Nat, NEW start \in Nat
  PROVE  OpenedBatch(id, rollover, start) \in Batch
BY ScheduleAssumption DEF BatchIds, OpenedBatch, Batch

\* A pass that moves on closes the current batch, opens the next one with
\* what was left, and leaves the others alone.
LEMMA AdvanceShape ==
  ASSUME NEW t \in Nat, NEW s, ScheduleInv(s, t), s.currentBatchId # TOTAL_BATCHES,
         NEW id, id = s.currentBatchId
  PROVE  /\ id \in BatchIds /\ id + 1 \in BatchIds /\ id < TOTAL_BATCHES
         /\ Advance(s, t) \in Schedule
         /\ Advance(s, t).currentBatchId = id + 1
         /\ Advance(s, t).batches[id] = [s.batches[id] EXCEPT !.isClosed = TRUE]
         /\ Advance(s, t).batches[id+1]
              = OpenedBatch(id + 1, Unsold(s.batches[id]), NextStart(s.batches[id], t))
         /\ \A j \in BatchIds \ {id, id + 1} : Advance(s, t).batches[j] = s.batches[j]
<1> DEFINE b == s.batches[id]
           o == OpenedBatch(id + 1, Unsold(b), NextStart(b, t))
<1>1. /\ s \in Schedule
      /\ id \in BatchIds /\ id + 1 \in BatchIds /\ id < TOTAL_BATCHES
  BY ScheduleAssumption DEF ScheduleInv, Schedule, BatchIds
<1>2. b \in Batch /\ Unsold(b) \in Nat /\ NextStart(b, t) \in Nat
  <2>1. b \in Batch
    BY <1>1 DEF Schedule
  <2> QED BY <2>1, UnsoldType DEF NextStart, Batch
<1>3. o \in Batch
  BY <1>1, <1>2, OpenedBatchType
<1>4. s.batches[id+1] = Unopened
  BY <1>1 DEF ScheduleInv, BatchIds
<1>5. NextBatch(id + 1, b, s.batches[id+1], t) = o
  BY <1>4 DEF NextBatch, Unopened
<1>6. [b EXCEPT !.isClosed = TRUE] \in Batch
  BY <1>2 DEF Batch
<1>7. Close(s) = [s.batches EXCEPT ![id] = [b EXCEPT !.isClosed = TRUE]]
  BY DEF Close
<1>8. Advance(s, t) = [currentBatchId |-> id + 1, batches |-> [Close(s) EXCEPT ![id+1] = o]]
  BY <1>5 DEF Advance
<1>9. s.batches \in [BatchIds -> Batch]
  BY <1>1 DEF Schedule
<1>10. [Close(s) EXCEPT ![id+1] = o] \in [BatchIds -> Batch]
  BY <1>1, <1>3, <1>6, <1>7, <1>9
<1>11. Advance(s, t) \in Schedule
  BY <1>1, <1>8, <1>10 DEF Schedule, BatchIds
<1>12. /\ Advance(s, t).currentBatchId = id + 1
       /\ Advance(s, t).batches = [Close(s) EXCEPT ![id+1] = o]
  BY <1>8
<1>13. Advance(s, t).batches[id] = [b EXCEPT !.isClosed = TRUE]
  <2> HIDE DEF b, o
  <2>0. id # id + 1
    BY <1>1 DEF BatchIds
  <2>1. Close(s)[id] = [s.batches[id] EXCEPT !.isClosed = TRUE]
    BY <1>1, <1>7, <1>9 DEF b
  <2>2. DOMAIN Close(s) = BatchIds
    BY <1>7, <1>9
  <2> QED BY <2>0, <2>1, <2>2, <1>1, <1>12 DEF b
<1>14. Advance(s, t).batches[id+1] = o
  <2> HIDE DEF b, o
  <2> QED BY <1>1, <1>7, <1>9, <1>12
<1>15. ASSUME NEW j \in BatchIds \ {id, id + 1} PROVE Advance(s, t).batches[j] = s.batches[j]
  <2> HIDE DEF b, o
  <2> QED BY <1>1, <1>7, <1>9, <1>12
<1> QED BY <1>1, <1>11, <1>12, <1>13, <1>14, <1>15
\* The schedule a pass leaves that ends the last batch
Closing(s) == [s EXCEPT !.batches = Close(s)]

\* It has that batch closed and the others as they were.
LEMMA CloseShape ==
  ASSUME NEW t \in Nat, NEW s, ScheduleInv(s, t),
         NEW id, id = s.currentBatchId
  PROVE  /\ id \in BatchIds
         /\ Closing(s) \in Schedule
         /\ Closing(s).currentBatchId = id
         /\ Closing(s).batches[id] = [s.batches[id] EXCEPT !.isClosed = TRUE]
         /\ \A j \in BatchIds \ {id} : Closing(s).batches[j] = s.batches[j]
<1> DEFINE r == Closing(s)
<1>1. s \in Schedule /\ id \in BatchIds
  BY DEF ScheduleInv, Schedule, BatchIds
<1>2. s.batches \in [BatchIds -> Batch] /\ s.batches[id] \in Batch
  BY <1>1 DEF Schedule
<1>3. Close(s) = [s.batches EXCEPT ![id] = [s.batches[id] EXCEPT !.isClosed = TRUE]]
  BY DEF Close
<1>4. [s.batches[id] EXCEPT !.isClosed = TRUE] \in Batch
  BY <1>2 DEF Batch
<1>5. Close(s) \in [BatchIds -> Batch]
  BY <1>1, <1>2, <1>3, <1>4
<1>6. r \in Schedule /\ r.currentBatchId = id /\ r.batches = Close(s)
  BY <1>1, <1>5 DEF Schedule, Closing
<1> HIDE DEF r
<1>7. /\ r.batches[id] = [s.batches[id] EXCEPT !.isClosed = TRUE]
      /\ \A j \in BatchIds \ {id} : r.batches[j] = s.batches[j]
  BY <1>1, <1>2, <1>3, <1>6
<1> QED BY <1>1, <1>6, <1>7 DEF r

\* A batch that is closed keeps what holds of it.
LEMMA ClosedKeeps ==
  ASSUME NEW b \in Batch, NEW c, c = [b EXCEPT !.isClosed = TRUE]
  PROVE  /\ \A id, t : OpenedWell(c, id, t) <=> OpenedWell(b, id, t)
         /\ Unsold(c) = Unsold(b) /\ (SoldOut(c) <=> SoldOut(b))
         /\ \A a : Follows(c, a) <=> Follows(b, a)
         /\ c.isClosed
         /\ c.startTime = b.startTime /\ c.endTime = b.endTime
         /\ c.sold = b.sold /\ c.hardCap = b.hardCap
BY DEF Batch, OpenedWell, Unsold, SoldOut, Follows

\* Rolling over neither loses nor creates DDC.
LEMMA RemainingStep ==
  ASSUME NEW id \in BatchIds, id < TOTAL_BATCHES, NEW u \in Nat
  PROVE  u + (TOTAL_BATCHES - id) * BATCH_BASE_ALLOCATION
           = (BATCH_BASE_ALLOCATION + u) + (TOTAL_BATCHES - (id + 1)) * BATCH_BASE_ALLOCATION
<1>1. /\ TOTAL_BATCHES - id \in Nat \ {0}
      /\ TOTAL_BATCHES - (id + 1) = (TOTAL_BATCHES - id) - 1
      /\ BATCH_BASE_ALLOCATION \in Nat
  BY ScheduleAssumption DEF BatchIds
<1>2. \A k \in Nat \ {0}, a \in Nat : k * a = a + (k - 1) * a
  OBVIOUS
<1>3. (TOTAL_BATCHES - id) * BATCH_BASE_ALLOCATION
        = BATCH_BASE_ALLOCATION + ((TOTAL_BATCHES - id) - 1) * BATCH_BASE_ALLOCATION
  BY <1>1, <1>2
<1>4. /\ (TOTAL_BATCHES - id) * BATCH_BASE_ALLOCATION \in Int
      /\ (TOTAL_BATCHES - (id + 1)) * BATCH_BASE_ALLOCATION \in Int
  BY <1>1
<1> QED BY <1>1, <1>3, <1>4

\* The current batch
LEMMA CurrentBatch ==
  ASSUME NEW t, NEW s, ScheduleInv(s, t)
  PROVE  /\ s.currentBatchId \in BatchIds
         /\ s.batches[s.currentBatchId] \in Batch
         /\ OpenedWell(s.batches[s.currentBatchId], s.currentBatchId, t)
<1>1. s.currentBatchId \in BatchIds /\ s.batches \in [BatchIds -> Batch]
  BY DEF ScheduleInv, Schedule, BatchIds
<1>2. s.currentBatchId <= s.currentBatchId
  BY <1>1 DEF BatchIds
<1> QED BY <1>1, <1>2 DEF ScheduleInv

LEMMA OpenedTimes ==
  ASSUME NEW b \in Batch, NEW id, NEW t, OpenedWell(b, id, t)
  PROVE  b.startTime \in Nat \ {0} /\ b.endTime \in Nat /\ b.startTime <= b.endTime
BY ScheduleAssumption DEF OpenedWell, Batch

\* A pass that moves on keeps the invariant and what remains.
LEMMA AdvanceKeeps ==
  ASSUME NEW t \in Nat, NEW s, ScheduleInv(s, t), s.currentBatchId # TOTAL_BATCHES, Due(s, t)
  PROVE  ScheduleInv(Advance(s, t), t) /\ Remaining(Advance(s, t)) = Remaining(s)
<1> DEFINE id == s.currentBatchId
           b == s.batches[id]
           r == Advance(s, t)
           n == r.batches[id+1]
<1>1. /\ id \in BatchIds /\ id + 1 \in BatchIds /\ id < TOTAL_BATCHES
      /\ r \in Schedule
      /\ r.currentBatchId = id + 1
      /\ r.batches[id] = [b EXCEPT !.isClosed = TRUE]
      /\ n = OpenedBatch(id + 1, Unsold(b), NextStart(b, t))
      /\ \A j \in BatchIds \ {id, id + 1} : r.batches[j] = s.batches[j]
  BY AdvanceShape
<1>2. b \in Batch /\ Unsold(b) \in Nat
  <2>1. b \in Batch
    BY <1>1 DEF ScheduleInv, Schedule
  <2> QED BY <2>1, UnsoldType
<1>3. OpenedWell(b, id, t) /\ ~b.isClosed /\ (SoldOut(b) \/ Expired(b, t))
  <2>1. OpenedWell(b, id, t)
    BY <1>1 DEF ScheduleInv, BatchIds
  <2>2. ~b.isClosed /\ (SoldOut(b) \/ Expired(b, t))
    BY DEF Due
  <2> QED BY <2>1, <2>2
<1>4. SoldOut(b) => b.startTime <= t /\ t <= b.endTime
  BY <1>1, <1>2, <1>3 DEF ScheduleInv, OpenedWell, SoldOut, Batch
<1>5. /\ NextStart(b, t) \in Nat \ {0}
      /\ b.startTime <= NextStart(b, t) /\ NextStart(b, t) <= b.endTime
      /\ NextStart(b, t) < b.endTime => SoldOut(b)
  <2>1. /\ b.startTime \in Nat \ {0} /\ b.endTime \in Nat
        /\ b.startTime <= b.endTime
    BY <1>2, <1>3, OpenedTimes
  <2>2. CASE SoldOut(b)
    BY <1>4, <2>1, <2>2 DEF NextStart
  <2>3. CASE ~SoldOut(b)
    BY <2>1, <2>3 DEF NextStart
  <2> QED BY <2>2, <2>3
<1>6. /\ n.priceUSDT = Prices[id] /\ n.rolloverIn = Unsold(b) /\ n.sold = 0
      /\ n.hardCap = BATCH_BASE_ALLOCATION + Unsold(b)
      /\ n.startTime = NextStart(b, t) /\ n.endTime = NextStart(b, t) + BATCH_DURATION
      /\ ~n.isClosed
  BY <1>1 DEF OpenedBatch, BatchIds
<1>7. OpenedWell(n, id + 1, t) /\ ~SoldOut(n)
  <2> HIDE DEF id, b, r, n
  <2>1. id \in Nat /\ (id + 1) - 1 = id
    BY <1>1 DEF BatchIds
  <2>2. NextStart(b, t) # 0
    BY <1>5
  <2>3. 0 < n.hardCap /\ n.sold = 0 /\ n.hardCap \in Nat
    BY <1>2, <1>6, ScheduleAssumption
  <2> QED BY <1>6, <2>1, <2>2, <2>3 DEF OpenedWell, SoldOut
<1>8. Follows(n, r.batches[id])
  BY <1>1, <1>2, <1>5, <1>6, ClosedKeeps DEF Follows
<1>9. Unsold(n) = BATCH_BASE_ALLOCATION + Unsold(b)
  BY <1>2, <1>6, ScheduleAssumption DEF Unsold
<1> HIDE DEF id, b, r, n
<1>10. ASSUME NEW j \in BatchIds, r.currentBatchId < j PROVE r.batches[j] = Unopened
  BY <1>1, <1>10 DEF ScheduleInv, BatchIds, id
<1>11. ASSUME NEW j \in BatchIds, j <= r.currentBatchId PROVE OpenedWell(r.batches[j], j, t)
  <2>1. CASE j = id + 1
    BY <1>7, <2>1 DEF n
  <2>2. CASE j = id
    BY <1>1, <1>2, <1>3, <2>2, ClosedKeeps
  <2>3. CASE j < id
    BY <1>1, <2>3 DEF ScheduleInv, BatchIds, id
  <2> QED BY <1>1, <1>11, <2>1, <2>2, <2>3 DEF BatchIds
<1>12. ASSUME NEW j \in BatchIds, j < r.currentBatchId PROVE Follows(r.batches[j+1], r.batches[j])
  <2>1. CASE j = id
    BY <1>8, <2>1 DEF n
  <2>2. CASE j + 1 = id
    <3>1. Follows(b, s.batches[j]) /\ r.batches[j] = s.batches[j]
      BY <1>1, <2>2 DEF ScheduleInv, BatchIds, id, b
    <3> QED BY <3>1, <1>1, <1>2, <2>2, ClosedKeeps
  <2>3. CASE j + 1 < id
    <3>1. id \in Nat /\ TOTAL_BATCHES \in Nat /\ id < TOTAL_BATCHES /\ j \in Nat /\ 1 <= j
      BY <1>1, ScheduleAssumption DEF BatchIds
    <3>2. j + 1 \in BatchIds /\ j < id
      BY <2>3, <3>1 DEF BatchIds
    <3>3. j \in BatchIds \ {id, id + 1} /\ j + 1 \in BatchIds \ {id, id + 1}
      BY <2>3, <3>1, <3>2
    <3>4. Follows(s.batches[j+1], s.batches[j])
      BY <3>2 DEF ScheduleInv, id
    <3> QED BY <1>1, <3>3, <3>4
  <2> QED BY <1>1, <1>12, <2>1, <2>2, <2>3 DEF BatchIds
<1>13. ScheduleInv(r, t)
  BY <1>1, <1>6, <1>7, <1>10, <1>11, <1>12 DEF ScheduleInv, n, BatchIds
<1>14. Remaining(r) = Remaining(s)
  BY <1>1, <1>2, <1>9, RemainingStep DEF Remaining, n, b, id
<1> QED BY <1>13, <1>14 DEF r
\* So does a pass that closes the last batch.
LEMMA CloseKeeps ==
  ASSUME NEW t \in Nat, NEW s, ScheduleInv(s, t), s.currentBatchId = TOTAL_BATCHES
  PROVE  ScheduleInv(Closing(s), t) /\ Remaining(Closing(s)) = Remaining(s)
<1> DEFINE r == Closing(s)
           id == s.currentBatchId
           b == s.batches[id]
<1>1. /\ id \in BatchIds
      /\ r \in Schedule
      /\ r.currentBatchId = id
      /\ r.batches[id] = [b EXCEPT !.isClosed = TRUE]
      /\ \A j \in BatchIds \ {id} : r.batches[j] = s.batches[j]
  BY CloseShape
<1>2. b \in Batch
  BY <1>1 DEF ScheduleInv, Schedule
<1>3. /\ \A j, u : OpenedWell(r.batches[id], j, u) <=> OpenedWell(b, j, u)
      /\ Unsold(r.batches[id]) = Unsold(b)
      /\ \A a : Follows(r.batches[id], a) <=> Follows(b, a)
      /\ r.batches[id].isClosed
  BY <1>1, <1>2, ClosedKeeps
<1> HIDE DEF b, r
<1>4. ASSUME NEW j \in BatchIds, j <= r.currentBatchId PROVE OpenedWell(r.batches[j], j, t)
  <2>1. OpenedWell(s.batches[j], j, t)
    BY <1>1, <1>4 DEF ScheduleInv
  <2> QED BY <2>1, <1>1, <1>3 DEF b
<1>5. ASSUME NEW j \in BatchIds, j < r.currentBatchId PROVE Follows(r.batches[j+1], r.batches[j])
  <2>1. Follows(s.batches[j+1], s.batches[j])
    BY <1>1, <1>5 DEF ScheduleInv
  <2>2. r.batches[j] = s.batches[j] /\ j + 1 \in BatchIds
    BY <1>1, <1>5 DEF BatchIds
  <2> QED BY <2>1, <2>2, <1>1, <1>3 DEF b
<1>6. \A j \in BatchIds : ~(r.currentBatchId < j)
  BY <1>1, ScheduleAssumption DEF BatchIds
<1>7. ScheduleInv(r, t)
  BY <1>1, <1>3, <1>4, <1>5, <1>6 DEF ScheduleInv, BatchIds
<1>8. Remaining(r) = Remaining(s)
  BY <1>1, <1>3 DEF Remaining, b
<1> QED BY <1>7, <1>8 DEF r

LEMMA SyncStepKeeps ==
  ASSUME NEW t \in Nat, NEW s, ScheduleInv(s, t)
  PROVE  ScheduleInv(SyncStep(s, t), t) /\ Remaining(SyncStep(s, t)) = Remaining(s)
<1>1. CASE ~Due(s, t)
  BY <1>1 DEF SyncStep
<1>2. CASE Due(s, t) /\ s.currentBatchId = TOTAL_BATCHES
  BY <1>2, CloseKeeps DEF SyncStep, Closing
<1>3. CASE Due(s, t) /\ s.currentBatchId # TOTAL_BATCHES
  BY <1>3, AdvanceKeeps DEF SyncStep
<1> QED BY <1>1, <1>2, <1>3

\* A pass moves on, or closes the last batch, or finds nothing due.
LEMMA SyncStepProgress ==
  ASSUME NEW t \in Nat, NEW s, ScheduleInv(s, t), Due(s, t)
  PROVE  IF s.currentBatchId = TOTAL_BATCHES
         THEN ~Due(SyncStep(s, t), t)
         ELSE SyncStep(s, t).currentBatchId = s.currentBatchId + 1
<1>1. CASE s.currentBatchId = TOTAL_BATCHES
  <2> DEFINE r == Closing(s)
  <2>1. /\ s.currentBatchId \in BatchIds
        /\ r.currentBatchId = s.currentBatchId
        /\ r.batches[s.currentBatchId] = [s.batches[s.currentBatchId] EXCEPT !.isClosed = TRUE]
    BY CloseShape
  <2>2. s.batches[s.currentBatchId] \in Batch
    BY <2>1 DEF ScheduleInv, Schedule
  <2>3. r.batches[s.currentBatchId].isClosed
    BY <2>1, <2>2, ClosedKeeps
  <2>4. SyncStep(s, t) = r
    BY <1>1 DEF SyncStep, Closing
  <2> QED BY <1>1, <2>1, <2>3, <2>4 DEF Due
<1>2. CASE s.currentBatchId # TOTAL_BATCHES
  <2>1. SyncStep(s, t) = Advance(s, t)
    BY <1>2 DEF SyncStep
  <2>2. Advance(s, t).currentBatchId = s.currentBatchId + 1
    BY DEF Advance
  <2> QED BY <1>2, <2>1, <2>2
<1> QED BY <1>1, <1>2

\* The loop keeps the invariant and what remains, and when it ends no batch
\* is due: TOTAL_BATCHES passes are enough.
LEMMA SyncLoopKeeps ==
  ASSUME NEW t \in Nat, NEW s, ScheduleInv(s, t)
  PROVE  /\ ScheduleInv(SyncLoop(s, t), t)
         /\ Remaining(SyncLoop(s, t)) = Remaining(s)
         /\ ~Due(SyncLoop(s, t), t)
<1> DEFINE G == {x \in Schedule : ScheduleInv(x, t) /\ Remaining(x) = Remaining(s)}
<1>1. SyncLoop(s, t) \in G
  <2>1. s \in G
    BY DEF ScheduleInv
  <2>2. \A x \in G : SyncStep(x, t) \in G
    BY SyncStepKeeps DEF ScheduleInv
  <2> HIDE DEF G
  <2> QED BY <2>1, <2>2, SyncLoopInvariant
<1>2. PICK f : /\ f[0] = s
               /\ \A n \in 0..TOTAL_BATCHES-1 : f[n+1] = SyncStep(f[n], t)
               /\ SyncLoop(s, t) = f[TOTAL_BATCHES]
  BY SyncLoopPasses
<1> DEFINE last == TOTAL_BATCHES - 1
           T == {n \in 0..last : /\ ScheduleInv(f[n], t)
                                 /\ Due(f[n], t) => n + 1 <= f[n].currentBatchId}
<1>3. last \in Nat /\ last + 1 = TOTAL_BATCHES
  BY ScheduleAssumption
<1>4. 0 \in T
  BY <1>2, <1>3 DEF ScheduleInv, Schedule
<1>5. ASSUME NEW k \in T, k < last PROVE k + 1 \in T
  <2>1. f[k+1] = SyncStep(f[k], t) /\ ScheduleInv(f[k+1], t)
    BY <1>2, <1>3, SyncStepKeeps
  <2>2. f[k].currentBatchId \in 0..TOTAL_BATCHES
    BY DEF ScheduleInv, Schedule
  <2>3. CASE ~Due(f[k], t)
    BY <2>1, <2>3, <1>3, <1>5 DEF SyncStep
  <2>4. CASE Due(f[k], t)
    <3>1. IF f[k].currentBatchId = TOTAL_BATCHES
          THEN ~Due(f[k+1], t)
          ELSE f[k+1].currentBatchId = f[k].currentBatchId + 1
      BY <2>1, <2>4, SyncStepProgress
    <3>2. k + 1 <= f[k].currentBatchId
      BY <2>4
    <3>3. Due(f[k+1], t) => (k + 1) + 1 <= f[k+1].currentBatchId
      BY <3>1, <3>2, <2>2
    <3> QED BY <3>3, <2>1, <1>3, <1>5
  <2> QED BY <2>3, <2>4
<1>6. last \in T
  <2>1. T \in SUBSET (0..last)
    OBVIOUS
  <2> HIDE DEF T, last
  <2> QED BY <2>1, <1>3, <1>4, <1>5, IntervalInduction
<1>7. /\ ScheduleInv(f[last], t)
      /\ f[TOTAL_BATCHES] = SyncStep(f[last], t)
      /\ f[last].currentBatchId \in 0..TOTAL_BATCHES
      /\ Due(f[last], t) => f[last].currentBatchId = TOTAL_BATCHES
  <2>1. ScheduleInv(f[last], t) /\ f[last].currentBatchId \in 0..TOTAL_BATCHES
    BY <1>6 DEF ScheduleInv, Schedule
  <2>2. f[TOTAL_BATCHES] = SyncStep(f[last], t)
    <3> HIDE DEF T
    <3> QED BY <1>2, <1>3
  <2>3. Due(f[last], t) => TOTAL_BATCHES <= f[last].currentBatchId
    BY <1>6, <1>3
  <2> HIDE DEF T, last
  <2> QED BY <2>1, <2>2, <2>3, <1>3
<1>8. ~Due(f[TOTAL_BATCHES], t)
  <2> HIDE DEF T, last
  <2>1. CASE Due(f[last], t)
    BY <2>1, <1>7, SyncStepProgress
  <2>2. CASE ~Due(f[last], t)
    BY <2>2, <1>7 DEF SyncStep
  <2> QED BY <2>1, <2>2
<1> QED BY <1>1, <1>2, <1>8
---------------------------------------------------------------------------
(* When a sync happens does not matter *)

\* A schedule between transactions: what is sold out is closed.
Settled(s) ==
  LET b == s.batches[s.currentBatchId] IN SoldOut(b) => b.isClosed

\* A settled schedule stays right while time passes.
LEMMA LaterInv ==
  ASSUME NEW t \in Nat, NEW later \in Nat, t <= later,
         NEW s, ScheduleInv(s, t), Settled(s)
  PROVE  ScheduleInv(s, later)
<1>1. ASSUME NEW id \in BatchIds, OpenedWell(s.batches[id], id, t)
      PROVE  OpenedWell(s.batches[id], id, later)
  <2>1. s.batches[id] \in Batch
    BY DEF ScheduleInv, Schedule
  <2> QED BY <1>1, <2>1 DEF OpenedWell, Batch
<1> QED BY <1>1 DEF ScheduleInv, Settled

\* In a settled schedule a pass does the same whenever it is made.
LEMMA StepTimeless ==
  ASSUME NEW t \in Nat, NEW later \in Nat, t <= later,
         NEW s, ScheduleInv(s, t), Settled(s), Due(s, t)
  PROVE  SyncStep(s, t) = SyncStep(s, later) /\ Settled(SyncStep(s, t))
<1> DEFINE id == s.currentBatchId
           b == s.batches[id]
<1>1. ~SoldOut(b) /\ Expired(b, t) /\ ~b.isClosed
  BY DEF Settled, Due
<1>2. b \in Batch /\ id \in BatchIds /\ OpenedWell(b, id, t)
  BY CurrentBatch
<1>3. Due(s, later)
  BY <1>1, <1>2 DEF Due, Expired, Batch, ScheduleInv
<1>4. CASE id = TOTAL_BATCHES
  <2>1. SyncStep(s, t) = Closing(s) /\ SyncStep(s, later) = Closing(s)
    BY <1>3, <1>4 DEF SyncStep, Closing
  <2>2. /\ Closing(s).currentBatchId = id
        /\ Closing(s).batches[id] = [b EXCEPT !.isClosed = TRUE]
    BY CloseShape
  <2>3. Closing(s).batches[id].isClosed
    BY <1>2, <2>2, ClosedKeeps
  <2> HIDE DEF id, b
  <2> QED BY <2>1, <2>2, <2>3 DEF Settled
<1>5. CASE id # TOTAL_BATCHES
  <2>1. SyncStep(s, t) = Advance(s, t) /\ SyncStep(s, later) = Advance(s, later)
    BY <1>3, <1>5 DEF SyncStep
  <2>2. NextStart(b, t) = NextStart(b, later)
    BY <1>1 DEF NextStart
  <2>3. NextBatch(id + 1, b, s.batches[id+1], t) = NextBatch(id + 1, b, s.batches[id+1], later)
    BY <1>1, <2>2 DEF NextBatch
  <2>4. Advance(s, t) = Advance(s, later)
    BY <2>3 DEF Advance
  <2>5. Advance(s, t).currentBatchId = id + 1
    BY DEF Advance
  <2>6. /\ id \in BatchIds /\ id + 1 \in BatchIds /\ id < TOTAL_BATCHES
        /\ Advance(s, t) \in Schedule
        /\ Advance(s, t).currentBatchId = id + 1
        /\ Advance(s, t).batches[id] = [b EXCEPT !.isClosed = TRUE]
        /\ Advance(s, t).batches[id+1] = OpenedBatch(id + 1, Unsold(b), NextStart(b, t))
        /\ \A j \in BatchIds \ {id, id + 1} : Advance(s, t).batches[j] = s.batches[j]
    BY <1>5, AdvanceShape
  <2>7. Unsold(b) \in Nat
    BY <1>2, UnsoldType
  <2>8. ~SoldOut(Advance(s, t).batches[id+1])
    BY <2>6, <2>7, ScheduleAssumption DEF SoldOut, OpenedBatch
  <2> HIDE DEF id, b
  <2> QED BY <2>1, <2>4, <2>5, <2>8 DEF Settled
<1> QED BY <1>4, <1>5

\* The loop may as well be entered one pass later.
LEMMA LoopFromStep ==
  ASSUME NEW t \in Nat, NEW s, ScheduleInv(s, t)
  PROVE  SyncLoop(SyncStep(s, t), t) = SyncLoop(s, t)
<1>1. PICK f : /\ f[0] = s
               /\ \A n \in 0..TOTAL_BATCHES-1 : f[n+1] = SyncStep(f[n], t)
               /\ SyncLoop(s, t) = f[TOTAL_BATCHES]
  BY SyncLoopPasses
<1>2. PICK g : /\ g[0] = SyncStep(s, t)
               /\ \A n \in 0..TOTAL_BATCHES-1 : g[n+1] = SyncStep(g[n], t)
               /\ SyncLoop(SyncStep(s, t), t) = g[TOTAL_BATCHES]
  BY SyncLoopPasses
<1> DEFINE last == TOTAL_BATCHES - 1
           T == {n \in 0..last : g[n] = f[n+1]}
<1>3. last \in Nat /\ last + 1 = TOTAL_BATCHES
  BY ScheduleAssumption
<1>4. 0 \in T
  BY <1>1, <1>2, <1>3
<1>5. \A k \in T : k < last => k + 1 \in T
  BY <1>1, <1>2, <1>3
<1>6. last \in T
  <2>1. T \in SUBSET (0..last)
    OBVIOUS
  <2> HIDE DEF T, last
  <2> QED BY <2>1, <1>3, <1>4, <1>5, IntervalInduction
<1>7. g[last] = f[TOTAL_BATCHES]
  BY <1>3, <1>6
<1>8. g[TOTAL_BATCHES] = SyncStep(f[TOTAL_BATCHES], t)
  <2>1. g[last+1] = SyncStep(g[last], t)
    BY <1>2, <1>3
  <2> QED BY <2>1, <1>3, <1>7
<1>9. ~Due(f[TOTAL_BATCHES], t)
  BY <1>1, SyncLoopKeeps
<1> QED BY <1>1, <1>2, <1>8, <1>9 DEF SyncStep

\* A sync now and one later do what a single later one does.
LEMMA SyncLoopTwice ==
  ASSUME NEW t \in Nat, NEW later \in Nat, t <= later,
         NEW s, ScheduleInv(s, t), Settled(s)
  PROVE  SyncLoop(SyncLoop(s, t), later) = SyncLoop(s, later)
<1> DEFINE G == {x \in Schedule : /\ ScheduleInv(x, t) /\ Settled(x)
                                  /\ SyncLoop(x, later) = SyncLoop(s, later)}
<1>1. s \in G
  BY DEF ScheduleInv
<1>2. ASSUME NEW x \in G PROVE SyncStep(x, t) \in G
  <2>1. CASE ~Due(x, t)
    BY <2>1 DEF SyncStep
  <2>2. CASE Due(x, t)
    <3>1. SyncStep(x, t) = SyncStep(x, later) /\ Settled(SyncStep(x, t))
      BY <2>2, StepTimeless
    <3>2. ScheduleInv(SyncStep(x, t), t) /\ SyncStep(x, t) \in Schedule
      BY SyncStepKeeps DEF ScheduleInv
    <3>3. SyncLoop(SyncStep(x, later), later) = SyncLoop(x, later)
      <4>1. ScheduleInv(x, later)
        BY LaterInv
      <4> QED BY <4>1, LoopFromStep
    <3> QED BY <3>1, <3>2, <3>3
  <2> QED BY <2>1, <2>2
<1>3. SyncLoop(s, t) \in G
  <2> HIDE DEF G
  <2> QED BY <1>1, <1>2, SyncLoopInvariant
<1> QED BY <1>3

---------------------------------------------------------------------------
(* The release curve *)

LEMMA DivMonotone ==
  ASSUME NEW a \in Nat, NEW b \in Nat, a <= b, NEW d \in Nat \ {0}
  PROVE  a \div d \in Nat /\ b \div d \in Nat /\ a \div d <= b \div d
OBVIOUS

LEMMA ProductMonotone ==
  ASSUME NEW a \in Nat, NEW b \in Nat, NEW c \in Nat, NEW d \in Nat, a <= c, b <= d
  PROVE  a * b \in Nat /\ c * d \in Nat /\ a * b <= c * d
OBVIOUS

LEMMA DivCancel ==
  ASSUME NEW a \in Nat, NEW d \in Nat \ {0}
  PROVE  (a * d) \div (100 * d) = a \div 100
OBVIOUS

LEMMA ShareMonotone ==
  ASSUME NEW p \in Nat, NEW q \in Nat, p <= q, NEW percent \in Nat
  PROVE  /\ Share(p, percent) \in Nat /\ Share(q, percent) \in Nat
         /\ Share(p, percent) <= Share(q, percent)
<1>1. p * percent \in Nat /\ q * percent \in Nat /\ p * percent <= q * percent
  BY ProductMonotone
<1> QED BY <1>1, DivMonotone DEF Share

LEMMA LinearMonotone ==
  ASSUME NEW p \in Nat, NEW q \in Nat, p <= q, NEW percent \in Nat,
         NEW e \in Nat, NEW f \in Nat, e <= f
  PROVE  /\ Linear(p, percent, e) \in Nat /\ Linear(q, percent, f) \in Nat
         /\ Linear(p, percent, e) <= Linear(q, percent, f)
<1>1. p * percent \in Nat /\ q * percent \in Nat /\ p * percent <= q * percent
  BY ProductMonotone
<1>2. /\ p * percent * e \in Nat /\ q * percent * f \in Nat
      /\ p * percent * e <= q * percent * f
  BY <1>1, ProductMonotone
<1>3. 100 * PHASE_DURATION \in Nat \ {0}
  BY PhaseAssumption
<1> QED BY <1>2, <1>3, DivMonotone DEF Linear

\* A phase never releases more than its share.
LEMMA LinearBound ==
  ASSUME NEW p \in Nat, NEW percent \in Nat, NEW e \in Nat, e <= PHASE_DURATION
  PROVE  Linear(p, percent, e) <= Share(p, percent)
<1>1. PHASE_DURATION \in Nat \ {0} /\ p * percent \in Nat
  BY PhaseAssumption
<1>2. Linear(p, percent, e) <= Linear(p, percent, PHASE_DURATION)
  BY <1>1, LinearMonotone
<1>3. Linear(p, percent, PHASE_DURATION) = Share(p, percent)
  BY <1>1, DivCancel DEF Linear, Share
<1> QED BY <1>2, <1>3

LEMMA SharesBound ==
  ASSUME NEW p \in Nat
  PROVE  Share(p, 10) + Share(p, 45) + Share(p, 30) + Share(p, 15) <= p
BY DEF Share

\* The formula of each phase
LEMMA Phases ==
  ASSUME NEW p \in Nat, NEW e \in Nat
  PROVE  \/ /\ e < PHASE_DURATION
            /\ ReleasedAfter(p, e) = Share(p, 10) + Linear(p, 45, e)
         \/ /\ PHASE_DURATION <= e /\ e < 2 * PHASE_DURATION
            /\ ReleasedAfter(p, e)
                 = Share(p, 10) + Share(p, 45) + Linear(p, 30, e - PHASE_DURATION)
         \/ /\ 2 * PHASE_DURATION <= e /\ e < 3 * PHASE_DURATION
            /\ ReleasedAfter(p, e)
                 = Share(p, 10) + Share(p, 45) + Share(p, 30)
                     + Linear(p, 15, e - 2 * PHASE_DURATION)
         \/ /\ 3 * PHASE_DURATION <= e
            /\ ReleasedAfter(p, e) = p
<1>1. PHASE_DURATION \in Nat \ {0}
  BY PhaseAssumption
<1>2. CASE e < PHASE_DURATION
  BY <1>1, <1>2 DEF ReleasedAfter
<1>3. CASE PHASE_DURATION <= e /\ e < 2 * PHASE_DURATION
  BY <1>1, <1>3 DEF ReleasedAfter
<1>4. CASE 2 * PHASE_DURATION <= e /\ e < 3 * PHASE_DURATION
  BY <1>1, <1>4 DEF ReleasedAfter
<1>5. CASE 3 * PHASE_DURATION <= e
  BY <1>1, <1>5 DEF ReleasedAfter
<1> QED BY <1>1, <1>2, <1>3, <1>4, <1>5
\* What has been released lies between what the phases before have released
\* in full and that plus the share of the phase.
LEMMA PhaseBounds ==
  ASSUME NEW p \in Nat, NEW e \in Nat
  PROVE  /\ ReleasedAfter(p, e) \in Nat
         /\ e < PHASE_DURATION => ReleasedAfter(p, e) <= Share(p, 10) + Share(p, 45)
         /\ PHASE_DURATION <= e /\ e < 2 * PHASE_DURATION =>
              /\ Share(p, 10) + Share(p, 45) <= ReleasedAfter(p, e)
              /\ ReleasedAfter(p, e) <= Share(p, 10) + Share(p, 45) + Share(p, 30)
         /\ 2 * PHASE_DURATION <= e /\ e < 3 * PHASE_DURATION =>
              Share(p, 10) + Share(p, 45) + Share(p, 30) <= ReleasedAfter(p, e)
         /\ ReleasedAfter(p, e) <= p
         /\ 3 * PHASE_DURATION <= e => ReleasedAfter(p, e) = p
<1>1. PHASE_DURATION \in Nat \ {0}
  BY PhaseAssumption
<1>2. /\ Share(p, 10) \in Nat /\ Share(p, 45) \in Nat
      /\ Share(p, 30) \in Nat /\ Share(p, 15) \in Nat
      /\ Share(p, 10) + Share(p, 45) + Share(p, 30) + Share(p, 15) <= p
  <2>1. \A k \in Nat : Share(p, k) \in Nat
    BY ShareMonotone
  <2> QED BY <2>1, SharesBound
<1>3. ASSUME NEW k \in Nat, NEW x \in Nat, x <= PHASE_DURATION
      PROVE  Linear(p, k, x) \in Nat /\ Linear(p, k, x) <= Share(p, k)
  BY <1>3, LinearMonotone, LinearBound
<1>4. CASE e < PHASE_DURATION
  <2>1. ReleasedAfter(p, e) = Share(p, 10) + Linear(p, 45, e)
    BY <1>1, <1>4, Phases
  <2>2. Linear(p, 45, e) \in Nat /\ Linear(p, 45, e) <= Share(p, 45)
    BY <1>1, <1>3, <1>4
  <2> QED BY <1>1, <1>2, <1>4, <2>1, <2>2
<1>5. CASE PHASE_DURATION <= e /\ e < 2 * PHASE_DURATION
  <2> DEFINE x == e - PHASE_DURATION
  <2>1. ReleasedAfter(p, e) = Share(p, 10) + Share(p, 45) + Linear(p, 30, x)
    BY <1>1, <1>5, Phases
  <2>2. x \in Nat /\ x <= PHASE_DURATION
    BY <1>1, <1>5
  <2>3. Linear(p, 30, x) \in Nat /\ Linear(p, 30, x) <= Share(p, 30)
    BY <1>3, <2>2
  <2> QED BY <1>1, <1>2, <1>5, <2>1, <2>3
<1>6. CASE 2 * PHASE_DURATION <= e /\ e < 3 * PHASE_DURATION
  <2> DEFINE x == e - 2 * PHASE_DURATION
  <2>1. ReleasedAfter(p, e) = Share(p, 10) + Share(p, 45) + Share(p, 30) + Linear(p, 15, x)
    BY <1>1, <1>6, Phases
  <2>2. x \in Nat /\ x <= PHASE_DURATION
    BY <1>1, <1>6
  <2>3. Linear(p, 15, x) \in Nat /\ Linear(p, 15, x) <= Share(p, 15)
    BY <1>3, <2>2
  <2> QED BY <1>1, <1>2, <1>6, <2>1, <2>3
<1>7. CASE 3 * PHASE_DURATION <= e
  <2>1. ReleasedAfter(p, e) = p
    BY <1>1, <1>7, Phases
  <2> QED BY <1>1, <1>7, <2>1
<1> QED BY <1>1, <1>4, <1>5, <1>6, <1>7

\* It only grows with time ...
LEMMA ReleasedGrowsInTime ==
  ASSUME NEW p \in Nat, NEW e \in Nat, NEW f \in Nat, e <= f
  PROVE  ReleasedAfter(p, e) <= ReleasedAfter(p, f)
<1>1. PHASE_DURATION \in Nat \ {0}
  BY PhaseAssumption
<1>2. \A k \in Nat : Share(p, k) \in Nat
  BY ShareMonotone
<1>3. ASSUME NEW k \in Nat, NEW x \in Nat, NEW y \in Nat, x <= y
      PROVE  /\ Linear(p, k, x) \in Nat /\ Linear(p, k, y) \in Nat
             /\ Linear(p, k, x) <= Linear(p, k, y)
  <2>1. p <= p
    OBVIOUS
  <2> QED BY <1>3, <2>1, LinearMonotone
<1>4. CASE f < PHASE_DURATION
  <2>1. /\ ReleasedAfter(p, e) = Share(p, 10) + Linear(p, 45, e)
        /\ ReleasedAfter(p, f) = Share(p, 10) + Linear(p, 45, f)
    BY <1>1, <1>4, Phases
  <2> QED BY <2>1, <1>2, <1>3
<1>5. CASE /\ PHASE_DURATION <= e /\ e < 2 * PHASE_DURATION
           /\ PHASE_DURATION <= f /\ f < 2 * PHASE_DURATION
  <2> DEFINE x == e - PHASE_DURATION
             y == f - PHASE_DURATION
  <2>1. /\ ReleasedAfter(p, e) = Share(p, 10) + Share(p, 45) + Linear(p, 30, x)
        /\ ReleasedAfter(p, f) = Share(p, 10) + Share(p, 45) + Linear(p, 30, y)
    BY <1>1, <1>5, Phases
  <2>2. x \in Nat /\ y \in Nat /\ x <= y
    BY <1>1, <1>5
  <2> HIDE DEF x, y
  <2> QED BY <2>1, <2>2, <1>2, <1>3
<1>6. CASE /\ 2 * PHASE_DURATION <= e /\ e < 3 * PHASE_DURATION
           /\ 2 * PHASE_DURATION <= f /\ f < 3 * PHASE_DURATION
  <2> DEFINE x == e - 2 * PHASE_DURATION
             y == f - 2 * PHASE_DURATION
  <2>1. /\ ReleasedAfter(p, e) = Share(p, 10) + Share(p, 45) + Share(p, 30) + Linear(p, 15, x)
        /\ ReleasedAfter(p, f) = Share(p, 10) + Share(p, 45) + Share(p, 30) + Linear(p, 15, y)
    BY <1>1, <1>6, Phases
  <2>2. x \in Nat /\ y \in Nat /\ x <= y
    BY <1>1, <1>6
  <2> HIDE DEF x, y
  <2> QED BY <2>1, <2>2, <1>2, <1>3
<1>7. CASE 3 * PHASE_DURATION <= f
  BY <1>1, <1>7, PhaseBounds
<1>8. CASE \/ e < PHASE_DURATION /\ PHASE_DURATION <= f
           \/ e < 2 * PHASE_DURATION /\ 2 * PHASE_DURATION <= f
  <2>1. /\ Share(p, 10) + Share(p, 45) \in Nat
        /\ Share(p, 10) + Share(p, 45) + Share(p, 30) \in Nat
    BY <1>2
  <2>2. ReleasedAfter(p, e) \in Nat /\ ReleasedAfter(p, f) \in Nat
    BY PhaseBounds
  <2>3. CASE e < PHASE_DURATION /\ PHASE_DURATION <= f /\ f < 2 * PHASE_DURATION
    <3>1. ReleasedAfter(p, e) <= Share(p, 10) + Share(p, 45)
      BY <2>3, PhaseBounds
    <3>2. Share(p, 10) + Share(p, 45) <= ReleasedAfter(p, f)
      BY <2>3, PhaseBounds
    <3> QED BY <2>1, <2>2, <3>1, <3>2
  <2>4. CASE e < 2 * PHASE_DURATION /\ 2 * PHASE_DURATION <= f /\ f < 3 * PHASE_DURATION
    <3>1. ReleasedAfter(p, e) <= Share(p, 10) + Share(p, 45) + Share(p, 30)
      <4>1. CASE e < PHASE_DURATION
        <5>1. ReleasedAfter(p, e) <= Share(p, 10) + Share(p, 45)
          BY <4>1, PhaseBounds
        <5> QED BY <5>1, <1>2, <2>2
      <4>2. CASE PHASE_DURATION <= e
        BY <2>4, <4>2, PhaseBounds
      <4> QED BY <4>1, <4>2, <1>1
    <3>2. Share(p, 10) + Share(p, 45) + Share(p, 30) <= ReleasedAfter(p, f)
      BY <2>4, PhaseBounds
    <3> QED BY <2>1, <2>2, <3>1, <3>2
  <2> QED BY <1>1, <1>7, <1>8, <2>3, <2>4
<1> QED BY <1>1, <1>4, <1>5, <1>6, <1>7, <1>8

\* ... and with the principal.
LEMMA ReleasedGrowsInPrincipal ==
  ASSUME NEW p \in Nat, NEW q \in Nat, p <= q, NEW e \in Nat
  PROVE  ReleasedAfter(p, e) <= ReleasedAfter(q, e)
<1>1. PHASE_DURATION \in Nat \ {0}
  BY PhaseAssumption
<1>2. \A k \in Nat : Share(p, k) \in Nat /\ Share(q, k) \in Nat /\ Share(p, k) <= Share(q, k)
  BY ShareMonotone
<1>3. \A k \in Nat, x \in Nat :
        Linear(p, k, x) \in Nat /\ Linear(q, k, x) \in Nat /\ Linear(p, k, x) <= Linear(q, k, x)
  BY LinearMonotone
<1>4. CASE e < PHASE_DURATION
  <2>1. /\ ReleasedAfter(p, e) = Share(p, 10) + Linear(p, 45, e)
        /\ ReleasedAfter(q, e) = Share(q, 10) + Linear(q, 45, e)
    BY <1>1, <1>4, Phases
  <2> QED BY <2>1, <1>2, <1>3
<1>5. CASE PHASE_DURATION <= e /\ e < 2 * PHASE_DURATION
  <2> DEFINE x == e - PHASE_DURATION
  <2>1. /\ ReleasedAfter(p, e) = Share(p, 10) + Share(p, 45) + Linear(p, 30, x)
        /\ ReleasedAfter(q, e) = Share(q, 10) + Share(q, 45) + Linear(q, 30, x)
    BY <1>1, <1>5, Phases
  <2>2. x \in Nat
    BY <1>1, <1>5
  <2> HIDE DEF x
  <2> QED BY <2>1, <2>2, <1>2, <1>3
<1>6. CASE 2 * PHASE_DURATION <= e /\ e < 3 * PHASE_DURATION
  <2> DEFINE x == e - 2 * PHASE_DURATION
  <2>1. /\ ReleasedAfter(p, e) = Share(p, 10) + Share(p, 45) + Share(p, 30) + Linear(p, 15, x)
        /\ ReleasedAfter(q, e) = Share(q, 10) + Share(q, 45) + Share(q, 30) + Linear(q, 15, x)
    BY <1>1, <1>6, Phases
  <2>2. x \in Nat
    BY <1>1, <1>6
  <2> HIDE DEF x
  <2>3. /\ Share(p, 10) \in Nat /\ Share(q, 10) \in Nat /\ Share(p, 10) <= Share(q, 10)
        /\ Share(p, 45) \in Nat /\ Share(q, 45) \in Nat /\ Share(p, 45) <= Share(q, 45)
        /\ Share(p, 30) \in Nat /\ Share(q, 30) \in Nat /\ Share(p, 30) <= Share(q, 30)
    BY <1>2
  <2>4. /\ Linear(p, 15, x) \in Nat /\ Linear(q, 15, x) \in Nat
        /\ Linear(p, 15, x) <= Linear(q, 15, x)
    BY <1>3, <2>2
  <2> QED BY <2>1, <2>3, <2>4
<1>7. CASE 3 * PHASE_DURATION <= e
  BY <1>1, <1>7, Phases
<1> QED BY <1>1, <1>4, <1>5, <1>6, <1>7

\* The same of what is unlocked at a time, for a TGE that stays where it is
\* or is set in the future.
LEMMA UnlockedBounds ==
  ASSUME NEW p \in Nat, NEW tge \in Nat, NEW t \in Nat
  PROVE  UnlockedTotal(p, tge, t) \in Nat /\ UnlockedTotal(p, tge, t) <= p
<1>1. CASE tge = 0 \/ t < tge
  BY <1>1 DEF UnlockedTotal
<1>2. CASE ~(tge = 0 \/ t < tge)
  <2>1. t - tge \in Nat
    BY <1>2
  <2> QED BY <1>2, <2>1, PhaseBounds DEF UnlockedTotal
<1> QED BY <1>1, <1>2

LEMMA UnlockedGrows ==
  ASSUME NEW p \in Nat, NEW q \in Nat, p <= q,
         NEW t \in Nat, NEW u \in Nat, t <= u,
         NEW tge \in Nat, NEW later \in Nat, later = tge \/ tge = 0
  PROVE  UnlockedTotal(p, tge, t) <= UnlockedTotal(q, later, u)
<1>1. CASE tge = 0 \/ t < tge
  <2>1. UnlockedTotal(p, tge, t) = 0
    BY <1>1 DEF UnlockedTotal
  <2> QED BY <2>1, UnlockedBounds
<1>2. CASE ~(tge = 0 \/ t < tge)
  <2>1. /\ t - tge \in Nat /\ u - tge \in Nat /\ t - tge <= u - tge
        /\ UnlockedTotal(p, tge, t) = ReleasedAfter(p, t - tge)
        /\ UnlockedTotal(q, later, u) = ReleasedAfter(q, u - tge)
    BY <1>2 DEF UnlockedTotal
  <2>2. ReleasedAfter(p, t - tge) <= ReleasedAfter(q, t - tge)
    BY <2>1, ReleasedGrowsInPrincipal
  <2>3. ReleasedAfter(q, t - tge) <= ReleasedAfter(q, u - tge)
    BY <2>1, ReleasedGrowsInTime
  <2>4. /\ ReleasedAfter(p, t - tge) \in Nat /\ ReleasedAfter(q, t - tge) \in Nat
        /\ ReleasedAfter(q, u - tge) \in Nat
    BY <2>1, PhaseBounds
  <2> QED BY <2>1, <2>2, <2>3, <2>4
<1> QED BY <1>1, <1>2
=============================================================================
