-------------------------- MODULE TokenAllocation --------------------------
(***************************************************************************)
(* What a presale promises of its allocation, whatever its batches, prices *)
(* and transactions are.  A token is sold at most once.  Half of each sale *)
(* is the buyer's, who is paid that and no more.  Closing leaves the pool  *)
(* every token that is no buyer's, of which so many are burn-locked that   *)
(* they meet the target together with the other halves of the sales.       *)
(***************************************************************************)
EXTENDS Integers, Functions

CONSTANTS Buyers, Total, BurnTarget

VARIABLES sold, principal, paid, closed,
          pooled, burnt     \* the pool's tokens, and the burn-locked ones of them

allocationVars == <<sold, principal, paid, closed, pooled, burnt>>

Allotted == SumFunction(principal)

AllocationInit ==
  /\ sold = 0 /\ closed = FALSE /\ pooled = 0 /\ burnt = 0
  /\ principal = [b \in Buyers |-> 0]
  /\ paid = [b \in Buyers |-> 0]

Sell(b) ==
  /\ ~closed
  /\ \E amount \in 1..(Total - sold) :
       /\ sold' = sold + amount
       /\ principal' = [principal EXCEPT ![b] = @ + amount \div 2]
  /\ UNCHANGED <<paid, closed, pooled, burnt>>

Pay(b) ==
  /\ \E amount \in 1..(principal[b] - paid[b]) : paid' = [paid EXCEPT ![b] = @ + amount]
  /\ UNCHANGED <<sold, principal, closed, pooled, burnt>>

Close ==
  /\ ~closed /\ closed' = TRUE
  /\ pooled' = Total - Allotted
  /\ LET lockedBySales == sold - Allotted
     IN  burnt' = IF lockedBySales >= BurnTarget THEN 0 ELSE BurnTarget - lockedBySales
  /\ UNCHANGED <<sold, principal, paid>>

AllocationNext == Close \/ \E b \in Buyers : Sell(b) \/ Pay(b)

AllocationSpec == AllocationInit /\ [][AllocationNext]_allocationVars
=============================================================================
