---------------------------- MODULE VestingCurve ----------------------------
(***************************************************************************)
(* The release curve of a buyer's principal, DDCPresaleVesting's           *)
(* _unlockedTotal: nothing before the TGE, 10% at it, then 45%, 30% and    *)
(* 15% linearly over three phases, each term rounded down on its own.      *)
(***************************************************************************)
EXTENDS Integers

CONSTANT PHASE_DURATION   \* seconds of a phase (180 days)

ASSUME PhaseAssumption == PHASE_DURATION \in Nat \ {0}

Share(principal, percent) == (principal * percent) \div 100

Linear(principal, percent, elapsed) ==
  (principal * percent * elapsed) \div (100 * PHASE_DURATION)

\* What has been released "elapsed" seconds after the TGE
ReleasedAfter(principal, elapsed) ==
  CASE elapsed < PHASE_DURATION ->
         Share(principal, 10) + Linear(principal, 45, elapsed)
    [] PHASE_DURATION <= elapsed /\ elapsed < 2 * PHASE_DURATION ->
         Share(principal, 10) + Share(principal, 45)
           + Linear(principal, 30, elapsed - PHASE_DURATION)
    [] 2 * PHASE_DURATION <= elapsed /\ elapsed < 3 * PHASE_DURATION ->
         Share(principal, 10) + Share(principal, 45) + Share(principal, 30)
           + Linear(principal, 15, elapsed - 2 * PHASE_DURATION)
    [] OTHER -> principal

\* _unlockedTotal; a tgeTimestamp of 0 is one that has not been set
UnlockedTotal(principal, tgeTimestamp, now) ==
  IF tgeTimestamp = 0 \/ now < tgeTimestamp THEN 0
  ELSE ReleasedAfter(principal, now - tgeTimestamp)
===========================================================================
