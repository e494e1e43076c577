------------------------------ MODULE MCPresale ------------------------------
(* Constants of the TLC runs of DDCPresaleVesting *)
EXTENDS PresaleProperties, TLC

CONSTANTS u1, u2, t1, t2, t3

MCUsers == {u1, u2}
MCTxIds == {t1, t2, t3}
MCTwoTxIds == {t1, t2}
MCPrices == 0 :> 2 @@ 1 :> 2 @@ 2 :> 3
MCUsdtOf == [u \in {u1, u2} |-> 6]
MCUsdtOfFive == [u \in {u1, u2} |-> 5]
MCPricesTwo == 0 :> 2 @@ 1 :> 3
\* The wiring run lets the owner link and wire the contracts at any time,
\* change the writer and fund the presale in several transfers
MCWriters == {RELAYER, PRESALE}
MCLinks == {PRESALE}
\* What is recorded directly: an entry under the txId of a purchase to come, which then
\* reverts, in the list of a buyer with a purchase under the other one
MCDirect == {[user |-> u1, ddcAmount |-> 1, payAmount |-> 1, sourceRef |-> t1]}
Sym == Permutations(MCUsers) \cup Permutations(MCTxIds)
TwoSym == Permutations(MCUsers) \cup Permutations(MCTwoTxIds)
=============================================================================
