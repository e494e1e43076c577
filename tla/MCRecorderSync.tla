---------------------------- MODULE MCRecorderSync ----------------------------
(* Constants of the TLC runs of RecorderSync *)
EXTENDS RecorderSync, TLC

CONSTANTS u1, u2, t1, t2, r1, r2, s1

MCTxIds == {t1, t2}
MCSourceRefs == MCTxIds \cup {LogRef(id) : id \in MCTxIds}
MCBuyerOf == t1 :> u1 @@ t2 :> u2
MCDdcOf == t1 :> 1 @@ t2 :> 2
MCPaidOf == t1 :> 1 @@ t2 :> 1
\* The scripts run with the writer's wallet or, after a deployment by
\* deploy_prod.js, with the owner's
MCRelayerWallets == [w \in Workers |-> RELAYER]
MCOwnerWallets == [w \in Workers |-> OWNER]
\* The owner may take the role of the writer away and give it back
MCWriters == {RELAYER, PRESALE}
===============================================================================
