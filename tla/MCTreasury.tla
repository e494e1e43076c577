----------------------------- MODULE MCTreasury -----------------------------
(***************************************************************************)
(* Three DDC vesting over four steps, two months of one USDT and a grant   *)
(* of two; the owner queues up to three transfers, and the linear and the  *)
(* ops vault may be funded in parts.                                       *)
(***************************************************************************)
EXTENDS Treasury

MCUsers == {"timelock", "linearVault", "beneficiary", "opsVault", "opsWallet",
            "grantVault", "adamasWallet"}
To(v, n) == [vault |-> v, amount |-> n]
MCCalls == {To("linearVault", 1), To("linearVault", 2), To("opsVault", 1), To("grantVault", 2)}
=============================================================================
