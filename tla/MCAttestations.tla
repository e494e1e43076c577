--------------------------- MODULE MCAttestations ---------------------------
(***************************************************************************)
(* Two nodes, three validators of four tokens, two blocks.  v1 may sign    *)
(* twice.  v2 signs for B, one for A is faked in its name, and evidence    *)
(* against it is forged under the hash of evidence that convicts v1.  v3   *)
(* signs nothing, but one for A is faked in its name.                      *)
(***************************************************************************)
EXTENDS Attestations

MCValidators == {"v1", "v2", "v3"}
MCStakeOf == [v \in MCValidators |-> IF v = "v1" THEN 2 ELSE 1]
MCHashOf == [b \in {"A", "B"} |-> IF b = "A" THEN 2 ELSE 1]
MCAtStart == [n \in {"n1", "n2"} |-> IF n = "n1" THEN {"v2", "v3"} ELSE MCValidators]
MCCareless == {{"v1"}}
Confirmed(b) == [block |-> b, status |-> "confirmed", valid |-> TRUE]
Rejected(b) == [block |-> b, status |-> "rejected", valid |-> TRUE]
Fake(att) == [att EXCEPT !.valid = FALSE]
MCBallots == [v \in MCValidators |->
  CASE v = "v1" -> {Confirmed("A"), Confirmed("B"), Rejected("B")}
    [] v = "v2" -> {Confirmed("B")}
    [] v = "v3" -> {}]
MCFaked == [n \in {"n1", "n2"} |-> [v \in MCValidators |->
  IF <<n, v>> \in {<<"n1", "v3">>, <<"n2", "v2">>} THEN {Fake(Confirmed("A"))} ELSE {}]]
MCForged == {[validator |-> "v2", a |-> Confirmed("B"), b |-> Fake(Confirmed("A")),
              hash |-> Digest("v1", Confirmed("A"), Confirmed("B"))]}
=============================================================================
