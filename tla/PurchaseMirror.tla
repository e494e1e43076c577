--------------------------- MODULE PurchaseMirror ---------------------------
(***************************************************************************)
(* What the recorder promises as a mirror of the presale (DECISIONS.md:    *)
(* "DDCPresaleRecorder remains the on-chain audit mirror"): its list holds *)
(* purchases that were made, each once, and only grows.                    *)
(***************************************************************************)
EXTENDS Sequences, Naturals

CONSTANT Purchases

VARIABLES bought,    \* the purchases made so far
          mirror     \* the list of those that are recorded

mirrored == {mirror[i] : i \in 1..Len(mirror)}

MirrorInit == bought = {} /\ mirror = << >>

Buy(ids) ==
  /\ ids # {}
  /\ ids \subseteq Purchases \ bought
  /\ bought' = bought \cup ids
  /\ UNCHANGED mirror

Record(id) ==
  /\ id \in bought \ mirrored
  /\ mirror' = Append(mirror, id)
  /\ UNCHANGED bought

MirrorNext ==
  \/ \E ids \in SUBSET Purchases : Buy(ids)
  \/ \E id \in Purchases : Record(id)

MirrorSpec == MirrorInit /\ [][MirrorNext]_<<bought, mirror>>
=============================================================================
