----------------------------- MODULE MCAnchoring -----------------------------
EXTENDS Anchoring

(* Above every row number. *)
Stamps == [e \in HighSig |-> MaxSeq + 2]
=============================================================================
