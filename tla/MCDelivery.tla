----------------------------- MODULE MCDelivery ------------------------------
(* Two escalations of a finding, two bodies. *)
EXTENDS ConacDelivery, TLC

CONSTANTS e1, e2, conac, minfi

Events == Permutations(Escalations)
=============================================================================
