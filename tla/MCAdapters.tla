----------------------------- MODULE MCAdapters -----------------------------
(* Small instances of AdapterRepair, and of AdapterRunner under it. *)
EXTENDS AdapterRepair, TLC

CONSTANTS e1, e2, r1, r2

OneUrl == (e1 :> 1) @@ (e2 :> 0)
=============================================================================
