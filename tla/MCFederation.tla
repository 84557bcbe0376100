---------------------------- MODULE MCFederation ----------------------------
(* A small instance of FederationStream: one envelope is good, one the core cannot decode. *)
EXTENDS FederationStream, TLC

CONSTANTS e1, e2

Kind2 == (e1 :> "good") @@ (e2 :> "garbled")
=============================================================================
