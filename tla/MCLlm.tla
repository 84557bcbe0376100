------------------------------- MODULE MCLlm --------------------------------
(* A small instance of LlmRouter. *)
EXTENDS LlmRouter, TLC

CONSTANTS c1, c2, c3

TwoFailures == [t \in Breakers |-> 2]
=============================================================================
