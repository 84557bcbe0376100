----------------------------- MODULE MCGovernance -----------------------------
(* A council of two pillars and a candidate more than there are seats. *)
EXTENDS VIGILGovernance, TLC

CONSTANTS a1, a2, a3, p1, p2, d1

Council == Permutations(Accounts) \union Permutations(Pillars)
=============================================================================
