----------------------------- MODULE MCEvidence -----------------------------
(* A small instance of EntityResolution over SourceIntake. *)
EXTENDS EntityResolution, TLC

CONSTANTS e1, e2, q1, q2, d1, acme, rccm, beta

(* Acme has a registration and a canonical; nobody has seen Beta.  Both    *)
(* events name Beta, one of them Acme and its registration as well.        *)
Named        == (e1 :> {acme, rccm, beta}) @@ (e2 :> {beta})
Names        == [a \in {acme, rccm, beta} |-> a]
Registry     == (acme :> "none") @@ (rccm :> "RC") @@ (beta :> "none")
Seeded       == <<[display |-> acme, registration |-> "RC"]>>

(* The model is asked about Beta only.  It may answer as it should, or     *)
(* with the name of Acme, which it was not asked about, over both.         *)
Given == {[display |-> beta, members |-> {beta}], [display |-> acme, members |-> {acme, beta}]}

SameDocument == [q \in Requests |-> d1]
OneEvent     == [q \in Requests |-> e1]
(* Nothing tells the two requests apart. *)
AnyRequest   == Permutations(Requests)

(* What a later step or a property can tell apart: that a mirror was       *)
(* tried, not how it ended, and nothing of the fields and the metadata of  *)
(* a row, which these workers only write.                                  *)
Mirrored(c) == [c EXCEPT !.mirror = IF @ = "pending" THEN @ ELSE "tried"]
Seen == <<extraction, found, sent, fetching, documents, announced, interrupted, faults,
          resolving, [c \in DOMAIN canonicals |-> Mirrored(canonicals[c])], aliases, review,
          dispatched, attempt, omitted>>
=============================================================================
