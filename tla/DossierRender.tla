----------------------------- MODULE DossierRender -----------------------------
(***************************************************************************)
(* From the council's vote on a finding to its dossiers: worker-governance *)
(* answers an escalation with one request per language for the recipient   *)
(* body it settles on, an operator may decide another, and worker-dossier  *)
(* renders, signs and pins what is requested, under a reference of its     *)
(* own, and puts an envelope on DOSSIER_DELIVER.  One finding; whether its *)
(* proposal has a row in governance.proposal is an input.                  *)
(*                                                                         *)
(* An entry of a stream is delivered as WorkerQueue has it: a handler that *)
(* answers retry is delivered again, one whose process dies leaves its     *)
(* dedup key set, so the redelivery acknowledges its entry unhandled.      *)
(***************************************************************************)
EXTENDS Naturals, FiniteSets

CONSTANTS
  Bodies,          \* the recipient bodies
  Recommended,     \* those a score may recommend
  Derived,         \* those the finding's pattern may lead to
  NoBody,          \* of no decision, and of no envelope
  DevUnsigned,     \* "yes" where VIGIL_DEV_ALLOW_UNSIGNED_DOSSIER lets a dossier go unsigned
  Escalations,     \* the ProposalEscalated events of the finding, per replica that sees them
  MaxRefs,         \* bound: references allocated
  MaxUpsets        \* bound: failed calls, crashes, decisions of an operator, new scores,
                   \*        dedup keys that expire

ASSUME RenderAssumption ==
  /\ NoBody \notin Bodies /\ Recommended \subseteq Bodies /\ Derived \subseteq Bodies
  /\ DevUnsigned \in {"yes", "no"}
  /\ IsFiniteSet(Escalations) /\ MaxRefs \in Nat /\ MaxUpsets \in Nat

Languages == {"fr", "en"}
Refs == 1..MaxRefs

VARIABLES
  strength,     \* whether the finding is "above" the threshold of CONAC or "below" it
  routing,      \* the latest routing decision: by whom, for which body
  escalation,   \* per event, where its handler is and the body it settled on
  render,       \* per event and language, its request, its handler, and the reference that has
  keys,         \* the languages whose dedup key is set
  lastRef,      \* the last reference allocated
  dossiers,     \* per reference, the row of the dossier
  envelope,     \* per reference, the body of its envelope on DOSSIER_DELIVER
  overtaken,    \* history: the events an operator decided under while they derived a body
  upsets        \* how much of its bound is spent

routeVars == <<routing, overtaken>>
renderVars == <<render, keys, lastRef, envelope>>
dossierVars == <<strength, routeVars, escalation, renderVars, dossiers, upsets>>

Rendering == {"rendering", "publishing"}
NoDossier == [language |-> "none", printed |-> NoBody, recipient |-> NoBody,
              signed |-> "no", status |-> "none", manifest |-> 0]

Rows == {x \in Refs : dossiers[x].status # "none"}
RowsIn(l) == {x \in Rows : dossiers[x].language = l}

RenderInit ==
  /\ strength \in {"above", "below"}
  /\ routing = [by |-> "none", body |-> NoBody]
  /\ escalation = [n \in Escalations |-> [at |-> "none", body |-> NoBody]]
  /\ render = [n \in Escalations |-> [l \in Languages |-> [at |-> "none", ref |-> 0]]]
  /\ keys = {} /\ lastRef = 0 /\ dossiers = [x \in Refs |-> NoDossier]
  /\ envelope = [x \in Refs |-> NoBody] /\ overtaken = {}
  /\ upsets = 0

Upset == upsets < MaxUpsets /\ upsets' = upsets + 1

-----------------------------------------------------------------------------
(* The routing of the finding *)

(* worker-score scores the finding again. *)
Rescore ==
  /\ Upset
  /\ strength' = IF strength = "above" THEN "below" ELSE "above"
  /\ UNCHANGED <<routeVars, escalation, renderVars, dossiers>>

(* setRecipientBody: a decision, and the rows that are not delivered.      *)
SetRecipientBody(who, b) ==
  /\ routing' = [by |-> who, body |-> b]
  /\ dossiers' = [x \in Refs |->
                    IF dossiers[x].status = "rendered"
                      THEN [dossiers[x] EXCEPT !.recipient = b] ELSE dossiers[x]]

Deriving == {n \in Escalations : escalation[n].at = "deriving"}

Route(b) ==
  /\ Upset /\ SetRecipientBody("operator", b)
  /\ overtaken' = overtaken \union Deriving
  /\ UNCHANGED <<strength, escalation, renderVars>>

-----------------------------------------------------------------------------
(* handleProposalEscalated *)

Settles(n, at, b) == escalation' = [escalation EXCEPT ![n] = [at |-> at, body |-> b]]

(* Mutant: the derived body is stored over the decision there is. *)
BeginAutomatic(n) ==
  /\ escalation[n].at = "none"
  /\ \/ Settles(n, "done", NoBody)
     \/ strength = "above" /\ \E b \in Derived : Settles(n, "deriving", b)
  /\ UNCHANGED <<strength, routeVars, renderVars, dossiers, upsets>>

(* Nothing comes of an event whose proposal has no row, or whose finding   *)
(* is below the threshold.  Of the others the latest decision is read: it  *)
(* goes before what the last score recommends, and with neither a body is  *)
(* derived of the pattern.                                                 *)
Begin(n) ==
  /\ escalation[n].at = "none"
  /\ \/ Settles(n, "done", NoBody)
     \/ strength = "above" /\ routing.by # "none" /\ Settles(n, "fr", routing.body)
     \/ /\ strength = "above" /\ routing.by = "none"
        /\ \/ \E b \in Recommended : Settles(n, "fr", b)
           \/ \E b \in Derived : Settles(n, "deriving", b)
  /\ UNCHANGED <<strength, routeVars, renderVars, dossiers, upsets>>

(* The derived body is stored as a decision. *)
Derive(n) ==
  /\ escalation[n].at = "deriving"
  /\ SetRecipientBody("auto", escalation[n].body)
  /\ Settles(n, "fr", escalation[n].body)
  /\ UNCHANGED <<strength, overtaken, renderVars, upsets>>

After(l) == IF l = "fr" THEN "en" ELSE "done"

Request(n, l) ==
  /\ escalation[n].at = l
  /\ render' = [render EXCEPT ![n][l] = [at |-> "queued", ref |-> 0]]
  /\ Settles(n, After(l), escalation[n].body)
  /\ UNCHANGED <<strength, routeVars, keys, lastRef, envelope, dossiers, upsets>>

(* An error is logged, and the event does not come again; nor does it      *)
(* after a crash.                                                          *)
EscalationFails(n) ==
  /\ escalation[n].at \in {"deriving", "fr", "en"} /\ Upset
  /\ Settles(n, "done", escalation[n].body)
  /\ UNCHANGED <<strength, routeVars, renderVars, dossiers>>

-----------------------------------------------------------------------------
(* worker-dossier *)

Renders(n, l, at, x) == render' = [render EXCEPT ![n][l] = [at |-> at, ref |-> x]]

(* nextSeq: every rendering has a reference of its own. *)
Take(n, l) ==
  /\ render[n][l].at = "queued" /\ l \notin keys /\ lastRef < MaxRefs
  /\ keys' = keys \union {l} /\ lastRef' = lastRef + 1
  /\ Renders(n, l, "rendering", lastRef + 1)
  /\ UNCHANGED <<strength, routeVars, escalation, envelope, dossiers, upsets>>

(* The request of a later escalation has the key of the one before. *)
Duplicate(n, l) ==
  /\ render[n][l].at = "queued" /\ l \in keys
  /\ Renders(n, l, "over", 0)
  /\ UNCHANGED <<strength, routeVars, escalation, keys, lastRef, envelope, dossiers, upsets>>

(* A day later; a rendering takes minutes. *)
KeyExpires(l) ==
  /\ l \in keys /\ \A n \in Escalations : render[n][l].at \notin Rendering
  /\ Upset /\ keys' = keys \ {l}
  /\ UNCHANGED <<strength, routeVars, escalation, render, lastRef, envelope, dossiers>>

(* The dossier is rendered, signed and pinned, and has its row; where it   *)
(* may, it goes without the signature that failed.                         *)
Insert(n, l, signed) ==
  /\ render[n][l].at = "rendering"
  /\ \/ signed = "yes" /\ UNCHANGED upsets
     \/ signed = "no" /\ DevUnsigned = "yes" /\ Upset
  /\ dossiers' = [dossiers EXCEPT ![render[n][l].ref] =
       [language |-> l, printed |-> escalation[n].body, recipient |-> escalation[n].body,
        signed |-> signed, status |-> "rendered", manifest |-> 0]]
  /\ Renders(n, l, "publishing", render[n][l].ref)
  /\ UNCHANGED <<strength, routeVars, escalation, keys, lastRef, envelope>>

(* Mutant: the envelope goes to the body decided on last. *)
AddressedAnew(n) == IF n \in Escalations /\ routing.by # "none" THEN routing.body
                    ELSE escalation[n].body

Addressed(n) == escalation[n].body

Publish(n, l) ==
  /\ render[n][l].at = "publishing"
  /\ envelope' = [envelope EXCEPT ![render[n][l].ref] = Addressed(n)]
  /\ Renders(n, l, "acked", render[n][l].ref)
  /\ UNCHANGED <<strength, routeVars, escalation, keys, lastRef, dossiers, upsets>>

(* A signature that fails is tried again, with another reference, while    *)
(* the retry budget lasts; every other failure is thrown to the dead       *)
(* letters, and a crash leaves the entry to be acknowledged unhandled: the *)
(* request is then "over".                                                 *)
RenderFails(n, l) ==
  /\ render[n][l].at \in Rendering /\ Upset
  /\ \/ /\ render[n][l].at = "rendering" /\ keys' = keys \ {l}
        /\ Renders(n, l, "queued", 0)
     \/ /\ Renders(n, l, "over", render[n][l].ref) /\ UNCHANGED keys
  /\ UNCHANGED <<strength, routeVars, escalation, lastRef, envelope, dossiers>>

RenderNext ==
  \/ Rescore
  \/ \E b \in Bodies : Route(b)
  \/ \E n \in Escalations : Begin(n) \/ Derive(n) \/ EscalationFails(n)
  \/ \E n \in Escalations, l \in Languages :
       \/ Request(n, l) \/ Take(n, l) \/ Duplicate(n, l) \/ Publish(n, l) \/ RenderFails(n, l)
       \/ \E signed \in {"yes", "no"} : Insert(n, l, signed)
  \/ \E l \in Languages : KeyExpires(l)

-----------------------------------------------------------------------------
RenderTypeOK ==
  /\ strength \in {"above", "below"}
  /\ routing \in [by : {"none", "auto", "operator"}, body : Bodies \union {NoBody}]
  /\ escalation \in [Escalations -> [at : {"none", "deriving", "fr", "en", "done"},
                                     body : Bodies \union {NoBody}]]
  /\ render \in [Escalations -> [Languages ->
       [at : {"none", "queued", "rendering", "publishing", "acked", "over"},
        ref : Refs \union {0}]]]
  /\ keys \subseteq Languages /\ lastRef \in 0..MaxRefs
  /\ dossiers \in [Refs ->
       [language : Languages \union {"none"}, printed : Bodies \union {NoBody},
        recipient : Bodies \union {NoBody}, signed : {"yes", "no"},
        status : {"none", "rendered", "delivered", "acknowledged"}, manifest : Refs \union {0}]]
  /\ envelope \in [Refs -> Bodies \union {NoBody}]
  /\ overtaken \subseteq Escalations
  /\ upsets \in Nat
=============================================================================
