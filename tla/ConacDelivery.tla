----------------------------- MODULE ConacDelivery -----------------------------
(***************************************************************************)
(* Delivery of the dossiers of DossierRender (worker-conac-sftp): each     *)
(* envelope on DOSSIER_DELIVER has a handler that picks a French and an    *)
(* English dossier of the finding, puts both and a manifest into the       *)
(* recipient's inbox under the envelope's reference, marks the rows, and   *)
(* polls for an acknowledgement.                                           *)
(*                                                                         *)
(* One envelope is read from the stream at a time; one whose handler has   *)
(* answered retry is delivered "again" by the reclaim loop, which starts   *)
(* handlers beside the one that runs, unless the retry budget was spent or *)
(* that handler had run for more than idleReclaimMs: the reclaim loop has  *)
(* then acknowledged its entry as a duplicate.  A delivery that ends       *)
(* without an acknowledgement of the recipient is "over", in the dead      *)
(* letters or not.                                                         *)
(***************************************************************************)
EXTENDS DossierRender

CONSTANT Conac    \* the body with a threshold

ASSUME ConacAssumption == Conac \in Bodies

VARIABLES
  delivery,    \* per reference, where the handler of its envelope is
  pair,        \* per reference, the dossiers that handler has picked
  inbox,       \* per reference, what its directory at the recipient holds
  sent,        \* history: the manifests put
  reuploaded,  \* history: directories written to with a manifest in them
  weakened     \* history: deliveries that ran while the finding fell below the threshold

handlerVars == <<delivery, pair>>
inboxVars == <<inbox, sent, reuploaded>>
deliveryVars == <<handlerVars, inboxVars, weakened>>
vars == <<dossierVars, deliveryVars>>

Pairs == [fr : Refs \union {0}, en : Refs \union {0}]
NoPair == [fr |-> 0, en |-> 0]

(* A file that a broken put has left cut short. *)
Torn == MaxRefs + 1
Empty == [fr |-> 0, en |-> 0, manifest |-> NoPair]

Running == {"checked", "put fr", "put en", "put manifest", "mark", "poll"}

Init ==
  /\ RenderInit
  /\ delivery = [x \in Refs |-> "queued"] /\ pair = [x \in Refs |-> NoPair]
  /\ inbox = [x \in Refs |-> Empty] /\ sent = {} /\ reuploaded = {} /\ weakened = {}

Goes(r, at) == delivery' = [delivery EXCEPT ![r] = at]

-----------------------------------------------------------------------------
(* Before the upload *)

(* Mutant: the threshold is left to those that come before. *)
PassesUnchecked(r) == envelope[r] \in Bodies

(* meetsCONACThreshold. *)
Passes(r) == envelope[r] = Conac => strength = "above"

(* A target that is not provisioned is tried again: nothing changes.       *)
Check(r) ==
  /\ envelope[r] # NoBody
  /\ \/ delivery[r] = "queued" /\ \A q \in Refs : delivery[q] \notin Running
     \/ delivery[r] = "again"
  /\ \/ Passes(r) /\ Goes(r, "checked")
     \/ ~Passes(r) /\ Goes(r, "over")
  /\ UNCHANGED <<dossierVars, pair, inboxVars, weakened>>

Signed(f, e) == dossiers[f].signed = "yes" /\ dossiers[e].signed = "yes"

(* listByFinding has no order: any dossier of the language may be first.   *)
Pick(r, f, e) ==
  /\ delivery[r] = "checked" /\ f \in RowsIn("fr") /\ e \in RowsIn("en")
  /\ \/ Signed(f, e) /\ Goes(r, "put fr")
     \/ ~Signed(f, e) /\ Goes(r, "over")
  /\ pair' = [pair EXCEPT ![r] = [fr |-> f, en |-> e]]
  /\ UNCHANGED <<dossierVars, inboxVars, weakened>>

Retries(r) == \E at \in {"again", "over"} : Goes(r, at)

(* Not both languages are there. *)
AwaitSibling(r) ==
  /\ delivery[r] = "checked" /\ \E l \in Languages : RowsIn(l) = {}
  /\ Retries(r)
  /\ UNCHANGED <<dossierVars, pair, inboxVars, weakened>>

-----------------------------------------------------------------------------
(* The upload *)

(* Mutant: the manifest goes ahead of the English dossier. *)
NextManifestEarly(at) ==
  CASE at = "put fr" -> "put manifest" [] at = "put manifest" -> "put en" [] OTHER -> "mark"

(* "PDFs FIRST, manifest LAST". *)
NextPut(at) ==
  CASE at = "put fr" -> "put en" [] at = "put en" -> "put manifest" [] OTHER -> "mark"

WritesTo(r) == reuploaded' = IF inbox[r].manifest = NoPair THEN reuploaded
                             ELSE reuploaded \union {r}

PutDossier(r, l) ==
  /\ delivery[r] = (IF l = "fr" THEN "put fr" ELSE "put en")
  /\ inbox' = [inbox EXCEPT ![r][l] = pair[r][l]]
  /\ Goes(r, NextPut(delivery[r])) /\ WritesTo(r)
  /\ UNCHANGED <<dossierVars, pair, sent, weakened>>

Manifest(r) == [ref |-> r, body |-> envelope[r], strength |-> strength,
                fr |-> pair[r].fr, en |-> pair[r].en]

PutManifest(r) ==
  /\ delivery[r] = "put manifest"
  /\ inbox' = [inbox EXCEPT ![r].manifest = pair[r]]
  /\ sent' = sent \union {Manifest(r)}
  /\ Goes(r, NextPut(delivery[r]))
  /\ UNCHANGED <<dossierVars, pair, reuploaded, weakened>>

(* Mutant: the rows the finding has are marked, not the pair that went. *)
MarkedAll(r, S) == {x \in Rows : dossiers[x].language \in S /\ r \in Refs}

Marked(r, S) == {pair[r][l] : l \in S}

Marks(X, status, r) ==
  dossiers' = [x \in Refs |-> IF x \in X
                 THEN [dossiers[x] EXCEPT !.status = status, !.manifest = r] ELSE dossiers[x]]

(* markDelivered, whatever the status of the row. *)
MarkDelivered(r) ==
  /\ delivery[r] = "mark" /\ Marks(Marked(r, Languages), "delivered", r) /\ Goes(r, "poll")
  /\ UNCHANGED <<strength, routeVars, escalation, renderVars, upsets,
                 pair, inboxVars, weakened>>

(* One of the two updates fails, or both. *)
MarkFails(r, S) ==
  /\ delivery[r] = "mark" /\ S # Languages /\ Upset
  /\ Marks(Marked(r, S), "delivered", r) /\ Retries(r)
  /\ UNCHANGED <<strength, routeVars, escalation, renderVars, pair, inboxVars, weakened>>

(* An error on the way to the recipient: a put leaves its file torn.       *)
DeliveryFails(r) ==
  /\ delivery[r] \in {"checked", "put fr", "put en", "put manifest"} /\ Upset /\ Retries(r)
  /\ \/ UNCHANGED <<inbox, reuploaded>>
     \/ /\ delivery[r] = "put fr" /\ inbox' = [inbox EXCEPT ![r].fr = Torn] /\ WritesTo(r)
     \/ /\ delivery[r] = "put en" /\ inbox' = [inbox EXCEPT ![r].en = Torn] /\ WritesTo(r)
     \/ /\ delivery[r] = "put manifest" /\ inbox' = [inbox EXCEPT ![r].manifest = NoPair]
        /\ UNCHANGED reuploaded
  /\ UNCHANGED <<strength, routeVars, escalation, renderVars, dossiers,
                 pair, sent, weakened>>

-----------------------------------------------------------------------------
(* The acknowledgement *)

(* The recipient has acknowledged what it took in.  An update that fails   *)
(* is an error of its probe, which the next probe makes good.              *)
Acknowledge(r, S) ==
  /\ delivery[r] = "poll"
  /\ dossiers' = [x \in Refs |-> IF x \in Marked(r, S)
                    THEN [dossiers[x] EXCEPT !.status = "acknowledged"] ELSE dossiers[x]]
  /\ \/ S = Languages /\ Goes(r, "acked") /\ UNCHANGED upsets
     \/ S # Languages /\ Upset /\ UNCHANGED delivery
  /\ UNCHANGED <<strength, routeVars, escalation, renderVars, pair, inboxVars, weakened>>

(* Twelve errors in a row, or seven days: the reclaim loop has long had    *)
(* the entry acknowledged, and the retry does not come.                    *)
StopPolling(r) ==
  /\ delivery[r] = "poll" /\ Goes(r, "over")
  /\ UNCHANGED <<dossierVars, pair, inboxVars, weakened>>

DeliveryCrash(r) ==
  /\ delivery[r] \in Running /\ Upset /\ Goes(r, "over")
  /\ UNCHANGED <<strength, routeVars, escalation, renderVars, dossiers,
                 pair, inboxVars, weakened>>

DeliveryNext(r) ==
  \/ Check(r) \/ AwaitSibling(r) \/ PutManifest(r) \/ MarkDelivered(r) \/ DeliveryFails(r)
  \/ StopPolling(r) \/ DeliveryCrash(r)
  \/ \E f \in Refs, e \in Refs : Pick(r, f, e)
  \/ \E l \in Languages : PutDossier(r, l)
  \/ \E S \in SUBSET Languages : MarkFails(r, S) \/ Acknowledge(r, S)

Weakens == weakened' = IF strength = "above" /\ strength' = "below"
                         THEN weakened \union {r \in Refs : delivery[r] \in Running} ELSE weakened

Next ==
  \/ RenderNext /\ Weakens /\ UNCHANGED <<handlerVars, inboxVars>>
  \/ \E r \in Refs : DeliveryNext(r)

Spec == Init /\ [][Next]_vars

-----------------------------------------------------------------------------
(* Types. *)
TypeOK ==
  /\ RenderTypeOK
  /\ delivery \in [Refs -> Running \union {"queued", "again", "acked", "over"}]
  /\ pair \in [Refs -> Pairs]
  /\ inbox \in [Refs -> [fr : 0..Torn, en : 0..Torn, manifest : Pairs]]
  /\ sent \subseteq [ref : Refs, body : Bodies \union {NoBody}, strength : {"above", "below"},
                    fr : Refs \union {0}, en : Refs \union {0}]
  /\ reuploaded \subseteq Refs /\ weakened \subseteq Refs

(* "manifest is the ready to ingest trigger; partial uploads must not look *)
(* complete": a manifest lies beside the two dossiers it names, whole,     *)
(* unless its directory has been written to again.                         *)
ManifestIsTrigger ==
  \A r \in Refs \ reuploaded :
    inbox[r].manifest # NoPair =>
      inbox[r].fr = inbox[r].manifest.fr /\ inbox[r].en = inbox[r].manifest.en

(* "Such dossiers MUST NOT reach an institutional SFTP target": what is    *)
(* put into an inbox is signed, whatever is picked and whatever fails; and *)
(* a row that says delivered or acknowledged is of a dossier that a        *)
(* manifest has gone out for, the one whose hash the row has.              *)
DeliveredWasSent ==
  /\ \A r, x \in Refs : x \in {inbox[r].fr, inbox[r].en} => dossiers[x].signed = "yes"
  /\ \A x \in Refs :
       dossiers[x].status \in {"delivered", "acknowledged"} =>
         \E m \in sent : m.ref = dossiers[x].manifest /\ x \in {m.fr, m.en}

(* What a recipient gets was printed for it, unless two escalations of the *)
(* finding settled on different bodies; the row of a dossier names another *)
(* body than it was sent to only where a routing was decided.              *)
Asked == {escalation[n].body : n \in Escalations} \ {NoBody}

PrintedForRecipient ==
  \A m \in sent :
    /\ \A x \in {m.fr, m.en} : dossiers[x].printed # m.body => Cardinality(Asked) > 1
    /\ dossiers[m.ref].printed = m.body
    /\ dossiers[m.ref].recipient # m.body => routing.by # "none"

(* "re-validates the underlying finding against the CONAC threshold": what *)
(* goes to CONAC of a finding below it was checked before it fell.         *)
BelowMeansOvertaken ==
  \A m \in sent : m.body = Conac /\ m.strength = "below" => m.ref \in weakened

(* "architect routing decision wins": a body derived of the pattern        *)
(* replaces an operator's decision only if that was made while it was      *)
(* being derived.                                                          *)
OperatorWins ==
  [][routing.by = "operator" /\ routing'.by = "auto" => overtaken # {}]_vars
=============================================================================
