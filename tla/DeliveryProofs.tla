---------------------------- MODULE DeliveryProofs ----------------------------
(***************************************************************************)
(* Proofs about ConacDelivery over DossierRender, for every set of bodies  *)
(* and escalations and every bound.                                        *)
(*                                                                         *)
(* The argument: a row, once there, keeps its language, its signature and  *)
(* whom it was printed for (RowsKept, shown step by step), so what a       *)
(* handler has checked of the pair it picked stays true while it uploads.  *)
(***************************************************************************)
EXTENDS ConacDelivery, FiniteSetTheorems, TLAPS

Statuses == {"none", "rendered", "delivered", "acknowledged"}

DossierRows ==
  [language : Languages \union {"none"}, printed : Bodies \union {NoBody},
   recipient : Bodies \union {NoBody}, signed : {"yes", "no"},
   status : Statuses, manifest : Refs \union {0}]

-----------------------------------------------------------------------------
(* Types *)

LEMMA RefsAreNat ==
  /\ Refs \subseteq Nat /\ 0 \notin Refs /\ Torn \notin Refs
  /\ Refs \union {0} \subseteq 0..Torn /\ Torn \in 0..Torn /\ NoPair \in Pairs
<1>1. MaxRefs \in Nat
  BY RenderAssumption
<1>2. Refs = 1..MaxRefs /\ Torn = MaxRefs + 1
  BY DEF Refs, Torn
<1>3. 0 \in Refs \union {0}
  OBVIOUS
<1> QED BY <1>1, <1>2, <1>3 DEF NoPair, Pairs

Requests == [Escalations -> [Languages ->
  [at : {"none", "queued", "rendering", "publishing", "acked", "over"}, ref : Refs \union {0}]]]

Routings == [by : {"none", "auto", "operator"}, body : Bodies \union {NoBody}]

Handlers == [Escalations -> [at : {"none", "deriving", "fr", "en", "done"},
                             body : Bodies \union {NoBody}]]

(* A decision about the body leaves the rows what they are. *)
LEMMA RecipientType ==
  ASSUME RenderTypeOK, NEW who \in {"auto", "operator"}, NEW b \in Bodies,
         SetRecipientBody(who, b)
  PROVE  routing' \in Routings /\ dossiers' \in [Refs -> DossierRows]
<1>1. dossiers \in [Refs -> DossierRows]
  BY DEF RenderTypeOK, DossierRows, Statuses
<1>2. ASSUME NEW x \in Refs
      PROVE  [dossiers[x] EXCEPT !.recipient = b] \in DossierRows /\ dossiers[x] \in DossierRows
  BY <1>1 DEF DossierRows
<1>3. dossiers' \in [Refs -> DossierRows]
  BY <1>2 DEF SetRecipientBody
<1> QED BY <1>3 DEF SetRecipientBody, Routings

LEMMA RendersType ==
  ASSUME RenderTypeOK, NEW n \in Escalations, NEW l \in Languages, NEW x \in Refs \union {0},
         NEW at \in {"none", "queued", "rendering", "publishing", "acked", "over"},
         Renders(n, l, at, x)
  PROVE  render' \in Requests
BY DEF RenderTypeOK, Renders, Requests

LEMMA SettlesType ==
  ASSUME RenderTypeOK, NEW n \in Escalations, NEW b \in Bodies \union {NoBody},
         NEW at \in {"none", "deriving", "fr", "en", "done"}, Settles(n, at, b)
  PROVE  escalation' \in Handlers
BY DEF RenderTypeOK, Settles, Handlers

LEMMA UpsetType ==
  ASSUME RenderTypeOK, Upset \/ UNCHANGED upsets
  PROVE  upsets' \in Nat
BY DEF RenderTypeOK, Upset

(* The types, with the sets named. *)
RenderTypes ==
  /\ strength \in {"above", "below"} /\ routing \in Routings /\ escalation \in Handlers
  /\ render \in Requests /\ keys \subseteq Languages /\ lastRef \in 0..MaxRefs
  /\ dossiers \in [Refs -> DossierRows] /\ envelope \in [Refs -> Bodies \union {NoBody}]
  /\ overtaken \subseteq Escalations /\ upsets \in Nat

LEMMA TypesNamed == RenderTypeOK <=> RenderTypes
BY DEF RenderTypeOK, RenderTypes, Routings, Handlers, Requests, DossierRows, Statuses

LEMMA TypesNamedNext == RenderTypeOK' <=> RenderTypes'
BY DEF RenderTypeOK, RenderTypes, Routings, Handlers, Requests, DossierRows, Statuses

LEMMA ConstantTypes ==
  /\ NoBody \notin Bodies /\ Recommended \subseteq Bodies /\ Derived \subseteq Bodies
  /\ DevUnsigned \in {"yes", "no"} /\ MaxRefs \in Nat /\ Conac \in Bodies
BY RenderAssumption, ConacAssumption

(* What a handler is under way with has a body, and keeps it. *)
Settled ==
  /\ routing.by # "none" => routing.body \in Bodies
  /\ \A n \in Escalations :
       /\ escalation[n].at \in {"deriving", "fr", "en"} => escalation[n].body \in Bodies
       /\ escalation[n].at = "none" => escalation[n].body = NoBody
  /\ \A n \in Escalations, l \in Languages :
       render[n][l].at # "none" =>
         escalation[n].at # "none" /\ escalation[n].body \in Bodies

LEMMA RenderTypeStep == ASSUME RenderTypeOK, Settled, RenderNext PROVE RenderTypeOK'
<1>0. RenderTypes
  BY TypesNamed
<1> SUFFICES RenderTypes'
  BY TypesNamedNext
<1>1. CASE Rescore
  BY <1>0, <1>1, UpsetType DEF Rescore, RenderTypes, routeVars, renderVars
<1>2. ASSUME NEW b \in Bodies, Route(b) PROVE RenderTypes'
  BY <1>0, <1>2, UpsetType, RecipientType DEF Route, RenderTypes, Deriving, renderVars
<1>3. ASSUME NEW n \in Escalations, Begin(n) PROVE RenderTypes'
  <2>1. \E at \in {"none", "deriving", "fr", "en", "done"}, b \in Bodies \union {NoBody} :
          Settles(n, at, b)
    BY <1>0, <1>3, ConstantTypes DEF Begin, RenderTypes, Routings
  <2>2. escalation' \in Handlers
    BY <2>1, SettlesType
  <2> QED BY <1>0, <1>3, <2>2 DEF Begin, RenderTypes, routeVars, renderVars
<1>4. ASSUME NEW n \in Escalations, Derive(n) PROVE RenderTypes'
  <2>1. escalation[n].body \in Bodies \union {NoBody}
    BY <1>0 DEF RenderTypes, Handlers
  <2>2. escalation' \in Handlers
    BY <1>4, <2>1, SettlesType DEF Derive
  <2>3. escalation[n].body \in Bodies
    BY <1>4 DEF Derive, Settled
  <2>4. routing' \in Routings /\ dossiers' \in [Refs -> DossierRows]
    BY <1>4, <2>3, RecipientType DEF Derive
  <2> QED BY <1>0, <1>4, <2>2, <2>4 DEF Derive, RenderTypes, renderVars
<1>5. ASSUME NEW n \in Escalations, NEW l \in Languages, Request(n, l) PROVE RenderTypes'
  <2>1. escalation[n].body \in Bodies \union {NoBody}
    BY <1>0 DEF RenderTypes, Handlers
  <2>2. After(l) \in {"none", "deriving", "fr", "en", "done"}
    BY DEF After
  <2>3. escalation' \in Handlers
    BY <1>5, <2>1, <2>2, SettlesType DEF Request
  <2>4. Renders(n, l, "queued", 0)
    BY <1>5 DEF Request, Renders
  <2>5. render' \in Requests
    BY <2>4, RendersType
  <2> QED BY <1>0, <1>5, <2>3, <2>5 DEF Request, RenderTypes, routeVars
<1>6. ASSUME NEW n \in Escalations, EscalationFails(n) PROVE RenderTypes'
  <2>1. escalation[n].body \in Bodies \union {NoBody}
    BY <1>0 DEF RenderTypes, Handlers
  <2>2. escalation' \in Handlers
    BY <1>6, <2>1, SettlesType DEF EscalationFails
  <2> QED BY <1>0, <1>6, <2>2, UpsetType DEF EscalationFails, RenderTypes, routeVars, renderVars
<1>7. ASSUME NEW n \in Escalations, NEW l \in Languages, Take(n, l) PROVE RenderTypes'
  <2>1. lastRef + 1 \in Refs /\ lastRef + 1 \in 0..MaxRefs
    BY <1>0, <1>7, ConstantTypes DEF Take, RenderTypes, Refs
  <2>2. render' \in Requests
    BY <1>7, <2>1, RendersType DEF Take
  <2> QED BY <1>0, <1>7, <2>1, <2>2 DEF Take, RenderTypes, routeVars
<1>8. ASSUME NEW n \in Escalations, NEW l \in Languages, Duplicate(n, l) PROVE RenderTypes'
  <2>1. render' \in Requests
    BY <1>8, RendersType DEF Duplicate
  <2> QED BY <1>0, <1>8, <2>1 DEF Duplicate, RenderTypes, routeVars
<1>9. ASSUME NEW l \in Languages, KeyExpires(l) PROVE RenderTypes'
  BY <1>0, <1>9, UpsetType DEF KeyExpires, RenderTypes, routeVars
<1>10. ASSUME NEW n \in Escalations, NEW l \in Languages, NEW signed \in {"yes", "no"},
              Insert(n, l, signed)
       PROVE RenderTypes'
  <2>1. render[n][l].ref \in Refs \union {0}
    BY <1>0 DEF RenderTypes, Requests
  <2>2. render' \in Requests
    BY <1>10, <2>1, RendersType DEF Insert
  <2>3. escalation[n].body \in Bodies \union {NoBody}
    BY <1>0 DEF RenderTypes, Handlers
  <2>4. [language |-> l, printed |-> escalation[n].body, recipient |-> escalation[n].body,
         signed |-> signed, status |-> "rendered", manifest |-> 0] \in DossierRows
    BY <2>3 DEF DossierRows, Statuses
  <2>5. dossiers' \in [Refs -> DossierRows]
    BY <1>0, <1>10, <2>4 DEF Insert, RenderTypes
  <2>6. upsets' \in Nat
    BY <1>0, <1>10, UpsetType DEF Insert
  <2> QED BY <1>0, <1>10, <2>2, <2>5, <2>6 DEF Insert, RenderTypes, routeVars
<1>11. ASSUME NEW n \in Escalations, NEW l \in Languages, Publish(n, l) PROVE RenderTypes'
  <2>1. render[n][l].ref \in Refs \union {0}
    BY <1>0 DEF RenderTypes, Requests
  <2>2. render' \in Requests
    BY <1>11, <2>1, RendersType DEF Publish
  <2>3. Addressed(n) \in Bodies \union {NoBody}
    BY <1>0 DEF RenderTypes, Handlers, Addressed
  <2> QED BY <1>0, <1>11, <2>2, <2>3 DEF Publish, RenderTypes, routeVars
<1>12. ASSUME NEW n \in Escalations, NEW l \in Languages, RenderFails(n, l) PROVE RenderTypes'
  <2>1. render[n][l].ref \in Refs \union {0}
    BY <1>0 DEF RenderTypes, Requests
  <2>2. render' \in Requests /\ keys' \subseteq Languages
    BY <1>0, <1>12, <2>1, RendersType DEF RenderFails, RenderTypes
  <2> QED BY <1>0, <1>12, <2>2, UpsetType DEF RenderFails, RenderTypes, routeVars
<1> QED BY <1>1, <1>2, <1>3, <1>4, <1>5, <1>6, <1>7, <1>8, <1>9, <1>10, <1>11, <1>12
     DEF RenderNext

(* One request changes, or one event. *)
LEMMA RendersShape ==
  ASSUME RenderTypeOK, NEW n \in Escalations, NEW l \in Languages, NEW at, NEW x,
         Renders(n, l, at, x)
  PROVE  \A m \in Escalations, k \in Languages :
           render'[m][k] = IF m = n /\ k = l THEN [at |-> at, ref |-> x] ELSE render[m][k]
BY DEF RenderTypeOK, Renders

LEMMA SettlesShape ==
  ASSUME RenderTypeOK, NEW n \in Escalations, NEW at, NEW b, Settles(n, at, b)
  PROVE  \A m \in Escalations :
           escalation'[m] = IF m = n THEN [at |-> at, body |-> b] ELSE escalation[m]
BY DEF RenderTypeOK, Settles

(* The events as they are, and no request where there was none. *)
LEMMA SettledKept ==
  ASSUME Settled, UNCHANGED escalation,
         \A m \in Escalations, k \in Languages : render'[m][k].at # "none" => render[m][k].at # "none",
         UNCHANGED routing \/ \E b \in Bodies : routing'.body = b
  PROVE  Settled'
BY DEF Settled

LEMMA SettledStep == ASSUME RenderTypeOK, Settled, RenderNext PROVE Settled'
<1>0. RenderTypes
  BY TypesNamed
<1>1. CASE Rescore
  BY <1>1, SettledKept DEF Rescore, routeVars, renderVars
<1>2. ASSUME NEW b \in Bodies, Route(b) PROVE Settled'
  BY <1>2, SettledKept DEF Route, SetRecipientBody, renderVars
<1>3. ASSUME NEW n \in Escalations, Begin(n) PROVE Settled'
  <2>1. \E at \in {"deriving", "fr", "done"}, b \in Bodies \union {NoBody} :
          Settles(n, at, b) /\ (at # "done" => b \in Bodies)
    BY <1>3, ConstantTypes DEF Begin, Settled
  <2>2. PICK at \in {"deriving", "fr", "done"}, b \in Bodies \union {NoBody} :
          Settles(n, at, b) /\ (at # "done" => b \in Bodies)
    BY <2>1
  <2>3. \A m \in Escalations :
          escalation'[m] = IF m = n THEN [at |-> at, body |-> b] ELSE escalation[m]
    BY <2>2, SettlesShape
  <2> QED BY <1>3, <2>2, <2>3 DEF Begin, Settled, routeVars, renderVars
<1>4. ASSUME NEW n \in Escalations, Derive(n) PROVE Settled'
  <2>1. \A m \in Escalations :
          escalation'[m] = IF m = n THEN [at |-> "fr", body |-> escalation[n].body]
                           ELSE escalation[m]
    BY <1>4, SettlesShape DEF Derive
  <2>2. escalation[n].body \in Bodies
    BY <1>4 DEF Derive, Settled
  <2> QED BY <1>4, <2>1, <2>2 DEF Derive, Settled, SetRecipientBody, renderVars
<1>5. ASSUME NEW n \in Escalations, NEW l \in Languages, Request(n, l) PROVE Settled'
  <2>1. \A m \in Escalations :
          escalation'[m] = IF m = n THEN [at |-> After(l), body |-> escalation[n].body]
                           ELSE escalation[m]
    BY <1>5, SettlesShape DEF Request
  <2>2. Renders(n, l, "queued", 0)
    BY <1>5 DEF Request, Renders
  <2>3. \A m \in Escalations, k \in Languages :
          render'[m][k] = IF m = n /\ k = l THEN [at |-> "queued", ref |-> 0] ELSE render[m][k]
    BY <2>2, RendersShape
  <2>4. escalation[n].body \in Bodies /\ After(l) # "none"
    BY <1>5 DEF Request, Settled, Languages, After
  <2>5. \A m \in Escalations : escalation'[m].body = escalation[m].body
    BY <2>1
  <2> QED BY <1>5, <2>1, <2>3, <2>4, <2>5 DEF Request, Settled, routeVars
<1>6. ASSUME NEW n \in Escalations, EscalationFails(n) PROVE Settled'
  <2>1. \A m \in Escalations :
          escalation'[m] = IF m = n THEN [at |-> "done", body |-> escalation[n].body]
                           ELSE escalation[m]
    BY <1>6, SettlesShape DEF EscalationFails
  <2> QED BY <1>6, <2>1 DEF EscalationFails, Settled, routeVars, renderVars
<1>7. ASSUME NEW n \in Escalations, NEW l \in Languages,
             Take(n, l) \/ Duplicate(n, l) \/ Publish(n, l) \/ RenderFails(n, l)
               \/ Insert(n, l, "yes") \/ Insert(n, l, "no")
      PROVE  Settled'
  <2>1. render[n][l].at # "none" /\ \E at, x : Renders(n, l, at, x)
    BY <1>7 DEF Take, Duplicate, Publish, RenderFails, Insert, Rendering
  <2>2. PICK at, x : Renders(n, l, at, x)
    BY <2>1
  <2>3. \A m \in Escalations, k \in Languages :
          render'[m][k] = IF m = n /\ k = l THEN [at |-> at, ref |-> x] ELSE render[m][k]
    BY <2>2, RendersShape
  <2>4. UNCHANGED escalation /\ UNCHANGED routing
    BY <1>7 DEF Take, Duplicate, Publish, RenderFails, Insert, routeVars
  <2> QED BY <2>1, <2>3, <2>4, SettledKept
<1>8. ASSUME NEW l \in Languages, KeyExpires(l) PROVE Settled'
  BY <1>8, SettledKept DEF KeyExpires, routeVars
<1> QED BY <1>1, <1>2, <1>3, <1>4, <1>5, <1>6, <1>7, <1>8 DEF RenderNext

(* What a step does to the bodies, whatever it does: those asked for stay, *)
(* and a request under way keeps the body of its event.                    *)
LEMMA BodiesKept ==
  ASSUME RenderTypeOK, Settled, RenderNext
  PROVE  /\ Asked \subseteq Asked'
         /\ \A n \in Escalations, l \in Languages :
              render[n][l].at # "none" => escalation'[n].body = escalation[n].body
         /\ routing.by # "none" => routing'.by # "none"
<1> DEFINE Same == /\ \A n \in Escalations : escalation[n].at # "none" =>
                                             escalation'[n].body = escalation[n].body
                   /\ routing.by # "none" => routing'.by # "none"
<1>1. ASSUME NEW n \in Escalations, NEW at, NEW b, Settles(n, at, b), UNCHANGED routing,
             escalation[n].at = "none" \/ b = escalation[n].body
      PROVE  Same
  <2>1. \A m \in Escalations :
          escalation'[m] = IF m = n THEN [at |-> at, body |-> b] ELSE escalation[m]
    BY <1>1, SettlesShape
  <2>2. \A m \in Escalations : escalation'[m].body = IF m = n THEN b ELSE escalation[m].body
    BY <2>1
  <2> QED BY <1>1, <2>2
<1> HIDE DEF Same
<1>2. ASSUME NEW n \in Escalations, Begin(n) PROVE Same
  <2>1. escalation[n].at = "none" /\ UNCHANGED routing /\ \E at, b : Settles(n, at, b)
    BY <1>2 DEF Begin, routeVars
  <2> QED BY <1>1, <2>1
<1>3. ASSUME NEW n \in Escalations, Derive(n) PROVE Same
  <2>1. \A m \in Escalations :
          escalation'[m] = IF m = n THEN [at |-> "fr", body |-> escalation[n].body]
                           ELSE escalation[m]
    BY <1>3, SettlesShape DEF Derive
  <2>2. \A m \in Escalations : escalation'[m].body = escalation[m].body
    BY <2>1
  <2> QED BY <1>3, <2>2 DEF Derive, SetRecipientBody, Same
<1>4. ASSUME NEW n \in Escalations, EscalationFails(n) \/ \E l \in Languages : Request(n, l)
      PROVE  Same
  <2>1. UNCHANGED routing /\ \E at : Settles(n, at, escalation[n].body)
    BY <1>4 DEF Request, EscalationFails, routeVars
  <2> QED BY <1>1, <2>1
<1>5. ASSUME NEW b \in Bodies, Route(b) PROVE Same
  BY <1>5 DEF Route, SetRecipientBody, Same
<1>6. ASSUME Rescore \/ \E l \in Languages : KeyExpires(l)
      PROVE  Same
  BY <1>6 DEF Rescore, KeyExpires, routeVars, Same
<1>7. ASSUME NEW n \in Escalations, NEW l \in Languages,
             Take(n, l) \/ Duplicate(n, l) \/ Publish(n, l) \/ RenderFails(n, l)
      PROVE  Same
  BY <1>7 DEF Take, Duplicate, Publish, RenderFails, routeVars, Same
<1>8. ASSUME NEW n \in Escalations, NEW l \in Languages, NEW signed \in {"yes", "no"},
             Insert(n, l, signed)
      PROVE  Same
  BY <1>8 DEF Insert, routeVars, Same
<1>9. Same
  BY <1>2, <1>3, <1>4, <1>5, <1>6, <1>7, <1>8 DEF RenderNext
<1>10. \A n \in Escalations : escalation[n].body # NoBody => escalation[n].at # "none"
  BY DEF Settled
<1>11. Asked \subseteq Asked'
  BY <1>9, <1>10 DEF Asked, Same
<1> QED BY <1>9, <1>11 DEF Same, Settled

(* A row keeps its language, its signature and whom it was printed for;    *)
(* and what has gone out has gone out.                                     *)
Gone == {"delivered", "acknowledged"}

RowsKept ==
  \A x \in Refs : dossiers[x].status # "none" =>
    /\ dossiers'[x].status # "none" /\ dossiers'[x].language = dossiers[x].language
    /\ dossiers'[x].printed = dossiers[x].printed /\ dossiers'[x].signed = dossiers[x].signed
    /\ dossiers[x].status \in Gone => dossiers'[x].status \in Gone

(* A request under way has a reference of its own, of no envelope, and the *)
(* row it will announce.                                                   *)
UnderWay ==
  /\ \A n \in Escalations, l \in Languages :
       render[n][l].at \in Rendering =>
         /\ render[n][l].ref \in 1..lastRef /\ envelope[render[n][l].ref] = NoBody
         /\ render[n][l].at = "rendering" => dossiers[render[n][l].ref].status = "none"
         /\ render[n][l].at = "publishing" =>
              /\ dossiers[render[n][l].ref].status # "none"
              /\ dossiers[render[n][l].ref].printed = escalation[n].body
  /\ \A n, m \in Escalations, l, k \in Languages :
       (/\ render[n][l].at \in Rendering /\ render[m][k].at \in Rendering
        /\ render[n][l].ref = render[m][k].ref)
         => n = m /\ l = k

(* A row was asked for by an event, and its envelope is for whom it was    *)
(* printed for.                                                            *)
RowsSound ==
  \A x \in Refs :
    /\ dossiers[x].status # "none" =>
         /\ x <= lastRef /\ dossiers[x].printed \in Asked
         /\ dossiers[x].recipient # dossiers[x].printed => routing.by # "none"
    /\ envelope[x] # NoBody => dossiers[x].status # "none" /\ dossiers[x].printed = envelope[x]

LEMMA UnderWayKept ==
  ASSUME RenderTypeOK, UnderWay, UNCHANGED <<lastRef, envelope>>,
         \A x \in Refs : dossiers'[x].status # "none" <=> dossiers[x].status # "none",
         RowsKept,
         \A n \in Escalations, l \in Languages :
           render'[n][l].at \in Rendering =>
             render'[n][l] = render[n][l] /\ escalation'[n].body = escalation[n].body
  PROVE  UnderWay'
<1>1. \A n \in Escalations, l \in Languages :
        render[n][l].at \in Rendering => render[n][l].ref \in Refs
  BY ConstantTypes DEF UnderWay, Refs, RenderTypeOK
<1> QED BY <1>1 DEF UnderWay, RowsKept, Rendering

LEMMA RowsSoundKept ==
  ASSUME RowsSound, UNCHANGED <<lastRef, envelope>>, Asked \subseteq Asked',
         routing.by # "none" => routing'.by # "none",
         \A x \in Refs : dossiers'[x].status # "none" => dossiers[x].status # "none",
         \A x \in Refs : dossiers[x].status # "none" =>
                         dossiers'[x].recipient = dossiers[x].recipient \/ routing'.by # "none",
         RowsKept
  PROVE  RowsSound'
BY DEF RowsSound, RowsKept

(* Nothing of the rendering marks a row as sent, or takes back an envelope. *)
NothingSent ==
  \A x \in Refs : dossiers'[x].status \in Gone => dossiers'[x] = dossiers[x]

EnvelopesKept == \A x \in Refs : envelope[x] # NoBody => envelope'[x] = envelope[x]

RenderKeeps == UnderWay' /\ RowsSound' /\ RowsKept /\ NothingSent /\ EnvelopesKept

(* A step that leaves the requests under way, or drops one. *)
LEMMA QuietStep ==
  ASSUME RenderTypeOK, Settled, UnderWay, RowsSound, RenderNext,
         UNCHANGED <<lastRef, envelope>>, UNCHANGED dossiers \/ \E who, b : SetRecipientBody(who, b),
         \A n \in Escalations, l \in Languages :
           render'[n][l].at \in Rendering => render'[n][l] = render[n][l],
         UNCHANGED dossiers \/ routing'.by # "none"
  PROVE  RenderKeeps
<1>1. \A x \in Refs :
        /\ dossiers'[x].status = dossiers[x].status
        /\ dossiers'[x].language = dossiers[x].language
        /\ dossiers'[x].printed = dossiers[x].printed
        /\ dossiers'[x].signed = dossiers[x].signed
        /\ dossiers[x].status # "rendered" => dossiers'[x] = dossiers[x]
  <2>1. CASE UNCHANGED dossiers
    BY <2>1
  <2>2. ASSUME NEW who, NEW b, SetRecipientBody(who, b), NEW x \in Refs
        PROVE  /\ dossiers'[x].status = dossiers[x].status
               /\ dossiers'[x].language = dossiers[x].language
               /\ dossiers'[x].printed = dossiers[x].printed
               /\ dossiers'[x].signed = dossiers[x].signed
               /\ dossiers[x].status # "rendered" => dossiers'[x] = dossiers[x]
    <3>1. dossiers[x] \in DossierRows
      BY TypesNamed DEF RenderTypes
    <3>2. dossiers'[x] = IF dossiers[x].status = "rendered"
                           THEN [dossiers[x] EXCEPT !.recipient = b] ELSE dossiers[x]
      BY <2>2 DEF SetRecipientBody
    <3> QED BY <3>1, <3>2 DEF DossierRows
  <2> QED BY <2>1, <2>2
<1>2. RowsKept
  BY <1>1 DEF RowsKept
<1>3. NothingSent
  BY <1>1 DEF NothingSent, Gone
<1>4. \A n \in Escalations, l \in Languages :
        render'[n][l].at \in Rendering =>
          render'[n][l] = render[n][l] /\ escalation'[n].body = escalation[n].body
  BY BodiesKept DEF Rendering
<1>5. UnderWay'
  BY <1>1, <1>2, <1>4, UnderWayKept
<1>6. RowsSound'
  BY <1>1, <1>2, BodiesKept, RowsSoundKept
<1> QED BY <1>2, <1>3, <1>5, <1>6 DEF RenderKeeps, EnvelopesKept

LEMMA TakeStep ==
  ASSUME RenderTypeOK, Settled, UnderWay, RowsSound, RenderNext,
         NEW n \in Escalations, NEW l \in Languages, Take(n, l)
  PROVE  RenderKeeps
<1>1. \A m \in Escalations, k \in Languages :
        render'[m][k] = IF m = n /\ k = l THEN [at |-> "rendering", ref |-> lastRef + 1]
                        ELSE render[m][k]
  BY RendersShape DEF Take
<1>2. /\ lastRef \in Nat /\ lastRef' = lastRef + 1 /\ lastRef + 1 \in Refs
      /\ dossiers' = dossiers /\ envelope' = envelope /\ escalation' = escalation
  BY TypesNamed, ConstantTypes DEF Take, RenderTypes, Refs
<1>3. dossiers[lastRef + 1].status = "none" /\ envelope[lastRef + 1] = NoBody
  BY <1>2 DEF RowsSound
<1>4. RowsKept /\ NothingSent /\ EnvelopesKept
  BY <1>2 DEF RowsKept, NothingSent, EnvelopesKept
<1>5. UnderWay'
  <2>1. ASSUME NEW m \in Escalations, NEW k \in Languages, render'[m][k].at \in Rendering
        PROVE  /\ render'[m][k].ref \in 1..lastRef' /\ envelope'[render'[m][k].ref] = NoBody
               /\ render'[m][k].at = "rendering" => dossiers'[render'[m][k].ref].status = "none"
               /\ render'[m][k].at = "publishing" =>
                    /\ dossiers'[render'[m][k].ref].status # "none"
                    /\ dossiers'[render'[m][k].ref].printed = escalation'[m].body
    <3>1. CASE m = n /\ k = l
      BY <1>1, <1>2, <1>3, <3>1
    <3>2. CASE ~(m = n /\ k = l)
      BY <1>1, <1>2, <2>1, <3>2 DEF UnderWay
    <3> QED BY <3>1, <3>2
  <2>2. ASSUME NEW m \in Escalations, NEW k \in Languages, ~(m = n /\ k = l),
               render'[m][k].at \in Rendering
        PROVE  render'[m][k].ref # lastRef + 1
    BY <1>1, <1>2, <2>2 DEF UnderWay
  <2>3. \A m1, m2 \in Escalations, k1, k2 \in Languages :
          (/\ render'[m1][k1].at \in Rendering /\ render'[m2][k2].at \in Rendering
           /\ render'[m1][k1].ref = render'[m2][k2].ref)
            => m1 = m2 /\ k1 = k2
    BY <1>1, <2>2 DEF UnderWay
  <2> QED BY <2>1, <2>3 DEF UnderWay
<1>6. RowsSound'
  <2>1. \A x \in Refs : x <= lastRef => x <= lastRef'
    BY <1>2, RefsAreNat
  <2> QED BY <1>2, <2>1, BodiesKept DEF RowsSound
<1> QED BY <1>4, <1>5, <1>6 DEF RenderKeeps

LEMMA InsertStep ==
  ASSUME RenderTypeOK, Settled, UnderWay, RowsSound, RenderNext,
         NEW n \in Escalations, NEW l \in Languages, NEW signed \in {"yes", "no"},
         Insert(n, l, signed)
  PROVE  RenderKeeps
<1> DEFINE ref == render[n][l].ref
           row == [language |-> l, printed |-> escalation[n].body,
                   recipient |-> escalation[n].body, signed |-> signed,
                   status |-> "rendered", manifest |-> 0]
<1>1. \A m \in Escalations, k \in Languages :
        render'[m][k] = IF m = n /\ k = l THEN [at |-> "publishing", ref |-> ref]
                        ELSE render[m][k]
  BY RendersShape DEF Insert
<1>2. /\ lastRef' = lastRef /\ envelope' = envelope /\ escalation' = escalation
      /\ \A x \in Refs : dossiers'[x] = IF x = ref THEN row ELSE dossiers[x]
  BY TypesNamed DEF Insert, RenderTypes
<1>3. /\ ref \in 1..lastRef /\ ref \in Refs /\ render[n][l].at \in Rendering
      /\ dossiers[ref].status = "none" /\ envelope[ref] = NoBody
  BY TypesNamed, ConstantTypes DEF UnderWay, Insert, Rendering, RenderTypes, Refs
<1>4. \A m \in Escalations, k \in Languages :
        (render[m][k].at \in Rendering /\ ~(m = n /\ k = l)) =>
          render[m][k].ref # ref /\ render[m][k].ref \in Refs
  BY <1>3, TypesNamed, ConstantTypes DEF UnderWay, RenderTypes, Refs
<1>5. escalation[n].body \in Asked
  BY ConstantTypes DEF Settled, Insert, Asked
<1>6. RowsKept /\ NothingSent /\ EnvelopesKept
  BY <1>2, <1>3 DEF RowsKept, NothingSent, EnvelopesKept, Gone
<1> HIDE DEF ref
<1>7. UnderWay'
  <2>1. ASSUME NEW m \in Escalations, NEW k \in Languages, render'[m][k].at \in Rendering
        PROVE  /\ render'[m][k].ref \in 1..lastRef' /\ envelope'[render'[m][k].ref] = NoBody
               /\ render'[m][k].at = "rendering" => dossiers'[render'[m][k].ref].status = "none"
               /\ render'[m][k].at = "publishing" =>
                    /\ dossiers'[render'[m][k].ref].status # "none"
                    /\ dossiers'[render'[m][k].ref].printed = escalation'[m].body
    <3>1. CASE m = n /\ k = l
      BY <1>1, <1>2, <1>3, <3>1
    <3>2. CASE ~(m = n /\ k = l)
      BY <1>1, <1>2, <1>4, <2>1, <3>2 DEF UnderWay
    <3> QED BY <3>1, <3>2
  <2>2. \A m \in Escalations, k \in Languages :
          render'[m][k].at \in Rendering =>
            render[m][k].at \in Rendering /\ render'[m][k].ref = render[m][k].ref
    BY <1>1, <1>3 DEF ref
  <2> QED BY <2>1, <2>2 DEF UnderWay
<1>8. RowsSound'
  <2>1. ASSUME NEW x \in Refs
        PROVE  /\ dossiers'[x].status # "none" =>
                    /\ x <= lastRef' /\ dossiers'[x].printed \in Asked'
                    /\ dossiers'[x].recipient # dossiers'[x].printed => routing'.by # "none"
               /\ envelope'[x] # NoBody =>
                    dossiers'[x].status # "none" /\ dossiers'[x].printed = envelope'[x]
    <3>1. CASE x = ref
      BY <1>2, <1>3, <1>5, <3>1, BodiesKept
    <3>2. CASE x # ref
      BY <1>2, <3>2, BodiesKept DEF RowsSound
    <3> QED BY <3>1, <3>2
  <2> QED BY <2>1 DEF RowsSound
<1> QED BY <1>6, <1>7, <1>8 DEF RenderKeeps

LEMMA PublishStep ==
  ASSUME RenderTypeOK, Settled, UnderWay, RowsSound, RenderNext,
         NEW n \in Escalations, NEW l \in Languages, Publish(n, l)
  PROVE  RenderKeeps
<1> DEFINE ref == render[n][l].ref
<1>1. \A m \in Escalations, k \in Languages :
        render'[m][k] = IF m = n /\ k = l THEN [at |-> "acked", ref |-> ref]
                        ELSE render[m][k]
  BY RendersShape DEF Publish
<1>2. /\ lastRef' = lastRef /\ dossiers' = dossiers /\ escalation' = escalation
      /\ \A x \in Refs : envelope'[x] = IF x = ref THEN escalation[n].body ELSE envelope[x]
  BY TypesNamed DEF Publish, RenderTypes, Addressed
<1>3. /\ ref \in 1..lastRef /\ ref \in Refs /\ render[n][l].at \in Rendering
      /\ dossiers[ref].status # "none" /\ dossiers[ref].printed = escalation[n].body
      /\ envelope[ref] = NoBody
  BY TypesNamed, ConstantTypes DEF UnderWay, Publish, Rendering, RenderTypes, Refs
<1>4. \A m \in Escalations, k \in Languages :
        render'[m][k].at \in Rendering =>
          /\ render'[m][k] = render[m][k] /\ render[m][k].at \in Rendering
          /\ render[m][k].ref # ref /\ render[m][k].ref \in Refs
  BY <1>1, <1>3, TypesNamed, ConstantTypes DEF UnderWay, RenderTypes, Refs, Rendering
<1>5. RowsKept /\ NothingSent /\ EnvelopesKept
  BY <1>2, <1>3 DEF RowsKept, NothingSent, EnvelopesKept, Gone
<1> HIDE DEF ref
<1>6. UnderWay'
  BY <1>2, <1>4 DEF UnderWay
<1>7. RowsSound'
  BY <1>2, <1>3, BodiesKept DEF RowsSound
<1> QED BY <1>5, <1>6, <1>7 DEF RenderKeeps

LEMMA RenderStep ==
  ASSUME RenderTypeOK, Settled, UnderWay, RowsSound, RenderNext
  PROVE  RenderKeeps
<1>1. CASE Rescore
  BY <1>1, QuietStep DEF Rescore, routeVars, renderVars
<1>2. ASSUME NEW b \in Bodies, Route(b) PROVE RenderKeeps
  BY <1>2, QuietStep DEF Route, SetRecipientBody, renderVars
<1>3. ASSUME NEW n \in Escalations, Begin(n) PROVE RenderKeeps
  BY <1>3, QuietStep DEF Begin, renderVars
<1>4. ASSUME NEW n \in Escalations, Derive(n) PROVE RenderKeeps
  BY <1>4, QuietStep DEF Derive, SetRecipientBody, renderVars
<1>5. ASSUME NEW n \in Escalations, EscalationFails(n) PROVE RenderKeeps
  BY <1>5, QuietStep DEF EscalationFails, renderVars
<1>6. ASSUME NEW n \in Escalations, NEW l \in Languages, NEW at, NEW x, at \notin Rendering,
             Renders(n, l, at, x), UNCHANGED <<lastRef, envelope, dossiers>>
      PROVE  RenderKeeps
  <2>1. \A m \in Escalations, k \in Languages :
          render'[m][k] = IF m = n /\ k = l THEN [at |-> at, ref |-> x] ELSE render[m][k]
    BY <1>6, RendersShape
  <2>2. \A m \in Escalations, k \in Languages :
          render'[m][k].at \in Rendering => render'[m][k] = render[m][k]
    BY <1>6, <2>1
  <2> QED BY <1>6, <2>2, QuietStep
<1>7. ASSUME NEW n \in Escalations, NEW l \in Languages,
             Request(n, l) \/ Duplicate(n, l) \/ RenderFails(n, l)
      PROVE  RenderKeeps
  <2>1. UNCHANGED <<lastRef, envelope, dossiers>>
    BY <1>7 DEF Request, Duplicate, RenderFails
  <2>2. \E at \in {"queued", "over"} : \E x : Renders(n, l, at, x)
    BY <1>7 DEF Request, Duplicate, RenderFails, Renders
  <2> QED BY <1>6, <2>1, <2>2 DEF Rendering
<1>8. ASSUME NEW l \in Languages, KeyExpires(l) PROVE RenderKeeps
  BY <1>8, QuietStep DEF KeyExpires
<1> QED BY <1>1, <1>2, <1>3, <1>4, <1>5, <1>7, <1>8, TakeStep, InsertStep, PublishStep
     DEF RenderNext

-----------------------------------------------------------------------------
(* Types of the delivery *)

Deliveries == [Refs -> Running \union {"queued", "again", "acked", "over"}]
Inboxes == [Refs -> [fr : 0..Torn, en : 0..Torn, manifest : Pairs]]
Manifests == [ref : Refs, body : Bodies \union {NoBody}, strength : {"above", "below"},
              fr : Refs \union {0}, en : Refs \union {0}]

DeliveryTypes ==
  /\ delivery \in Deliveries /\ pair \in [Refs -> Pairs] /\ inbox \in Inboxes
  /\ sent \subseteq Manifests /\ reuploaded \subseteq Refs /\ weakened \subseteq Refs

LEMMA AllTypes == TypeOK <=> RenderTypes /\ DeliveryTypes
BY TypesNamed DEF TypeOK, DeliveryTypes, Deliveries, Inboxes, Manifests

LEMMA AllTypesNext == TypeOK' <=> RenderTypes' /\ DeliveryTypes'
BY TypesNamedNext DEF TypeOK, DeliveryTypes, Deliveries, Inboxes, Manifests

(* A handler moves; it is found where it was, or where it went to. *)
Places == Running \union {"queued", "again", "acked", "over"}

LEMMA GoesShape ==
  ASSUME TypeOK, NEW r \in Refs, NEW at \in Places, Goes(r, at)
  PROVE  /\ delivery' \in Deliveries
         /\ \A q \in Refs : delivery'[q] = IF q = r THEN at ELSE delivery[q]
BY DEF TypeOK, Goes, Deliveries, Places

LEMMA MarksType ==
  ASSUME TypeOK, NEW X, NEW status \in Gone, NEW r \in Refs, Marks(X, status, r)
  PROVE  dossiers' \in [Refs -> DossierRows]
<1>1. ASSUME NEW x \in Refs
      PROVE  /\ dossiers[x] \in DossierRows
             /\ [dossiers[x] EXCEPT !.status = status, !.manifest = r] \in DossierRows
  <2>1. dossiers[x] \in DossierRows
    BY AllTypes DEF RenderTypes
  <2> QED BY <2>1 DEF DossierRows, Statuses, Gone
<1> QED BY <1>1 DEF Marks

LEMMA AcknowledgeType ==
  ASSUME TypeOK, NEW r \in Refs, NEW S \in SUBSET Languages, Acknowledge(r, S)
  PROVE  dossiers' \in [Refs -> DossierRows] /\ delivery' \in Deliveries /\ upsets' \in Nat
<1>1. ASSUME NEW x \in Refs
      PROVE  /\ dossiers[x] \in DossierRows
             /\ [dossiers[x] EXCEPT !.status = "acknowledged"] \in DossierRows
  <2>1. dossiers[x] \in DossierRows
    BY AllTypes DEF RenderTypes
  <2> QED BY <2>1 DEF DossierRows, Statuses
<1>2. dossiers' \in [Refs -> DossierRows]
  BY <1>1 DEF Acknowledge
<1>3. delivery' \in Deliveries
  BY AllTypes, GoesShape DEF Acknowledge, DeliveryTypes, Places
<1>4. upsets' \in Nat
  BY UpsetType DEF Acknowledge, TypeOK
<1> QED BY <1>2, <1>3, <1>4

LEMMA InboxType ==
  ASSUME TypeOK, NEW r \in Refs, NEW l \in Languages, NEW x \in 0..Torn,
         inbox' = [inbox EXCEPT ![r][l] = x]
  PROVE  inbox' \in Inboxes
<1>1. inbox[r] \in [fr : 0..Torn, en : 0..Torn, manifest : Pairs]
  BY DEF TypeOK
<1>2. CASE l = "fr"
  BY <1>1, <1>2 DEF TypeOK, Inboxes
<1>3. CASE l = "en"
  BY <1>1, <1>3 DEF TypeOK, Inboxes
<1> QED BY <1>2, <1>3 DEF Languages

LEMMA ManifestType ==
  ASSUME TypeOK, NEW r \in Refs, NEW p \in Pairs, inbox' = [inbox EXCEPT ![r].manifest = p]
  PROVE  inbox' \in Inboxes
BY DEF TypeOK, Inboxes

LEMMA DeliveryTypeStep ==
  ASSUME TypeOK, NEW r \in Refs, DeliveryNext(r)
  PROVE  TypeOK'
<1>0. RenderTypes /\ DeliveryTypes /\ pair[r] \in Pairs
  BY AllTypes DEF DeliveryTypes
<1> SUFFICES RenderTypes' /\ DeliveryTypes'
  BY AllTypesNext
<1> USE DEF handlerVars, inboxVars, deliveryVars
<1>1. CASE Check(r) \/ AwaitSibling(r) \/ StopPolling(r)
  <2>1. \E at \in Places : Goes(r, at)
    BY <1>1 DEF Check, AwaitSibling, StopPolling, Retries, Places, Running
  <2>2. delivery' \in Deliveries
    BY <2>1, GoesShape
  <2>3. UNCHANGED <<dossierVars, pair, inboxVars, weakened>>
    BY <1>1 DEF Check, AwaitSibling, StopPolling
  <2> QED BY <1>0, <2>2, <2>3
       DEF RenderTypes, DeliveryTypes, dossierVars, routeVars, renderVars
<1>2. CASE DeliveryCrash(r)
  <2>1. delivery' \in Deliveries
    BY <1>2, GoesShape DEF DeliveryCrash, Places
  <2>2. upsets' \in Nat
    BY <1>2, UpsetType DEF DeliveryCrash, TypeOK
  <2> QED BY <1>0, <1>2, <2>1, <2>2
       DEF DeliveryCrash, RenderTypes, DeliveryTypes, routeVars, renderVars
<1>3. ASSUME NEW f \in Refs, NEW e \in Refs, Pick(r, f, e) PROVE RenderTypes' /\ DeliveryTypes'
  <2>1. delivery' \in Deliveries
    BY <1>3, GoesShape DEF Pick, Places, Running
  <2>2. [fr |-> f, en |-> e] \in Pairs
    BY DEF Pairs
  <2>3. pair' \in [Refs -> Pairs]
    BY <1>0, <1>3, <2>2 DEF Pick, DeliveryTypes
  <2> QED BY <1>0, <1>3, <2>1, <2>3
       DEF Pick, RenderTypes, DeliveryTypes, dossierVars, routeVars, renderVars
<1>4. ASSUME NEW l \in Languages, PutDossier(r, l) PROVE RenderTypes' /\ DeliveryTypes'
  <2>1. delivery' \in Deliveries
    BY <1>4, GoesShape DEF PutDossier, NextPut, Places, Running
  <2>2. pair[r][l] \in 0..Torn
    BY <1>0, RefsAreNat DEF Pairs, Languages
  <2>3. inbox' \in Inboxes
    BY <1>4, <2>2, InboxType DEF PutDossier
  <2>4. reuploaded' \subseteq Refs
    BY <1>0, <1>4 DEF PutDossier, WritesTo, DeliveryTypes
  <2> QED BY <1>0, <1>4, <2>1, <2>3, <2>4
       DEF PutDossier, RenderTypes, DeliveryTypes, dossierVars, routeVars, renderVars
<1>5. CASE PutManifest(r)
  <2>1. delivery' \in Deliveries
    BY <1>5, GoesShape DEF PutManifest, NextPut, Places, Running
  <2>2. inbox' \in Inboxes
    BY <1>0, <1>5, ManifestType DEF PutManifest
  <2>3. Manifest(r) \in Manifests
    BY <1>0 DEF Manifest, Manifests, RenderTypes, Pairs
  <2> QED BY <1>0, <1>5, <2>1, <2>2, <2>3
       DEF PutManifest, RenderTypes, DeliveryTypes, dossierVars, routeVars, renderVars
<1>6. CASE MarkDelivered(r)
  <2>1. delivery' \in Deliveries
    BY <1>6, GoesShape DEF MarkDelivered, Places, Running
  <2>2. dossiers' \in [Refs -> DossierRows]
    BY <1>6, MarksType DEF MarkDelivered, Gone
  <2> QED BY <1>0, <1>6, <2>1, <2>2
       DEF MarkDelivered, RenderTypes, DeliveryTypes, routeVars, renderVars
<1>7. ASSUME NEW S \in SUBSET Languages, MarkFails(r, S) PROVE RenderTypes' /\ DeliveryTypes'
  <2>1. delivery' \in Deliveries
    BY <1>7, GoesShape DEF MarkFails, Retries, Places
  <2>2. dossiers' \in [Refs -> DossierRows]
    BY <1>7, MarksType DEF MarkFails, Gone
  <2>3. upsets' \in Nat
    BY <1>7, UpsetType DEF MarkFails, TypeOK
  <2> QED BY <1>0, <1>7, <2>1, <2>2, <2>3
       DEF MarkFails, RenderTypes, DeliveryTypes, routeVars, renderVars
<1>8. CASE DeliveryFails(r)
  <2>1. delivery' \in Deliveries
    BY <1>8, GoesShape DEF DeliveryFails, Retries, Places
  <2>2. upsets' \in Nat
    BY <1>8, UpsetType DEF DeliveryFails, TypeOK
  <2>3. inbox' \in Inboxes
    BY <1>0, <1>8, RefsAreNat, InboxType, ManifestType
    DEF DeliveryFails, Languages, DeliveryTypes
  <2>4. reuploaded' \subseteq Refs
    <3>1. UNCHANGED reuploaded \/ WritesTo(r)
      BY <1>8 DEF DeliveryFails
    <3> QED BY <1>0, <3>1 DEF WritesTo, DeliveryTypes
  <2> QED BY <1>0, <1>8, <2>1, <2>2, <2>3, <2>4
       DEF DeliveryFails, RenderTypes, DeliveryTypes, routeVars, renderVars
<1>9. ASSUME NEW S \in SUBSET Languages, Acknowledge(r, S) PROVE RenderTypes' /\ DeliveryTypes'
  <2>1. dossiers' \in [Refs -> DossierRows] /\ delivery' \in Deliveries /\ upsets' \in Nat
    BY <1>9, AcknowledgeType
  <2> QED BY <1>0, <1>9, <2>1
       DEF Acknowledge, RenderTypes, DeliveryTypes, routeVars, renderVars
<1> QED BY <1>1, <1>2, <1>3, <1>4, <1>5, <1>6, <1>7, <1>8, <1>9 DEF DeliveryNext

LEMMA TypeStep == ASSUME TypeOK, Settled, [Next]_vars PROVE TypeOK'
<1>1. CASE RenderNext /\ Weakens /\ UNCHANGED <<handlerVars, inboxVars>>
  <2>1. RenderTypes' /\ DeliveryTypes
    BY <1>1, RenderTypeStep, TypesNamedNext, AllTypes DEF TypeOK
  <2>2. weakened' \subseteq Refs
    BY <1>1, <2>1 DEF Weakens, DeliveryTypes
  <2> QED BY <1>1, <2>1, <2>2, AllTypesNext DEF DeliveryTypes, handlerVars, inboxVars
<1>2. CASE UNCHANGED vars
  BY <1>2 DEF vars, dossierVars, deliveryVars, routeVars, renderVars, handlerVars, inboxVars,
              TypeOK, RenderTypeOK
<1> QED BY <1>1, <1>2, DeliveryTypeStep DEF Next

LEMMA InitType == Init => TypeOK
<1> SUFFICES ASSUME Init PROVE RenderTypes /\ DeliveryTypes
  BY AllTypes
<1>1. NoDossier \in DossierRows
  BY DEF NoDossier, DossierRows, Statuses
<1>2. Empty \in [fr : 0..Torn, en : 0..Torn, manifest : Pairs]
  BY RefsAreNat DEF Empty
<1>3. RenderTypes
  BY <1>1, ConstantTypes
  DEF Init, RenderInit, RenderTypes, Routings, Handlers, Requests
<1>4. DeliveryTypes
  BY <1>2, RefsAreNat DEF Init, DeliveryTypes, Deliveries, Inboxes
<1> QED BY <1>3, <1>4

-----------------------------------------------------------------------------
(* The invariant of the delivery *)

SignedRow(x) == x \in Refs /\ dossiers[x].status # "none" /\ dossiers[x].signed = "yes"

Uploading == Running \ {"checked"}

(* A handler has an envelope; the pair it uploads is signed, and once it   *)
(* marks the pair a manifest of it has gone out.                           *)
HandlerOK(r) ==
  /\ delivery[r] \in Running \union {"again"} => envelope[r] # NoBody
  /\ delivery[r] \in Uploading => SignedRow(pair[r].fr) /\ SignedRow(pair[r].en)
  /\ delivery[r] \in {"mark", "poll"} =>
       \E m \in sent : m.ref = r /\ m.fr = pair[r].fr /\ m.en = pair[r].en
  /\ delivery[r] = "poll" =>
       dossiers[pair[r].fr].status \in Gone /\ dossiers[pair[r].en].status \in Gone

(* What lies in a directory is signed, and under a manifest it is what the *)
(* manifest names, unless the directory has been written to again.         *)
InboxOK(r) ==
  /\ inbox[r].fr \in Refs => SignedRow(inbox[r].fr)
  /\ inbox[r].en \in Refs => SignedRow(inbox[r].en)
  /\ r \notin reuploaded =>
       /\ inbox[r].manifest # NoPair =>
            inbox[r].fr = inbox[r].manifest.fr /\ inbox[r].en = inbox[r].manifest.en
       /\ delivery[r] = "put en" => inbox[r].fr = pair[r].fr
       /\ delivery[r] = "put manifest" => inbox[r].fr = pair[r].fr /\ inbox[r].en = pair[r].en

ThresholdOK(r) ==
  delivery[r] \in Running /\ envelope[r] = Conac /\ strength = "below" => r \in weakened

SentOK(m) ==
  /\ SignedRow(m.fr) /\ SignedRow(m.en)
  /\ m.body = envelope[m.ref] /\ m.body # NoBody
  /\ m.body = Conac /\ m.strength = "below" => m.ref \in weakened

DeliverySound ==
  /\ \A r \in Refs : HandlerOK(r) /\ InboxOK(r) /\ ThresholdOK(r)
  /\ \A m \in sent : SentOK(m)
  /\ \A x \in Refs : dossiers[x].status \in Gone =>
       \E m \in sent : m.ref = dossiers[x].manifest /\ x \in {m.fr, m.en}

RoutingSound == routing.by = "operator" => Deriving \subseteq overtaken

IInv == TypeOK /\ Settled /\ UnderWay /\ RowsSound /\ DeliverySound /\ RoutingSound

(* A step that keeps the rows, and leaves a handler and its directory.     *)
LEMMA HandlerKept ==
  ASSUME NEW q \in Refs, HandlerOK(q), InboxOK(q), RowsKept, EnvelopesKept,
         delivery'[q] = delivery[q], pair'[q] = pair[q], inbox'[q] = inbox[q],
         sent \subseteq sent', q \in reuploaded => q \in reuploaded'
  PROVE  HandlerOK(q)' /\ InboxOK(q)'
<1>1. \A x : SignedRow(x) => SignedRow(x)'
  BY DEF SignedRow, RowsKept
<1>2. HandlerOK(q)'
  <2>1. delivery'[q] \in Running \union {"again"} => envelope'[q] # NoBody
    BY DEF HandlerOK, EnvelopesKept
  <2>2. delivery'[q] \in Uploading => SignedRow(pair[q].fr)' /\ SignedRow(pair[q].en)'
    BY <1>1 DEF HandlerOK, SignedRow, RowsKept
  <2>3. delivery'[q] = "poll" =>
          dossiers'[pair'[q].fr].status \in Gone /\ dossiers'[pair'[q].en].status \in Gone
    BY DEF HandlerOK, SignedRow, RowsKept, Uploading, Running
  <2>4. delivery'[q] \in {"mark", "poll"} =>
          \E m \in sent' : m.ref = q /\ m.fr = pair'[q].fr /\ m.en = pair'[q].en
    BY DEF HandlerOK
  <2> QED BY <2>1, <2>2, <2>3, <2>4 DEF HandlerOK
<1>3. InboxOK(q)'
  BY DEF InboxOK, SignedRow, RowsKept
<1> QED BY <1>2, <1>3

LEMMA SentKept ==
  ASSUME NEW m, SentOK(m), m.ref \in Refs, RowsKept, EnvelopesKept, weakened \subseteq weakened'
  PROVE  SentOK(m)'
BY DEF SentOK, SignedRow, RowsKept, EnvelopesKept

(* The rendering goes on beside the deliveries. *)
LEMMA RenderBeside ==
  ASSUME IInv, RenderNext, Weakens, UNCHANGED <<handlerVars, inboxVars>>
  PROVE  DeliverySound'
<1>1. RenderKeeps
  BY RenderStep DEF IInv, TypeOK
<1>2. /\ UNCHANGED <<delivery, pair, inbox, sent, reuploaded>> /\ weakened \subseteq weakened'
      /\ sent \subseteq Manifests /\ strength \in {"above", "below"}
  BY AllTypes DEF handlerVars, inboxVars, Weakens, IInv, DeliveryTypes, RenderTypes
<1>3. \A q \in Refs : HandlerOK(q)' /\ InboxOK(q)'
  BY <1>1, <1>2, HandlerKept DEF IInv, DeliverySound, RenderKeeps
<1>4. ASSUME NEW q \in Refs PROVE ThresholdOK(q)'
  <2>1. SUFFICES ASSUME delivery'[q] \in Running, envelope'[q] = Conac, strength' = "below"
                 PROVE  q \in weakened'
    BY DEF ThresholdOK
  <2>2. delivery[q] \in Running /\ envelope[q] = Conac
    BY <1>1, <1>2, <2>1 DEF IInv, DeliverySound, HandlerOK, RenderKeeps, EnvelopesKept
  <2>3. CASE strength = "below"
    BY <1>2, <2>2, <2>3 DEF IInv, DeliverySound, ThresholdOK
  <2>4. CASE strength = "above"
    BY <2>1, <2>2, <2>4 DEF Weakens
  <2> QED BY <1>2, <2>3, <2>4
<1>5. \A m \in sent : m.ref \in Refs
  BY <1>2 DEF Manifests
<1>6. \A m \in sent' : SentOK(m)'
  BY <1>1, <1>2, <1>5, SentKept DEF IInv, DeliverySound, RenderKeeps
<1>7. \A x \in Refs : dossiers'[x].status \in Gone =>
        \E m \in sent' : m.ref = dossiers'[x].manifest /\ x \in {m.fr, m.en}
  BY <1>1, <1>2 DEF IInv, DeliverySound, RenderKeeps, NothingSent
<1> QED BY <1>3, <1>4, <1>6, <1>7 DEF DeliverySound

LEMMA RoutingStep ==
  ASSUME RenderTypeOK, RoutingSound, RenderNext
  PROVE  RoutingSound'
<1>1. ASSUME Deriving' \subseteq Deriving, UNCHANGED routeVars PROVE RoutingSound'
  BY <1>1 DEF RoutingSound, routeVars
<1>2. ASSUME UNCHANGED escalation, UNCHANGED routeVars PROVE RoutingSound'
  BY <1>1, <1>2 DEF Deriving
<1>3. CASE Rescore \/ \E l \in Languages : KeyExpires(l)
  BY <1>2, <1>3 DEF Rescore, KeyExpires
<1>4. ASSUME NEW n \in Escalations, NEW l \in Languages,
             Take(n, l) \/ Duplicate(n, l) \/ Publish(n, l) \/ RenderFails(n, l)
      PROVE  RoutingSound'
  BY <1>2, <1>4 DEF Take, Duplicate, Publish, RenderFails
<1>5. ASSUME NEW n \in Escalations, NEW l \in Languages, NEW signed \in {"yes", "no"},
             Insert(n, l, signed)
      PROVE  RoutingSound'
  BY <1>2, <1>5 DEF Insert
<1>6. ASSUME NEW b \in Bodies, Route(b) PROVE RoutingSound'
  BY <1>6 DEF Route, RoutingSound, Deriving
<1>7. ASSUME NEW n \in Escalations, Derive(n) PROVE RoutingSound'
  BY <1>7 DEF Derive, SetRecipientBody, RoutingSound
<1>8. ASSUME NEW n \in Escalations, NEW at, NEW b, Settles(n, at, b), at # "deriving",
             UNCHANGED routeVars
      PROVE  RoutingSound'
  <2>1. \A m \in Escalations :
          escalation'[m] = IF m = n THEN [at |-> at, body |-> b] ELSE escalation[m]
    BY <1>8, SettlesShape
  <2>2. Deriving' \subseteq Deriving
    BY <1>8, <2>1 DEF Deriving
  <2> QED BY <1>1, <1>8, <2>2
<1>9. ASSUME NEW n \in Escalations, EscalationFails(n) \/ \E l \in Languages : Request(n, l)
      PROVE  RoutingSound'
  <2>1. \E at : at # "deriving" /\ Settles(n, at, escalation[n].body)
    BY <1>9 DEF EscalationFails, Request, After
  <2>2. UNCHANGED routeVars
    BY <1>9 DEF EscalationFails, Request
  <2> QED BY <1>8, <2>1, <2>2
<1>10. ASSUME NEW n \in Escalations, Begin(n) PROVE RoutingSound'
  <2>1. CASE \E at, b : at # "deriving" /\ Settles(n, at, b)
    BY <1>8, <1>10, <2>1 DEF Begin
  <2>2. CASE ~\E at, b : at # "deriving" /\ Settles(n, at, b)
    BY <1>10, <2>2 DEF Begin, RoutingSound, routeVars
  <2> QED BY <2>1, <2>2
<1> QED BY <1>3, <1>4, <1>5, <1>6, <1>7, <1>9, <1>10 DEF RenderNext

-----------------------------------------------------------------------------
(* The steps of a delivery *)

(* What none of them touches. *)
LEMMA DeliveryShape ==
  ASSUME TypeOK, NEW r \in Refs, DeliveryNext(r)
  PROVE  /\ UNCHANGED <<strength, routing, overtaken, escalation, render, keys, lastRef, envelope,
                        weakened>>
         /\ sent \subseteq sent' /\ reuploaded \subseteq reuploaded'
         /\ \A q \in Refs : q # r =>
              delivery'[q] = delivery[q] /\ pair'[q] = pair[q] /\ inbox'[q] = inbox[q]
<1> USE DEF dossierVars, routeVars, renderVars, inboxVars
<1>1. /\ UNCHANGED <<strength, routing, overtaken, escalation, render, keys, lastRef, envelope,
                     weakened>>
      /\ sent \subseteq sent' /\ reuploaded \subseteq reuploaded'
  BY DEF DeliveryNext, Check, AwaitSibling, PutManifest, MarkDelivered, DeliveryFails, StopPolling,
         DeliveryCrash, Pick, PutDossier, MarkFails, Acknowledge, WritesTo
<1>2. \/ UNCHANGED delivery
      \/ \E at : Goes(r, at)
  BY DEF DeliveryNext, Check, AwaitSibling, PutManifest, MarkDelivered, DeliveryFails, StopPolling,
         DeliveryCrash, Pick, PutDossier, MarkFails, Acknowledge, Retries
<1>3. \A q \in Refs : q # r => delivery'[q] = delivery[q]
  BY <1>2 DEF Goes, TypeOK
<1>4. UNCHANGED pair \/ \E p : pair' = [pair EXCEPT ![r] = p]
  BY DEF DeliveryNext, Check, AwaitSibling, PutManifest, MarkDelivered, DeliveryFails, StopPolling,
         DeliveryCrash, Pick, PutDossier, MarkFails, Acknowledge
<1>5. \A q \in Refs : q # r => pair'[q] = pair[q]
  BY <1>4 DEF TypeOK
<1>6. \A q \in Refs : q # r => inbox'[q] = inbox[q]
  <2>1. ASSUME NEW l \in Languages, PutDossier(r, l)
        PROVE  \A q \in Refs : q # r => inbox'[q] = inbox[q]
    BY <2>1 DEF PutDossier, TypeOK
  <2>2. CASE PutManifest(r)
    BY <2>2 DEF PutManifest, TypeOK
  <2>3. CASE DeliveryFails(r)
    BY <2>3 DEF DeliveryFails, TypeOK
  <2>4. CASE ~PutManifest(r) /\ ~DeliveryFails(r) /\ ~\E l \in Languages : PutDossier(r, l)
    BY <2>4 DEF DeliveryNext, Check, AwaitSibling, MarkDelivered, StopPolling,
                DeliveryCrash, Pick, MarkFails, Acknowledge
  <2> QED BY <2>1, <2>2, <2>3, <2>4
<1> QED BY <1>1, <1>3, <1>5, <1>6

(* Marking changes rows that are there, and nothing of them but the status *)
(* and the manifest.                                                       *)
RowsSame ==
  /\ RowsKept
  /\ \A x \in Refs :
       /\ dossiers'[x].status # "none" => dossiers[x].status # "none"
       /\ dossiers'[x].recipient = dossiers[x].recipient

SentSound ==
  \A x \in Refs : dossiers[x].status \in Gone =>
    \E m \in sent : m.ref = dossiers[x].manifest /\ x \in {m.fr, m.en}

LEMMA MarkedPair ==
  ASSUME NEW r \in Refs, HandlerOK(r), delivery[r] \in {"mark", "poll"},
         NEW S \in SUBSET Languages
  PROVE  /\ Marked(r, S) \subseteq {pair[r].fr, pair[r].en}
         /\ \A x \in Marked(r, S) : SignedRow(x)
         /\ \E m \in sent : m.ref = r /\ \A x \in Marked(r, S) : x \in {m.fr, m.en}
<1>1. Marked(r, S) \subseteq {pair[r].fr, pair[r].en}
  BY DEF Marked, Languages
<1>2. SignedRow(pair[r].fr) /\ SignedRow(pair[r].en)
  BY DEF HandlerOK, Uploading, Running
<1> QED BY <1>1, <1>2 DEF HandlerOK

LEMMA MarksRows ==
  ASSUME TypeOK, DeliverySound, NEW r \in Refs, delivery[r] = "mark", sent' = sent,
         NEW S \in SUBSET Languages, Marks(Marked(r, S), "delivered", r)
  PROVE  RowsSame /\ SentSound' /\ \A x \in Marked(r, S) : dossiers'[x].status \in Gone
<1> DEFINE X == Marked(r, S)
<1>1. /\ \A x \in X : SignedRow(x)
      /\ \E m \in sent : m.ref = r /\ \A x \in X : x \in {m.fr, m.en}
  BY MarkedPair DEF DeliverySound
<1> HIDE DEF X
<1>2. ASSUME NEW x \in Refs
      PROVE  /\ x \notin X => dossiers'[x] = dossiers[x]
             /\ x \in X => /\ dossiers'[x].status = "delivered" /\ dossiers'[x].manifest = r
                           /\ dossiers'[x].language = dossiers[x].language
                           /\ dossiers'[x].printed = dossiers[x].printed
                           /\ dossiers'[x].signed = dossiers[x].signed
                           /\ dossiers'[x].recipient = dossiers[x].recipient
  <2>1. dossiers[x] \in DossierRows
    BY AllTypes DEF RenderTypes
  <2>2. dossiers'[x] = IF x \in X THEN [dossiers[x] EXCEPT !.status = "delivered", !.manifest = r]
                       ELSE dossiers[x]
    BY DEF Marks, X
  <2> QED BY <2>1, <2>2 DEF DossierRows
<1>3. RowsSame
  BY <1>1, <1>2 DEF RowsSame, RowsKept, SignedRow, Gone
<1>4. SentSound'
  BY <1>1, <1>2 DEF SentSound, DeliverySound
<1>5. \A x \in X : dossiers'[x].status \in Gone
  BY <1>1, <1>2 DEF SignedRow, Gone
<1> QED BY <1>3, <1>4, <1>5 DEF X

LEMMA AcknowledgeRows ==
  ASSUME TypeOK, DeliverySound, NEW r \in Refs, NEW S \in SUBSET Languages, Acknowledge(r, S)
  PROVE  RowsSame /\ SentSound'
<1> DEFINE X == Marked(r, S)
<1>1. /\ \A x \in X : SignedRow(x) /\ dossiers[x].status \in Gone
      /\ sent' = sent
  BY MarkedPair DEF DeliverySound, HandlerOK, Acknowledge, inboxVars
<1> HIDE DEF X
<1>2. ASSUME NEW x \in Refs
      PROVE  /\ x \notin X => dossiers'[x] = dossiers[x]
             /\ x \in X => /\ dossiers'[x].status = "acknowledged"
                           /\ dossiers'[x].manifest = dossiers[x].manifest
                           /\ dossiers'[x].language = dossiers[x].language
                           /\ dossiers'[x].printed = dossiers[x].printed
                           /\ dossiers'[x].signed = dossiers[x].signed
                           /\ dossiers'[x].recipient = dossiers[x].recipient
  <2>1. dossiers[x] \in DossierRows
    BY AllTypes DEF RenderTypes
  <2>2. dossiers'[x] = IF x \in X THEN [dossiers[x] EXCEPT !.status = "acknowledged"]
                       ELSE dossiers[x]
    BY DEF Acknowledge, X
  <2> QED BY <2>1, <2>2 DEF DossierRows
<1>3. RowsSame
  BY <1>1, <1>2 DEF RowsSame, RowsKept, SignedRow, Gone
<1>4. SentSound'
  BY <1>1, <1>2 DEF SentSound, DeliverySound
<1> QED BY <1>3, <1>4

LEMMA NoRows ==
  ASSUME UNCHANGED dossiers, DeliverySound, sent \subseteq sent'
  PROVE  RowsSame /\ SentSound'
BY DEF RowsSame, RowsKept, SentSound, DeliverySound

LEMMA DeliveryRows ==
  ASSUME TypeOK, DeliverySound, NEW r \in Refs, DeliveryNext(r)
  PROVE  RowsSame /\ SentSound'
<1>1. CASE MarkDelivered(r)
  BY <1>1, MarksRows DEF MarkDelivered, inboxVars
<1>2. ASSUME NEW S \in SUBSET Languages, MarkFails(r, S) PROVE RowsSame /\ SentSound'
  BY <1>2, MarksRows DEF MarkFails, inboxVars
<1>3. ASSUME NEW S \in SUBSET Languages, Acknowledge(r, S) PROVE RowsSame /\ SentSound'
  BY <1>3, AcknowledgeRows
<1>4. ASSUME UNCHANGED dossiers PROVE RowsSame /\ SentSound'
  BY <1>4, NoRows, DeliveryShape
<1>5. CASE \/ Check(r) \/ AwaitSibling(r) \/ PutManifest(r) \/ DeliveryFails(r) \/ StopPolling(r)
           \/ DeliveryCrash(r)
           \/ \E f \in Refs, e \in Refs : Pick(r, f, e)
           \/ \E l \in Languages : PutDossier(r, l)
  BY <1>4, <1>5 DEF Check, AwaitSibling, PutManifest, DeliveryFails, StopPolling, DeliveryCrash,
                    Pick, PutDossier, dossierVars
<1> QED BY <1>1, <1>2, <1>3, <1>5 DEF DeliveryNext

(* What the rendering keeps is kept. *)
LEMMA DeliveryBeside ==
  ASSUME IInv, NEW r \in Refs, DeliveryNext(r)
  PROVE  Settled' /\ UnderWay' /\ RowsSound' /\ RoutingSound'
<1>1. /\ UNCHANGED <<routing, overtaken, escalation, render, lastRef, envelope>>
      /\ RowsSame /\ RenderTypeOK
  BY DeliveryShape, DeliveryRows DEF IInv, TypeOK
<1>2. Settled'
  BY <1>1 DEF Settled, IInv
<1>3. RoutingSound'
  BY <1>1 DEF RoutingSound, Deriving, IInv
<1>4. UnderWay'
  BY <1>1, UnderWayKept DEF IInv, RowsSame, RowsKept
<1>5. Asked' = Asked
  BY <1>1 DEF Asked
<1>6. RowsSound'
  BY <1>1, <1>5, RowsSoundKept DEF IInv, RowsSame
<1> QED BY <1>2, <1>3, <1>4, <1>6

(* A handler that ends, or is to come again, leaves no more to show than   *)
(* its directory.                                                          *)
LEMMA LeavesStep ==
  ASSUME NEW r \in Refs, delivery'[r] \in {"again", "over", "acked"},
         delivery'[r] = "again" => envelope'[r] # NoBody
  PROVE  HandlerOK(r)' /\ ThresholdOK(r)'
BY DEF HandlerOK, ThresholdOK, Running, Uploading

LEMMA DirectoryKept ==
  ASSUME NEW r \in Refs, InboxOK(r), RowsKept, inbox'[r] = inbox[r],
         r \in reuploaded => r \in reuploaded',
         delivery'[r] \notin {"put en", "put manifest"}
  PROVE  InboxOK(r)'
BY DEF InboxOK, SignedRow, RowsKept

HandlerStep(r) == HandlerOK(r)' /\ InboxOK(r)' /\ ThresholdOK(r)'

LEMMA CheckStep ==
  ASSUME IInv, NEW r \in Refs, RowsKept,
         Check(r) \/ AwaitSibling(r) \/ StopPolling(r) \/ DeliveryCrash(r)
           \/ \E S \in SUBSET Languages : MarkFails(r, S)
  PROVE  HandlerStep(r)
<1>1. HandlerOK(r) /\ InboxOK(r) /\ TypeOK
  BY DEF IInv, DeliverySound
<1>2. /\ inbox'[r] = inbox[r] /\ reuploaded' = reuploaded /\ envelope' = envelope
      /\ strength' = strength
  BY DEF Check, AwaitSibling, StopPolling, DeliveryCrash, MarkFails, inboxVars, dossierVars, renderVars
<1>3. CASE Check(r)
  <2>1. envelope[r] # NoBody
    BY <1>3 DEF Check
  <2>2. CASE Passes(r) /\ Goes(r, "checked")
    <3>1. delivery'[r] = "checked"
      BY <1>1, <2>2, GoesShape DEF Places, Running
    <3>2. HandlerOK(r)' /\ ThresholdOK(r)'
      BY <1>2, <2>1, <2>2, <3>1 DEF HandlerOK, ThresholdOK, Uploading, Passes
    <3> QED BY <1>1, <1>2, <3>1, <3>2, DirectoryKept DEF HandlerStep
  <2>3. CASE Goes(r, "over")
    <3>1. delivery'[r] = "over"
      BY <1>1, <2>3, GoesShape DEF Places
    <3> QED BY <1>1, <1>2, <3>1, DirectoryKept, LeavesStep DEF HandlerStep
  <2> QED BY <1>3, <2>2, <2>3 DEF Check
<1>4. CASE ~Check(r)
  <2>1. /\ delivery[r] \in Running
        /\ \E at \in {"again", "over"} : Goes(r, at)
    BY <1>4 DEF AwaitSibling, StopPolling, DeliveryCrash, MarkFails, Retries, Running
  <2>2. delivery'[r] \in {"again", "over"}
    BY <1>1, <2>1, GoesShape DEF Places
  <2>3. envelope'[r] # NoBody
    BY <1>1, <1>2, <2>1 DEF HandlerOK
  <2> QED BY <1>1, <1>2, <2>2, <2>3, DirectoryKept, LeavesStep DEF HandlerStep
<1> QED BY <1>3, <1>4

LEMMA PickStep ==
  ASSUME IInv, NEW r \in Refs, RowsKept, NEW f \in Refs, NEW e \in Refs, Pick(r, f, e)
  PROVE  HandlerStep(r)
<1>1. HandlerOK(r) /\ InboxOK(r) /\ ThresholdOK(r) /\ TypeOK
  BY DEF IInv, DeliverySound
<1>2. /\ inbox'[r] = inbox[r] /\ reuploaded' = reuploaded /\ envelope' = envelope
      /\ strength' = strength /\ dossiers' = dossiers /\ weakened' = weakened
  BY DEF Pick, inboxVars, dossierVars, renderVars
<1>3. CASE Signed(f, e) /\ Goes(r, "put fr")
  <2>1. delivery'[r] = "put fr"
    BY <1>1, <1>3, GoesShape DEF Places, Running
  <2>2. pair'[r].fr = f /\ pair'[r].en = e
    BY <1>1 DEF Pick, TypeOK
  <2>3. SignedRow(f)' /\ SignedRow(e)'
    BY <1>2, <1>3 DEF Pick, RowsIn, Rows, Signed, SignedRow
  <2>4. HandlerOK(r)'
    BY <1>1, <1>2, <2>1, <2>2, <2>3 DEF HandlerOK, Pick, Running, Uploading, SignedRow
  <2>5. ThresholdOK(r)'
    BY <1>1, <1>2 DEF ThresholdOK, Pick, Running
  <2> QED BY <1>1, <1>2, <2>1, <2>4, <2>5, DirectoryKept DEF HandlerStep
<1>4. CASE Goes(r, "over")
  <2>1. delivery'[r] = "over"
    BY <1>1, <1>4, GoesShape DEF Places
  <2> QED BY <1>1, <1>2, <2>1, DirectoryKept, LeavesStep DEF HandlerStep
<1> QED BY <1>3, <1>4 DEF Pick

LEMMA PutDossierStep ==
  ASSUME IInv, NEW r \in Refs, RowsKept, NEW l \in Languages, PutDossier(r, l)
  PROVE  HandlerStep(r)
<1>1. HandlerOK(r) /\ InboxOK(r) /\ ThresholdOK(r) /\ TypeOK
  BY DEF IInv, DeliverySound
<1>2. /\ envelope' = envelope /\ strength' = strength /\ dossiers' = dossiers /\ pair' = pair
      /\ weakened' = weakened
      /\ reuploaded' = IF inbox[r].manifest = NoPair THEN reuploaded ELSE reuploaded \union {r}
  BY DEF PutDossier, WritesTo, dossierVars, renderVars
<1>3. SignedRow(pair[r].fr) /\ SignedRow(pair[r].en) /\ envelope[r] # NoBody
  BY <1>1 DEF HandlerOK, PutDossier, Uploading, Running
<1>4. \/ /\ l = "fr" /\ delivery[r] = "put fr" /\ delivery'[r] = "put en"
      \/ /\ l = "en" /\ delivery[r] = "put en" /\ delivery'[r] = "put manifest"
  BY <1>1, GoesShape DEF PutDossier, NextPut, Languages, Places, Running
<1>5. inbox[r] \in [fr : 0..Torn, en : 0..Torn, manifest : Pairs]
  BY <1>1 DEF TypeOK
<1>6. inbox'[r].manifest = inbox[r].manifest
  BY <1>1, <1>4, <1>5 DEF PutDossier, TypeOK
<1>7. l = "fr" => inbox'[r].fr = pair[r].fr /\ inbox'[r].en = inbox[r].en
  BY <1>1, <1>5 DEF PutDossier, TypeOK
<1>8. l = "en" => inbox'[r].en = pair[r].en /\ inbox'[r].fr = inbox[r].fr
  BY <1>1, <1>5 DEF PutDossier, TypeOK
<1>9. HandlerOK(r)'
  BY <1>1, <1>2, <1>3, <1>4 DEF HandlerOK, SignedRow
<1>10. ThresholdOK(r)'
  BY <1>1, <1>2, <1>4 DEF ThresholdOK, Running
<1>11. InboxOK(r)'
  BY <1>1, <1>2, <1>3, <1>4, <1>6, <1>7, <1>8 DEF InboxOK, SignedRow
<1> QED BY <1>9, <1>10, <1>11 DEF HandlerStep

LEMMA PutManifestStep ==
  ASSUME IInv, NEW r \in Refs, RowsKept, PutManifest(r)
  PROVE  HandlerStep(r) /\ \A m \in sent' : SentOK(m)'
<1>1. HandlerOK(r) /\ InboxOK(r) /\ ThresholdOK(r) /\ TypeOK /\ \A m \in sent : SentOK(m)
  BY DEF IInv, DeliverySound
<1>2. /\ envelope' = envelope /\ strength' = strength /\ dossiers' = dossiers /\ pair' = pair
      /\ weakened' = weakened /\ reuploaded' = reuploaded
      /\ sent' = sent \union {Manifest(r)}
  BY DEF PutManifest, dossierVars, renderVars
<1>3. SignedRow(pair[r].fr) /\ SignedRow(pair[r].en) /\ envelope[r] # NoBody
  BY <1>1 DEF HandlerOK, PutManifest, Uploading, Running
<1>4. delivery[r] = "put manifest" /\ delivery'[r] = "mark"
  BY <1>1, GoesShape DEF PutManifest, NextPut, Places, Running
<1>5. /\ inbox'[r].manifest = pair[r] /\ inbox'[r].fr = inbox[r].fr
      /\ inbox'[r].en = inbox[r].en
  BY <1>1 DEF PutManifest, TypeOK
<1>6. /\ Manifest(r).ref = r /\ Manifest(r).fr = pair[r].fr /\ Manifest(r).en = pair[r].en
      /\ Manifest(r).body = envelope[r] /\ Manifest(r).strength = strength
  BY DEF Manifest
<1>7. \E m \in sent' : m.ref = r /\ m.fr = pair[r].fr /\ m.en = pair[r].en
  BY <1>2, <1>6
<1>8. HandlerOK(r)'
  BY <1>1, <1>2, <1>3, <1>4, <1>7 DEF HandlerOK, SignedRow
<1>9. ThresholdOK(r)'
  BY <1>1, <1>2, <1>4 DEF ThresholdOK, Running
<1>10. InboxOK(r)'
  BY <1>1, <1>2, <1>4, <1>5 DEF InboxOK, SignedRow
<1>11. SentOK(Manifest(r))
  BY <1>1, <1>3, <1>4, <1>6 DEF SentOK, ThresholdOK, Running
<1>12. \A m \in sent' : SentOK(m)'
  BY <1>1, <1>2, <1>11 DEF SentOK, SignedRow
<1> QED BY <1>8, <1>9, <1>10, <1>12 DEF HandlerStep

LEMMA MarkDeliveredStep ==
  ASSUME IInv, NEW r \in Refs, RowsKept, MarkDelivered(r)
  PROVE  HandlerStep(r)
<1>1. HandlerOK(r) /\ InboxOK(r) /\ ThresholdOK(r) /\ TypeOK /\ DeliverySound
  BY DEF IInv, DeliverySound
<1>2. /\ envelope' = envelope /\ strength' = strength /\ pair' = pair /\ weakened' = weakened
      /\ inbox' = inbox /\ reuploaded' = reuploaded /\ sent' = sent
  BY DEF MarkDelivered, renderVars, inboxVars
<1>3. delivery[r] = "mark" /\ delivery'[r] = "poll"
  BY <1>1, GoesShape DEF MarkDelivered, Places, Running
<1>4. SignedRow(pair[r].fr)' /\ SignedRow(pair[r].en)'
  BY <1>1, <1>2, <1>3 DEF HandlerOK, Uploading, Running, SignedRow, RowsKept
<1>5. \A x \in Marked(r, Languages) : dossiers'[x].status \in Gone
  BY <1>1, <1>2, <1>3, MarksRows DEF MarkDelivered
<1>6. pair[r].fr \in Marked(r, Languages) /\ pair[r].en \in Marked(r, Languages)
  BY DEF Marked, Languages
<1>7. HandlerOK(r)'
  BY <1>1, <1>2, <1>3, <1>4, <1>5, <1>6 DEF HandlerOK, Running
<1>8. ThresholdOK(r)'
  BY <1>1, <1>2, <1>3 DEF ThresholdOK, Running
<1> QED BY <1>1, <1>2, <1>3, <1>7, <1>8, DirectoryKept DEF HandlerStep

LEMMA DeliveryFailsStep ==
  ASSUME IInv, NEW r \in Refs, RowsKept, DeliveryFails(r)
  PROVE  HandlerStep(r)
<1>1. HandlerOK(r) /\ InboxOK(r) /\ TypeOK
  BY DEF IInv, DeliverySound
<1>2. /\ envelope' = envelope /\ dossiers' = dossiers
  BY DEF DeliveryFails, renderVars
<1>3. delivery[r] \in Running /\ \E at \in {"again", "over"} : Goes(r, at)
  BY DEF DeliveryFails, Retries, Running
<1>4. delivery'[r] \in {"again", "over"}
  BY <1>1, <1>3, GoesShape DEF Places
<1>5. HandlerOK(r)' /\ ThresholdOK(r)'
  BY <1>1, <1>2, <1>3, <1>4, LeavesStep DEF HandlerOK
<1>6. inbox[r] \in [fr : 0..Torn, en : 0..Torn, manifest : Pairs]
  BY <1>1 DEF TypeOK
<1>7. InboxOK(r)'
  <2>1. CASE UNCHANGED <<inbox, reuploaded>>
    BY <1>1, <1>4, <2>1, DirectoryKept
  <2>2. CASE inbox' = [inbox EXCEPT ![r].fr = Torn] /\ WritesTo(r)
    <3>1. /\ inbox'[r].fr = Torn /\ inbox'[r].en = inbox[r].en
          /\ inbox'[r].manifest = inbox[r].manifest
      BY <1>1, <1>6, <2>2 DEF TypeOK
    <3> QED BY <1>1, <1>2, <1>4, <2>2, <3>1, RefsAreNat DEF InboxOK, SignedRow, WritesTo
  <2>3. CASE inbox' = [inbox EXCEPT ![r].en = Torn] /\ WritesTo(r)
    <3>1. /\ inbox'[r].en = Torn /\ inbox'[r].fr = inbox[r].fr
          /\ inbox'[r].manifest = inbox[r].manifest
      BY <1>1, <1>6, <2>3 DEF TypeOK
    <3> QED BY <1>1, <1>2, <1>4, <2>3, <3>1, RefsAreNat DEF InboxOK, SignedRow, WritesTo
  <2>4. CASE inbox' = [inbox EXCEPT ![r].manifest = NoPair] /\ UNCHANGED reuploaded
    <3>1. /\ inbox'[r].en = inbox[r].en /\ inbox'[r].fr = inbox[r].fr
          /\ inbox'[r].manifest = NoPair
      BY <1>1, <1>6, <2>4 DEF TypeOK
    <3> QED BY <1>1, <1>2, <1>4, <3>1, <2>4 DEF InboxOK, SignedRow
  <2> QED BY <2>1, <2>2, <2>3, <2>4 DEF DeliveryFails
<1> QED BY <1>5, <1>7 DEF HandlerStep

LEMMA AcknowledgeStep ==
  ASSUME IInv, NEW r \in Refs, RowsKept, NEW S \in SUBSET Languages, Acknowledge(r, S)
  PROVE  HandlerStep(r)
<1>1. HandlerOK(r) /\ InboxOK(r) /\ ThresholdOK(r) /\ TypeOK
  BY DEF IInv, DeliverySound
<1>2. /\ envelope' = envelope /\ strength' = strength /\ pair' = pair /\ weakened' = weakened
      /\ inbox' = inbox /\ reuploaded' = reuploaded /\ sent' = sent
  BY DEF Acknowledge, renderVars, inboxVars
<1>3. CASE UNCHANGED delivery
  <2>1. HandlerOK(r)' /\ InboxOK(r)'
    BY <1>1, <1>2, <1>3, HandlerKept DEF EnvelopesKept
  <2>2. ThresholdOK(r)'
    BY <1>1, <1>2, <1>3 DEF ThresholdOK
  <2> QED BY <2>1, <2>2 DEF HandlerStep
<1>4. CASE Goes(r, "acked")
  <2>1. delivery'[r] = "acked"
    BY <1>1, <1>4, GoesShape DEF Places
  <2> QED BY <1>1, <1>2, <2>1, LeavesStep, DirectoryKept DEF HandlerStep
<1> QED BY <1>3, <1>4 DEF Acknowledge

LEMMA DeliveryStep ==
  ASSUME IInv, NEW r \in Refs, DeliveryNext(r)
  PROVE  DeliverySound'
<1>1. RowsKept /\ SentSound'
  BY DeliveryRows DEF IInv, RowsSame
<1>2. /\ envelope' = envelope /\ strength' = strength /\ weakened' = weakened
      /\ sent \subseteq sent' /\ reuploaded \subseteq reuploaded'
      /\ \A q \in Refs : q # r =>
           delivery'[q] = delivery[q] /\ pair'[q] = pair[q] /\ inbox'[q] = inbox[q]
  BY DeliveryShape DEF IInv
<1>3. HandlerStep(r)
  BY <1>1, CheckStep, PickStep, PutDossierStep, PutManifestStep, MarkDeliveredStep,
     DeliveryFailsStep, AcknowledgeStep
  DEF DeliveryNext
<1>4. ASSUME NEW q \in Refs, q # r PROVE HandlerOK(q)' /\ InboxOK(q)' /\ ThresholdOK(q)'
  <2>1. HandlerOK(q)' /\ InboxOK(q)'
    BY <1>1, <1>2, <1>4, HandlerKept DEF IInv, DeliverySound, EnvelopesKept
  <2>2. ThresholdOK(q)'
    BY <1>2, <1>4 DEF IInv, DeliverySound, ThresholdOK
  <2> QED BY <2>1, <2>2
<1>5. \A m \in sent' : SentOK(m)'
  <2>1. CASE PutManifest(r)
    BY <1>1, <2>1, PutManifestStep
  <2>2. CASE ~PutManifest(r)
    <3>1. sent' = sent
      BY <2>2 DEF DeliveryNext, Check, AwaitSibling, MarkDelivered, DeliveryFails, StopPolling,
                  DeliveryCrash, Pick, PutDossier, MarkFails, Acknowledge, inboxVars
    <3>2. sent \subseteq Manifests
      BY AllTypes DEF IInv, DeliveryTypes
    <3>3. \A m \in sent : SentOK(m) /\ m.ref \in Refs
      BY <3>2 DEF IInv, DeliverySound, Manifests
    <3> QED BY <1>1, <1>2, <3>1, <3>3, SentKept DEF EnvelopesKept
  <2> QED BY <2>1, <2>2
<1> QED BY <1>1, <1>3, <1>4, <1>5 DEF DeliverySound, HandlerStep, SentSound

-----------------------------------------------------------------------------
(* The theorems *)

LEMMA InitInv == Init => IInv
<1> SUFFICES ASSUME Init PROVE IInv
  OBVIOUS
<1>1. TypeOK
  BY InitType
<1>2. /\ \A x \in Refs : dossiers[x] = NoDossier /\ envelope[x] = NoBody
      /\ \A n \in Escalations, l \in Languages : render[n][l].at = "none"
      /\ \A n \in Escalations : escalation[n].at = "none" /\ escalation[n].body = NoBody
      /\ routing.by = "none" /\ sent = {}
      /\ \A r \in Refs : delivery[r] = "queued" /\ inbox[r] = Empty
  BY DEF Init, RenderInit
<1>3. Settled
  BY <1>2 DEF Settled
<1>4. UnderWay
  BY <1>2 DEF UnderWay, Rendering
<1>5. RowsSound
  BY <1>2 DEF RowsSound, NoDossier
<1>6. RoutingSound
  BY <1>2 DEF RoutingSound
<1>7. ASSUME NEW r \in Refs PROVE HandlerOK(r) /\ InboxOK(r) /\ ThresholdOK(r)
  <2>1. delivery[r] \notin Running \union {"again"}
    BY <1>2 DEF Running
  <2>2. inbox[r].fr = 0 /\ inbox[r].en = 0 /\ inbox[r].manifest = NoPair
    BY <1>2 DEF Empty
  <2> QED BY <2>1, <2>2, RefsAreNat DEF HandlerOK, InboxOK, ThresholdOK, Running, Uploading
<1>8. DeliverySound
  BY <1>2, <1>7 DEF DeliverySound, NoDossier, Gone
<1> QED BY <1>1, <1>3, <1>4, <1>5, <1>6, <1>8 DEF IInv

LEMMA NextInv == IInv /\ [Next]_vars => IInv'
<1> SUFFICES ASSUME IInv, [Next]_vars PROVE IInv'
  OBVIOUS
<1>1. TypeOK'
  BY TypeStep DEF IInv
<1>2. CASE RenderNext /\ Weakens /\ UNCHANGED <<handlerVars, inboxVars>>
  <2>1. Settled'
    BY <1>2, SettledStep DEF IInv, TypeOK
  <2>2. UnderWay' /\ RowsSound'
    BY <1>2, RenderStep DEF IInv, TypeOK, RenderKeeps
  <2>3. RoutingSound'
    BY <1>2, RoutingStep DEF IInv, TypeOK
  <2> QED BY <1>1, <1>2, <2>1, <2>2, <2>3, RenderBeside DEF IInv
<1>3. ASSUME NEW r \in Refs, DeliveryNext(r) PROVE IInv'
  BY <1>1, <1>3, DeliveryBeside, DeliveryStep DEF IInv
<1>4. CASE UNCHANGED vars
  <2>1. UNCHANGED <<strength, routing, overtaken, escalation, render, keys, lastRef, envelope,
                    dossiers, delivery, pair, inbox, sent, reuploaded, weakened>>
    BY <1>4 DEF vars, dossierVars, deliveryVars, routeVars, renderVars, handlerVars, inboxVars
  <2>2. Settled' /\ UnderWay' /\ RoutingSound'
    BY <2>1 DEF IInv, Settled, UnderWay, RoutingSound, Deriving
  <2>3. RowsSound'
    BY <2>1 DEF IInv, RowsSound, Asked
  <2>4. \A r \in Refs : HandlerOK(r)' /\ InboxOK(r)' /\ ThresholdOK(r)'
    <3>1. RowsKept /\ EnvelopesKept
      BY <2>1 DEF RowsKept, EnvelopesKept
    <3>2. \A r \in Refs : HandlerOK(r)' /\ InboxOK(r)'
      BY <2>1, <3>1, HandlerKept DEF IInv, DeliverySound
    <3>3. \A r \in Refs : ThresholdOK(r)'
      BY <2>1 DEF IInv, DeliverySound, ThresholdOK
    <3> QED BY <3>2, <3>3
  <2>5. \A m \in sent' : SentOK(m)'
    BY <2>1 DEF IInv, DeliverySound, SentOK, SignedRow
  <2>6. DeliverySound'
    BY <2>1, <2>4, <2>5 DEF IInv, DeliverySound
  <2> QED BY <1>1, <2>2, <2>3, <2>6 DEF IInv
<1> QED BY <1>2, <1>3, <1>4 DEF Next

LEMMA Invariance == Spec => []IInv
BY InitInv, NextInv, PTL DEF Spec

(* The variables keep to their types. *)
THEOREM TypeCorrect == Spec => []TypeOK
<1>1. IInv => TypeOK
  BY DEF IInv
<1> QED BY <1>1, Invariance, PTL

(* A manifest lies beside the two dossiers it names, whole, unless its     *)
(* directory has been written to again: whatever fails, and however many   *)
(* handlers of the reclaim loop run beside one another.                    *)
THEOREM ManifestLast == Spec => []ManifestIsTrigger
<1>1. IInv => ManifestIsTrigger
  BY DEF IInv, DeliverySound, InboxOK, ManifestIsTrigger
<1> QED BY <1>1, Invariance, PTL

(* Only what is signed gets into an inbox, and a row says that it was      *)
(* delivered only after a manifest named its dossier.                      *)
THEOREM SignedAndSent == Spec => []DeliveredWasSent
<1>1. ASSUME IInv PROVE DeliveredWasSent
  <2>1. \A r \in Refs : InboxOK(r)
    BY <1>1 DEF IInv, DeliverySound
  <2>2. \A r, x \in Refs : x \in {inbox[r].fr, inbox[r].en} => dossiers[x].signed = "yes"
    BY <2>1 DEF InboxOK, SignedRow
  <2>3. \A x \in Refs : dossiers[x].status \in {"delivered", "acknowledged"} =>
          \E m \in sent : m.ref = dossiers[x].manifest /\ x \in {m.fr, m.en}
    BY <1>1 DEF IInv, DeliverySound, Gone
  <2> QED BY <2>2, <2>3 DEF DeliveredWasSent
<1> QED BY <1>1, Invariance, PTL

LEMMA TwoAsked ==
  ASSUME NEW a \in Asked, NEW b \in Asked, a # b
  PROVE  Cardinality(Asked) > 1
<1>1. IsFiniteSet(Escalations)
  BY RenderAssumption
<1> DEFINE All == {escalation[n].body : n \in Escalations}
<1>2. IsFiniteSet(All)
  <2> DEFINE body == [n \in Escalations |-> escalation[n].body]
  <2>1. body \in Surjection(Escalations, All)
    BY DEF Surjection
  <2> QED BY <1>1, <2>1, FS_Surjection
<1>3. IsFiniteSet(Asked)
  BY <1>2, FS_Subset DEF Asked
<1>4. {a, b} \subseteq Asked
  OBVIOUS
<1>5. Cardinality({a, b}) <= Cardinality(Asked) /\ Cardinality(Asked) \in Nat
  BY <1>3, <1>4, FS_Subset, FS_CardinalityType
<1>6. Cardinality({a}) = 1 /\ IsFiniteSet({a})
  BY FS_Singleton
<1>7. {a, b} = {a} \union {b} /\ b \notin {a}
  OBVIOUS
<1>8. Cardinality({a, b}) = 2
  BY <1>6, <1>7, FS_AddElement
<1> QED BY <1>5, <1>8

(* A recipient gets what was printed for it, unless two escalations asked  *)
(* for different bodies.                                                   *)
THEOREM PrintedForWhom == Spec => []PrintedForRecipient
<1>1. ASSUME IInv PROVE PrintedForRecipient
  <2>1. SUFFICES ASSUME NEW m \in sent
                 PROVE  /\ \A x \in {m.fr, m.en} :
                             dossiers[x].printed # m.body => Cardinality(Asked) > 1
                        /\ dossiers[m.ref].printed = m.body
                        /\ dossiers[m.ref].recipient # m.body => routing.by # "none"
    BY DEF PrintedForRecipient
  <2>2. m.ref \in Refs
    BY <1>1, AllTypes DEF IInv, DeliveryTypes, Manifests
  <2>3. m.body = envelope[m.ref] /\ envelope[m.ref] # NoBody
    BY <1>1 DEF IInv, DeliverySound, SentOK
  <2>4. /\ dossiers[m.ref].status # "none" /\ dossiers[m.ref].printed = m.body
        /\ m.body \in Asked
        /\ dossiers[m.ref].recipient # m.body => routing.by # "none"
    BY <1>1, <2>2, <2>3 DEF IInv, RowsSound
  <2>5. ASSUME NEW x \in {m.fr, m.en}, dossiers[x].printed # m.body
        PROVE  Cardinality(Asked) > 1
    <3>1. x \in Refs /\ dossiers[x].status # "none"
      BY <1>1 DEF IInv, DeliverySound, SentOK, SignedRow
    <3>2. dossiers[x].printed \in Asked
      BY <1>1, <3>1 DEF IInv, RowsSound
    <3> QED BY <2>4, <2>5, <3>2, TwoAsked
  <2> QED BY <2>4, <2>5
<1> QED BY <1>1, Invariance, PTL

(* What goes to CONAC of a finding below its threshold was on its way when *)
(* the finding fell.                                                       *)
THEOREM BelowOvertaken == Spec => []BelowMeansOvertaken
<1>1. IInv => BelowMeansOvertaken
  BY DEF IInv, DeliverySound, SentOK, BelowMeansOvertaken
<1> QED BY <1>1, Invariance, PTL

(* A derived body goes over an operator's decision only where that came    *)
(* while the body was derived.                                             *)
THEOREM OperatorDecides == Spec => OperatorWins
<1> DEFINE Wins == routing.by = "operator" /\ routing'.by = "auto" => overtaken # {}
<1>1. ASSUME IInv, [Next]_vars PROVE [Wins]_vars
  <2>1. SUFFICES ASSUME routing.by = "operator", routing'.by = "auto" PROVE overtaken # {}
    OBVIOUS
  <2>2. RenderNext
    BY <1>1, <2>1, DeliveryShape DEF IInv, Next, vars, dossierVars, routeVars
  <2>3. ~\E b \in Bodies : Route(b)
    BY <2>1 DEF Route, SetRecipientBody
  <2>4. routing' # routing
    BY <2>1
  <2>5. ~Rescore /\ ~\E l \in Languages : KeyExpires(l)
    BY <2>4 DEF Rescore, KeyExpires, routeVars
  <2>6. \A n \in Escalations : ~Begin(n) /\ ~EscalationFails(n)
    BY <2>4 DEF Begin, EscalationFails, routeVars
  <2>7. \A n \in Escalations, l \in Languages :
          ~Request(n, l) /\ ~Take(n, l) /\ ~Duplicate(n, l) /\ ~Publish(n, l) /\ ~RenderFails(n, l)
    BY <2>4 DEF Request, Take, Duplicate, Publish, RenderFails, routeVars
  <2>8. \A n \in Escalations, l \in Languages, signed \in {"yes", "no"} : ~Insert(n, l, signed)
    BY <2>4 DEF Insert, routeVars
  <2>9. \E n \in Escalations : Derive(n)
    BY <2>2, <2>3, <2>5, <2>6, <2>7, <2>8 DEF RenderNext
  <2> QED BY <1>1, <2>1, <2>9 DEF IInv, RoutingSound, Deriving, Derive
<1> QED BY <1>1, Invariance, PTL DEF Spec, OperatorWins
=============================================================================
