--------------------------- MODULE EvidenceProofs ---------------------------
(***************************************************************************)
(* Proofs about EntityResolution and SourceIntake: what the intake stores  *)
(* is announced, and what is announced is resolved and dispatched.  And    *)
(* about LlmRouter, whose tiers worker-extractor and worker-entity ask: by *)
(* how much the daily ceiling is exceeded, and for how long it refuses.    *)
(***************************************************************************)
EXTENDS EntityResolution, LlmRouter, FiniteSetTheorems, WellFoundedInduction, TLAPS

(* The actions of a handler of worker-entity that only move it. *)
Moves(e) == Take(e) \/ LookUp(e) \/ Corroborate(e) \/ Written(e) \/ Stored(e) \/ Acknowledge(e)

LEMMA Kinds ==
  ASSUME NEW x \in {"waiting", "acked", "unhandled"}
  PROVE  Handler(x) \in Handlers
  BY DEF Handler, Handlers

(* A handler moves, and the others stay. *)
LEMMA HandlerMoves ==
  ASSUME TypeOK, NEW e \in Events, NEW h \in Handlers, MoveTo(e, h)
  PROVE  /\ resolving' \in [Events -> Handlers] /\ resolving'[e] = h
         /\ \A f \in Events \ {e} : resolving'[f] = resolving[f]
  BY DEF TypeOK, MoveTo

-----------------------------------------------------------------------------
(* Types.                                                                  *)
LEMMA EnvelopeTyped ==
  ASSUME IntakeTypeOK, NEW e \in Events
  PROVE  [sent EXCEPT ![e] = Envelope(found[e])]
           \in [Events -> [there : {"yes", "no"}, aliases : SUBSET Aliases]]
<1>1. Envelope(found[e]) \in [there : {"yes", "no"}, aliases : SUBSET Aliases]
  BY DEF IntakeTypeOK, Envelope
<1> QED
  BY <1>1 DEF IntakeTypeOK

LEMMA IntakeTypes ==
  ASSUME IntakeTypeOK, IntakeNext
  PROVE  IntakeTypeOK'
<1> USE IntakeAssumption
<1>1. CASE \E e \in Events : Extract(e) \/ MergeFields(e) \/ PublishAliases(e)
  <2>1. PICK e \in Events : Extract(e) \/ MergeFields(e) \/ PublishAliases(e)
    BY <1>1
  <2>2. UNCHANGED documentVars /\ UNCHANGED faults
    BY <2>1 DEF Extract, MergeFields, PublishAliases
  <2>3. CASE Extract(e)
    <3>1. /\ extraction' \in [Events -> Settled \union Extracting \union {"waiting"}]
          /\ found' \in [Events -> SUBSET Aliases]
      <4>1. AliasesOf[e] \in SUBSET Aliases /\ {} \in SUBSET Aliases
        OBVIOUS
      <4>2. \E x \in {"merging", "publishing"}, y \in SUBSET Aliases :
              extraction' = [extraction EXCEPT ![e] = x] /\ found' = [found EXCEPT ![e] = y]
        BY <2>3, <4>1 DEF Extract
      <4> QED
        BY <4>2 DEF IntakeTypeOK, Extracting
    <3>2. UNCHANGED <<sent, fields>>
      BY <2>3 DEF Extract
    <3> QED
      BY <2>2, <3>1, <3>2 DEF IntakeTypeOK, documentVars
  <2>4. CASE MergeFields(e)
    BY <2>2, <2>4 DEF MergeFields, IntakeTypeOK, documentVars, Extracting
  <2>5. CASE PublishAliases(e)
    <3>1. sent' \in [Events -> [there : {"yes", "no"}, aliases : SUBSET Aliases]]
      BY <2>5, EnvelopeTyped DEF PublishAliases
    <3> QED
      BY <2>2, <2>5, <3>1 DEF PublishAliases, IntakeTypeOK, documentVars, Settled
  <2> QED
    BY <2>1, <2>3, <2>4, <2>5
<1>2. CASE \E e \in Events : ExtractionFails(e)
  <2>1. PICK e \in Events : ExtractionFails(e)
    BY <1>2
  <2>2. UNCHANGED documentVars /\ faults' \in 0..MaxFaults
    BY <2>1 DEF IntakeTypeOK, ExtractionFails, Fault
  <2>3. sent' \in [Events -> [there : {"yes", "no"}, aliases : SUBSET Aliases]]
    BY <2>1, EnvelopeTyped DEF ExtractionFails, IntakeTypeOK
  <2> QED
    BY <2>1, <2>2, <2>3 DEF ExtractionFails, IntakeTypeOK, documentVars, Settled
<1>3. CASE \E r \in Requests : Download(r) \/ StoreDocument(r) \/ MergeMetadata(r) \/ Announce(r)
  <2>1. PICK r \in Requests : Download(r) \/ StoreDocument(r) \/ MergeMetadata(r) \/ Announce(r)
    BY <1>3
  <2>2. UNCHANGED extractorVars /\ DocumentOf[r] \in Documents
    BY <2>1 DEF Download, StoreDocument, MergeMetadata, Announce
  <2>3. CASE Download(r)
    BY <2>2, <2>3 DEF Download, IntakeTypeOK, extractorVars, Settled, Handling
  <2>4. CASE StoreDocument(r)
    BY <2>2, <2>4 DEF StoreDocument, IntakeTypeOK, extractorVars, Handling, Inserted
  <2>5. CASE MergeMetadata(r)
    BY <2>2, <2>5 DEF MergeMetadata, IntakeTypeOK, extractorVars, Handling, Inserted, Fault
  <2>6. CASE Announce(r)
    BY <2>2, <2>6 DEF Announce, IntakeTypeOK, extractorVars, Settled
  <2> QED
    BY <2>1, <2>3, <2>4, <2>5, <2>6
<1>4. CASE \E r \in Requests : DocumentFails(r)
  <2>1. PICK r \in Requests : DocumentFails(r)
    BY <1>4
  <2>2. DocumentOf[r] \in Documents /\ UNCHANGED extractorVars /\ faults' \in 0..MaxFaults
    BY <2>1 DEF IntakeTypeOK, DocumentFails, Fault
  <2> QED
    BY <2>1, <2>2 DEF DocumentFails, IntakeTypeOK, extractorVars
<1>5. CASE ExtractorCrash
  <2>1. UNCHANGED documentVars /\ faults' \in 0..MaxFaults
    BY <1>5 DEF ExtractorCrash, Fault, IntakeTypeOK
  <2>2. extraction' \in [Events -> Settled \union Extracting \union {"waiting"}]
    BY <1>5 DEF ExtractorCrash, IntakeTypeOK, Settled
  <2> QED
    BY <1>5, <2>1, <2>2 DEF ExtractorCrash, IntakeTypeOK, documentVars
<1>6. CASE DocumentCrash
  <2>1. UNCHANGED extractorVars /\ faults' \in 0..MaxFaults
    BY <1>6 DEF DocumentCrash, Fault, IntakeTypeOK
  <2>2. fetching' \in [Requests -> Settled \union Handling \union {"waiting"}]
    BY <1>6 DEF DocumentCrash, IntakeTypeOK, Settled
  <2> QED
    BY <1>6, <2>1, <2>2 DEF DocumentCrash, IntakeTypeOK, extractorVars
<1> QED
  BY <1>1, <1>2, <1>3, <1>4, <1>5, <1>6 DEF IntakeNext

LEMMA IntakeInitTypes == IntakeInit => IntakeTypeOK
  BY IntakeAssumption DEF IntakeInit, IntakeTypeOK, Nothing, Settled

(* The locals of a handler: none unless it runs, lookups that the table    *)
(* has had the rows for, and clusters under names that were looked up.     *)
Fits(h, n) ==
  /\ h.at \notin Running => h.strong = {} /\ h.held = {} /\ h.left = {} /\ h.clusters = {} /\ h.ids = {}
  /\ \A l \in h.left : l[2] <= n
  /\ \A m \in h.strong \union h.held : m[2] \in 1..n
  /\ h.ids \subseteq 1..n

Sound(h) == Fits(h, Len(canonicals))

Locals == \A e \in Events : Sound(resolving[e])

LEMMA Tabulated ==
  ASSUME NEW S, NEW n \in Nat, NEW f \in [1..n -> S]
  PROVE  f \in Seq(S)
  BY SMT

LEMMA EntityInit == Init => TypeOK /\ Locals
<1> SUFFICES ASSUME Init
             PROVE  TypeOK /\ Locals
  OBVIOUS
<1> USE DEF Init
<1>1. IntakeTypeOK
  BY IntakeInitTypes
<1>2. canonicals \in Seq(Canonicals)
  <2> DEFINE S == [display : Aliases, registration : {RegistrationOf[a] : a \in Aliases} \ {Unregistered}]
             Row(x) == [display |-> x.display, registration |-> x.registration, mirror |-> "synced",
                        by |-> {}, attempt |-> 0, seen |-> {}]
  <2>1. Seeds \in Seq(S)
    BY EntityAssumption
  <2>2. \A x \in S : Row(x) \in Canonicals
    BY DEF Canonicals, Registrations
  <2> HIDE DEF S
  <2>3. DOMAIN Seeds = 1..Len(Seeds) /\ Len(Seeds) \in Nat /\ \A c \in 1..Len(Seeds) : Seeds[c] \in S
    BY <2>1
  <2>4. canonicals = [c \in 1..Len(Seeds) |-> Row(Seeds[c])]
    BY <2>3
  <2>5. \A c \in 1..Len(Seeds) : Row(Seeds[c]) \in Canonicals
    BY <2>2, <2>3
  <2> HIDE DEF Row
  <2>6. canonicals \in [1..Len(Seeds) -> Canonicals]
    BY <2>4, <2>5
  <2> QED
    BY <2>3, <2>6, Tabulated
<1>3. \A e \in Events : resolving[e] = Handler("waiting")
  OBVIOUS
<1>4. resolving \in [Events -> Handlers]
  BY Kinds
<1> QED
  BY <1>1, <1>2, <1>3, <1>4 DEF TypeOK, Locals, Sound, Fits, Handler, Running

LEMMA SomeCanonicals == ASSUME TypeOK PROVE Len(canonicals) \in Nat /\ \A c \in 1..Len(canonicals) : canonicals[c] \in Canonicals
  BY DEF TypeOK

(* The record a handler becomes, action by action. *)
LEMMA MovesTyped ==
  ASSUME TypeOK, Locals, NEW e \in Events, Moves(e)
  PROVE  \E h \in Handlers : MoveTo(e, h) /\ Sound(h)
<1> DEFINE g == resolving[e]
<1>1. g \in Handlers /\ Sound(g)
  BY DEF TypeOK, Locals
<1>2. CASE Take(e)
  <2>1. sent[e].aliases \in SUBSET Aliases
    BY DEF TypeOK, IntakeTypeOK
  <2>2. [Handler("looking") EXCEPT !.todo = sent[e].aliases] \in Handlers
    BY <2>1 DEF Handler, Handlers, Running
  <2>3. Handler("acked") \in Handlers
    BY Kinds
  <2> QED
    BY <1>2, <2>2, <2>3 DEF Take, Sound, Fits, Handler, Running
<1>3. CASE LookUp(e)
  <2>1. PICK a \in g.todo :
          LET rest == [g EXCEPT !.todo = @ \ {a}] IN
          \/ \E c \in Registered(a) : MoveTo(e, [rest EXCEPT !.strong = @ \union {<<a, c>>}])
          \/ /\ Registered(a) = {}
             /\ \E c \in Namesakes(a) : MoveTo(e, [rest EXCEPT !.held = @ \union {<<a, c>>}])
          \/ /\ Registered(a) = {} /\ Namesakes(a) = {}
             /\ MoveTo(e, [rest EXCEPT !.left = @ \union {<<a, Len(canonicals)>>}])
    BY <1>3 DEF LookUp
  <2>2. a \in Aliases /\ Len(canonicals) \in Nat /\ g.at \in Running
    BY <1>1, <1>3, <2>1, SomeCanonicals DEF Handlers, LookUp, Running
  <2>3. CASE \E c \in Registered(a) : MoveTo(e, [[g EXCEPT !.todo = @ \ {a}] EXCEPT !.strong = @ \union {<<a, c>>}])
    <3>1. PICK c \in Registered(a) : MoveTo(e, [[g EXCEPT !.todo = @ \ {a}] EXCEPT !.strong = @ \union {<<a, c>>}])
      BY <2>3
    <3> DEFINE h == [[g EXCEPT !.todo = @ \ {a}] EXCEPT !.strong = @ \union {<<a, c>>}]
    <3>2. c \in 1..Len(canonicals)
      BY DEF Registered
    <3>3. h \in Handlers
      <4>1. g.strong \union {<<a, c>>} \in SUBSET (Aliases \X Nat) /\ g.todo \ {a} \in SUBSET Aliases
        BY <1>1, <2>2, <3>2 DEF Handlers
      <4> QED
        BY <1>1, <4>1 DEF Handlers
    <3>4. /\ h.at = g.at /\ h.strong = g.strong \union {<<a, c>>} /\ h.held = g.held /\ h.left = g.left
          /\ h.clusters = g.clusters /\ h.ids = g.ids
      BY <1>1 DEF Handlers
    <3>5. Sound(h)
      BY <1>1, <2>2, <3>2, <3>4 DEF Sound, Fits, Asked
    <3> QED
      BY <3>1, <3>3, <3>5
  <2>4. CASE \E c \in Namesakes(a) : MoveTo(e, [[g EXCEPT !.todo = @ \ {a}] EXCEPT !.held = @ \union {<<a, c>>}])
    <3>1. PICK c \in Namesakes(a) : MoveTo(e, [[g EXCEPT !.todo = @ \ {a}] EXCEPT !.held = @ \union {<<a, c>>}])
      BY <2>4
    <3> DEFINE h == [[g EXCEPT !.todo = @ \ {a}] EXCEPT !.held = @ \union {<<a, c>>}]
    <3>2. c \in 1..Len(canonicals)
      BY DEF Namesakes
    <3>3. h \in Handlers
      <4>1. g.held \union {<<a, c>>} \in SUBSET (Aliases \X Nat) /\ g.todo \ {a} \in SUBSET Aliases
        BY <1>1, <2>2, <3>2 DEF Handlers
      <4> QED
        BY <1>1, <4>1 DEF Handlers
    <3>4. /\ h.at = g.at /\ h.strong = g.strong /\ h.held = g.held \union {<<a, c>>} /\ h.left = g.left
          /\ h.clusters = g.clusters /\ h.ids = g.ids
      BY <1>1 DEF Handlers
    <3>5. Sound(h)
      BY <1>1, <2>2, <3>2, <3>4 DEF Sound, Fits, Asked
    <3> QED
      BY <3>1, <3>3, <3>5
  <2>5. CASE MoveTo(e, [[g EXCEPT !.todo = @ \ {a}] EXCEPT !.left = @ \union {<<a, Len(canonicals)>>}])
    <3> DEFINE h == [[g EXCEPT !.todo = @ \ {a}] EXCEPT !.left = @ \union {<<a, Len(canonicals)>>}]
    <3>1. h \in Handlers
      <4>1. g.left \union {<<a, Len(canonicals)>>} \in SUBSET (Aliases \X Nat)
            /\ g.todo \ {a} \in SUBSET Aliases
        BY <1>1, <2>2 DEF Handlers
      <4> QED
        BY <1>1, <4>1 DEF Handlers
    <3>2. /\ h.at = g.at /\ h.strong = g.strong /\ h.held = g.held
          /\ h.left = g.left \union {<<a, Len(canonicals)>>} /\ h.clusters = g.clusters /\ h.ids = g.ids
      BY <1>1 DEF Handlers
    <3>3. Sound(h)
      BY <1>1, <2>2, <3>2 DEF Sound, Fits, Asked
    <3> QED
      BY <2>5, <3>1, <3>3
  <2> QED
    BY <2>1, <2>3, <2>4, <2>5
<1>4. CASE Corroborate(e)
  <2> DEFINE h == [g EXCEPT !.at = "writing", !.strong = @ \union Corroborated(g), !.held = @ \ Corroborated(g)]
  <2>1. Corroborated(g) \subseteq g.held
    BY DEF Corroborated
  <2>2. h \in Handlers
    BY <1>1, <2>1 DEF Handlers, Running
  <2>3. /\ h.at = "writing" /\ h.strong \union h.held = g.strong \union g.held /\ h.left = g.left
        /\ h.clusters = g.clusters /\ h.ids = g.ids
    BY <1>1, <2>1 DEF Handlers
  <2>4. Sound(h)
    BY <1>1, <2>3 DEF Sound, Fits, Asked, Running
  <2> QED
    BY <1>4, <2>2, <2>4 DEF Corroborate
<1>5. CASE Written(e)
  <2> DEFINE h == [g EXCEPT !.at = IF g.left = {} THEN "dispatching" ELSE "asking"]
  <2>1. h \in Handlers
    BY <1>1 DEF Handlers, Running
  <2>2. /\ h.at \in Running /\ h.strong = g.strong /\ h.held = g.held /\ h.left = g.left
        /\ h.clusters = g.clusters /\ h.ids = g.ids
    BY <1>1 DEF Handlers, Running
  <2>3. Sound(h)
    BY <1>1, <2>2 DEF Sound, Fits, Asked
  <2> QED
    BY <1>5, <2>1, <2>3 DEF Written
<1>6. CASE Stored(e)
  <2> DEFINE h == [g EXCEPT !.at = "dispatching"]
  <2>1. h \in Handlers
    BY <1>1 DEF Handlers, Running
  <2>2. /\ h.at \in Running /\ h.strong = g.strong /\ h.held = g.held /\ h.left = g.left
        /\ h.clusters = g.clusters /\ h.ids = g.ids
    BY <1>1 DEF Handlers, Running
  <2>3. Sound(h)
    BY <1>1, <2>2 DEF Sound, Fits, Asked
  <2> QED
    BY <1>6, <2>1, <2>3 DEF Stored
<1>7. CASE Acknowledge(e)
  BY <1>7, Kinds DEF Acknowledge, Sound, Fits, Handler
<1> QED
  BY <1>2, <1>3, <1>4, <1>5, <1>6, <1>7 DEF Moves

(* Nobody's locals are spoilt by a handler that moves to sound ones while  *)
(* the table grows.                                                        *)
LEMMA LocalsKept ==
  ASSUME TypeOK, Locals, NEW e \in Events, NEW h \in Handlers, MoveTo(e, h),
         Len(canonicals) \in Nat, Len(canonicals') \in Nat, Len(canonicals) <= Len(canonicals'),
         Fits(h, Len(canonicals'))
  PROVE  Locals'
<1>1. resolving'[e] = h /\ \A f \in Events \ {e} : resolving'[f] = resolving[f]
  BY HandlerMoves
<1>2. ASSUME NEW f \in Events
      PROVE  Sound(resolving[f])'
  <2>1. CASE f = e
    BY <1>1, <2>1 DEF Sound, Fits, Asked
  <2>2. CASE f # e
    <3>1. resolving'[f] = resolving[f] /\ Sound(resolving[f]) /\ resolving[f] \in Handlers
      BY <1>1, <2>2 DEF Locals, TypeOK
    <3> DEFINE g == resolving[f]
    <3>2. \A l \in g.left : l[2] \in Nat /\ l[2] <= Len(canonicals')
      BY <3>1 DEF Sound, Fits, Handlers
    <3>3. 1..Len(canonicals) \subseteq 1..Len(canonicals')
      OBVIOUS
    <3> QED
      BY <3>1, <3>2, <3>3 DEF Sound, Fits, Asked
  <2> QED
    BY <2>1, <2>2
<1> QED
  BY <1>2 DEF Locals

(* What a handler writes. *)
Writes(e) == \/ Attach(e) \/ Hold(e) \/ Ask(e) \/ UpsertCluster(e) \/ Mirror(e) \/ DispatchPattern(e)

LEMMA TypesKept ==
  ASSUME TypeOK, UNCHANGED intakeVars, NEW e \in Events, NEW h \in Handlers, MoveTo(e, h),
         canonicals' \in Seq(Canonicals), aliases' \subseteq Nat \X Aliases \X Events,
         review' \subseteq Nat \X Aliases \X Events \X Nat, dispatched' \subseteq Events \X Nat,
         attempt' \in [Events -> Nat], omitted' \in [Events -> SUBSET Aliases]
  PROVE  TypeOK'
<1>1. IntakeTypeOK'
  BY DEF TypeOK, IntakeTypeOK, intakeVars, extractorVars, documentVars
<1>2. resolving' \in [Events -> Handlers]
  BY HandlerMoves
<1> QED
  BY <1>1, <1>2 DEF TypeOK

LEMMA AttachTypes ==
  ASSUME TypeOK, Locals, NEW e \in Events, Attach(e)
  PROVE  TypeOK' /\ Locals'
<1> DEFINE g == resolving[e]
<1>1. g \in Handlers /\ Sound(g) /\ Len(canonicals) \in Nat
  BY SomeCanonicals DEF TypeOK, Locals
<1>2. PICK m \in g.strong : /\ aliases' = aliases \union {<<m[2], m[1], e>>}
                            /\ MoveTo(e, [g EXCEPT !.strong = @ \ {m}, !.ids = @ \union {m[2]}])
  BY DEF Attach
<1> DEFINE h == [g EXCEPT !.strong = @ \ {m}, !.ids = @ \union {m[2]}]
<1>3. m \in Aliases \X Nat /\ m[2] \in 1..Len(canonicals)
  BY <1>1 DEF Handlers, Sound, Fits
<1>4. /\ h \in Handlers /\ h.at = g.at /\ h.strong = g.strong \ {m} /\ h.held = g.held
      /\ h.left = g.left /\ h.clusters = g.clusters /\ h.ids = g.ids \union {m[2]}
  BY <1>1, <1>3 DEF Handlers
<1>5. UNCHANGED <<intakeVars, canonicals, review, dispatched, attempt, omitted>> /\ g.at \in Running
  BY DEF Attach, Running
<1>6. /\ MoveTo(e, h)
      /\ canonicals' \in Seq(Canonicals) /\ aliases' \subseteq Nat \X Aliases \X Events
      /\ review' \subseteq Nat \X Aliases \X Events \X Nat /\ dispatched' \subseteq Events \X Nat
      /\ attempt' \in [Events -> Nat] /\ omitted' \in [Events -> SUBSET Aliases]
  BY <1>2, <1>3, <1>5 DEF TypeOK
<1> HIDE DEF h
<1>7. TypeOK'
  BY <1>5, <1>4, <1>6, TypesKept
<1>8. /\ Asked(h) = Asked(g) /\ Len(canonicals') = Len(canonicals)
      /\ h.at \in Running
  BY <1>1, <1>3, <1>4, <1>5 DEF Asked
<1>9. Fits(h, Len(canonicals'))
  BY <1>1, <1>3, <1>4, <1>5, <1>8 DEF Sound, Fits
<1>10. Locals'
  BY <1>1, <1>6, <1>1, <1>3, <1>4, <1>5, <1>8, <1>9, LocalsKept
<1> QED
  BY <1>7, <1>10

LEMMA HoldTypes ==
  ASSUME TypeOK, Locals, NEW e \in Events, Hold(e)
  PROVE  TypeOK' /\ Locals'
<1> DEFINE g == resolving[e]
<1>1. g \in Handlers /\ Sound(g) /\ Len(canonicals) \in Nat /\ attempt[e] \in Nat
  BY SomeCanonicals DEF TypeOK, Locals
<1>2. PICK m \in g.held : /\ review' = review \union {<<m[2], m[1], e, attempt[e]>>}
                          /\ MoveTo(e, [g EXCEPT !.held = @ \ {m}])
  BY DEF Hold
<1> DEFINE h == [g EXCEPT !.held = @ \ {m}]
<1>3. m \in Aliases \X Nat
  BY <1>1 DEF Handlers
<1>4. /\ h \in Handlers /\ h.at = g.at /\ h.strong = g.strong /\ h.held = g.held \ {m}
      /\ h.left = g.left /\ h.clusters = g.clusters /\ h.ids = g.ids
  BY <1>1, <1>3 DEF Handlers
<1>5. UNCHANGED <<intakeVars, canonicals, aliases, dispatched, attempt, omitted>> /\ g.at \in Running
  BY DEF Hold, Running
<1>6. /\ MoveTo(e, h)
      /\ canonicals' \in Seq(Canonicals) /\ aliases' \subseteq Nat \X Aliases \X Events
      /\ review' \subseteq Nat \X Aliases \X Events \X Nat /\ dispatched' \subseteq Events \X Nat
      /\ attempt' \in [Events -> Nat] /\ omitted' \in [Events -> SUBSET Aliases]
  BY <1>1, <1>2, <1>3, <1>5 DEF TypeOK
<1> HIDE DEF h
<1>7. TypeOK'
  BY <1>5, <1>4, <1>6, TypesKept
<1>8. /\ Asked(h) = Asked(g) /\ Len(canonicals') = Len(canonicals)
      /\ h.at \in Running
  BY <1>1, <1>3, <1>4, <1>5 DEF Asked
<1>9. Fits(h, Len(canonicals'))
  BY <1>1, <1>3, <1>4, <1>5, <1>8 DEF Sound, Fits
<1>10. Locals'
  BY <1>1, <1>6, <1>1, <1>3, <1>4, <1>5, <1>8, <1>9, LocalsKept
<1> QED
  BY <1>7, <1>10

LEMMA AskTypes ==
  ASSUME TypeOK, Locals, NEW e \in Events, Ask(e)
  PROVE  TypeOK' /\ Locals'
<1> DEFINE g == resolving[e]
<1>1. g \in Handlers /\ Sound(g) /\ Len(canonicals) \in Nat
  BY SomeCanonicals DEF TypeOK, Locals
<1>2. PICK answer \in Answers :
        /\ MoveTo(e, [g EXCEPT !.at = "storing", !.clusters = answer])
        /\ omitted' = [omitted EXCEPT ![e] = Asked(g) \ UNION {k.members : k \in answer}]
  BY DEF Ask
<1> DEFINE h == [g EXCEPT !.at = "storing", !.clusters = answer]
<1>3. Asked(g) \subseteq Aliases
  BY <1>1 DEF Asked, Handlers
<1>5. answer \subseteq Clusters
  BY EntityAssumption DEF Answers
<1>6. /\ h \in Handlers /\ h.at = "storing" /\ h.strong = g.strong /\ h.held = g.held
      /\ h.left = g.left /\ h.clusters = answer /\ h.ids = g.ids
  BY <1>1, <1>5 DEF Handlers, Running
<1>7. UNCHANGED <<intakeVars, canonicals, aliases, review, dispatched, attempt>>
  BY DEF Ask
<1>8. /\ MoveTo(e, h)
      /\ canonicals' \in Seq(Canonicals) /\ aliases' \subseteq Nat \X Aliases \X Events
      /\ review' \subseteq Nat \X Aliases \X Events \X Nat /\ dispatched' \subseteq Events \X Nat
      /\ attempt' \in [Events -> Nat] /\ omitted' \in [Events -> SUBSET Aliases]
  BY <1>2, <1>3, <1>7 DEF TypeOK
<1> HIDE DEF h
<1>9. TypeOK'
  BY <1>7, <1>6, <1>8, TypesKept
<1>10. /\ Asked(h) = Asked(g) /\ Len(canonicals') = Len(canonicals)
      /\ h.at \in Running
  BY <1>1, <1>5, <1>6, <1>7 DEF Asked, Running
<1>11. Fits(h, Len(canonicals'))
  BY <1>1, <1>5, <1>6, <1>7, <1>10 DEF Sound, Fits
<1>12. Locals'
  BY <1>1, <1>8, <1>1, <1>5, <1>6, <1>7, <1>10, <1>11, LocalsKept
<1> QED
  BY <1>9, <1>12

LEMMA Appended ==
  ASSUME TypeOK, NEW x \in Canonicals, canonicals' = Append(canonicals, x)
  PROVE  /\ canonicals' \in Seq(Canonicals) /\ Len(canonicals) \in Nat
         /\ Len(canonicals') = Len(canonicals) + 1 /\ canonicals'[Len(canonicals) + 1] = x
         /\ \A c \in 1..Len(canonicals) : canonicals'[c] = canonicals[c]
  BY DEF TypeOK

(* The row of a cluster: what it has seen is what the lookups of its name  *)
(* had seen.                                                               *)
LEMMA CanonicalTyped ==
  ASSUME TypeOK, Locals, NEW e \in Events, NEW k \in resolving[e].clusters
  PROVE  /\ k \in Clusters /\ Canonical(e, k) \in Canonicals
         /\ \A n \in Canonical(e, k).seen : n \in Nat /\ <<k.display, n>> \in resolving[e].left
<1> DEFINE g == resolving[e]
           seen == {l[2] : l \in {x \in g.left : x[1] = k.display}}
<1>1. g \in Handlers /\ attempt[e] \in Nat
  BY DEF TypeOK
<1>2. k \in Clusters /\ k.display \in Aliases
  BY <1>1 DEF Handlers, Clusters
<1>3. \A l \in g.left : l = <<l[1], l[2]>> /\ l[2] \in Nat
  BY <1>1 DEF Handlers
<1>4. \A n \in seen : n \in Nat /\ <<k.display, n>> \in g.left
  BY <1>3
<1>5. seen \in SUBSET Nat
  BY <1>4
<1>6. Canonical(e, k) = [display |-> k.display, registration |-> Unregistered, mirror |-> "pending",
                         by |-> {e}, attempt |-> attempt[e], seen |-> seen]
  BY DEF Canonical
<1> HIDE DEF seen
<1>7. Canonical(e, k) \in Canonicals
  BY <1>1, <1>2, <1>5, <1>6 DEF Canonicals, Registrations
<1> QED
  BY <1>2, <1>4, <1>6, <1>7

LEMMA UpsertTypes ==
  ASSUME TypeOK, Locals, NEW e \in Events, UpsertCluster(e)
  PROVE  TypeOK' /\ Locals'
<1> DEFINE g == resolving[e]
           n == Len(canonicals) + 1
<1>1. g \in Handlers /\ Sound(g) /\ Len(canonicals) \in Nat
  BY SomeCanonicals DEF TypeOK, Locals
<1>2. PICK k \in g.clusters :
        /\ canonicals' = Append(canonicals, Canonical(e, k))
        /\ aliases' = aliases \union {<<n, a, e>> : a \in k.members}
        /\ MoveTo(e, [g EXCEPT !.at = "mirroring", !.clusters = @ \ {k}, !.ids = @ \union {n}])
  BY DEF UpsertCluster
<1>3. k.members \subseteq Aliases /\ Canonical(e, k) \in Canonicals
  BY CanonicalTyped DEF Clusters
<1>4. canonicals' \in Seq(Canonicals) /\ Len(canonicals') = n
  BY <1>2, <1>3, Appended
<1> DEFINE h == [g EXCEPT !.at = "mirroring", !.clusters = @ \ {k}, !.ids = @ \union {n}]
<1>5. /\ h \in Handlers /\ h.at = "mirroring" /\ h.strong = g.strong /\ h.held = g.held
      /\ h.left = g.left /\ h.clusters = g.clusters \ {k} /\ h.ids = g.ids \union {n}
  <2>1. n \in Nat
    BY <1>1
  <2> HIDE DEF n
  <2>2. g.clusters \ {k} \in SUBSET Clusters /\ g.ids \union {n} \in SUBSET Nat
    BY <1>1, <2>1 DEF Handlers
  <2> QED
    BY <1>1, <2>2 DEF Handlers, Running
<1>6. UNCHANGED <<intakeVars, review, dispatched, attempt, omitted>>
  BY DEF UpsertCluster
<1>7. /\ MoveTo(e, h)
      /\ canonicals' \in Seq(Canonicals) /\ aliases' \subseteq Nat \X Aliases \X Events
      /\ review' \subseteq Nat \X Aliases \X Events \X Nat /\ dispatched' \subseteq Events \X Nat
      /\ attempt' \in [Events -> Nat] /\ omitted' \in [Events -> SUBSET Aliases]
  BY <1>1, <1>2, <1>3, <1>4, <1>6 DEF TypeOK
<1> HIDE DEF h
<1>8. TypeOK'
  BY <1>5, <1>6, <1>7, TypesKept
<1>9. Asked(h) = Asked(g) /\ h.at \in Running
  BY <1>5 DEF Asked, Running
<1>10. Fits(h, n)
  BY <1>1, <1>5, <1>9 DEF Sound, Fits, Handlers
<1>11. Locals'
  BY <1>1, <1>4, <1>5, <1>7, <1>10, LocalsKept
<1> QED
  BY <1>8, <1>11

LEMMA MirrorTypes ==
  ASSUME TypeOK, Locals, NEW e \in Events, Mirror(e)
  PROVE  TypeOK' /\ Locals'
<1> DEFINE g == resolving[e]
           h == [g EXCEPT !.at = "storing"]
<1>1. g \in Handlers /\ Sound(g) /\ Len(canonicals) \in Nat
  BY SomeCanonicals DEF TypeOK, Locals
<1>2. PICK c \in g.ids, state \in {"synced", "failed"} :
        canonicals' = [canonicals EXCEPT ![c].mirror = state]
  BY DEF Mirror
<1>3. c \in 1..Len(canonicals) /\ canonicals[c] \in Canonicals
  BY <1>1, SomeCanonicals DEF Sound, Fits
<1>4. [canonicals[c] EXCEPT !.mirror = state] \in Canonicals
  BY <1>3 DEF Canonicals
<1>5. canonicals' \in Seq(Canonicals) /\ Len(canonicals') = Len(canonicals)
  BY <1>2, <1>3, <1>4 DEF TypeOK
<1>6. /\ h \in Handlers /\ h.at = "storing" /\ h.strong = g.strong /\ h.held = g.held
      /\ h.left = g.left /\ h.clusters = g.clusters /\ h.ids = g.ids
  BY <1>1 DEF Handlers, Running
<1>7. UNCHANGED <<intakeVars, aliases, review, dispatched, attempt, omitted>> /\ MoveTo(e, h)
  BY DEF Mirror
<1> HIDE DEF h
<1>8. TypeOK'
  BY <1>5, <1>6, <1>7, TypesKept DEF TypeOK
<1>9. Asked(h) = Asked(g) /\ h.at \in Running
  BY <1>6 DEF Asked, Running
<1>10. Fits(h, Len(canonicals'))
  BY <1>1, <1>5, <1>6, <1>9 DEF Sound, Fits
<1>11. Locals'
  BY <1>1, <1>5, <1>6, <1>7, <1>10, LocalsKept
<1> QED
  BY <1>8, <1>11

LEMMA DispatchTypes ==
  ASSUME TypeOK, Locals, NEW e \in Events, DispatchPattern(e)
  PROVE  TypeOK' /\ Locals'
<1> DEFINE g == resolving[e]
<1>1. g \in Handlers /\ Sound(g) /\ Len(canonicals) \in Nat
  BY SomeCanonicals DEF TypeOK, Locals
<1>2. PICK c \in g.ids : /\ dispatched' = dispatched \union {<<e, c>>}
                         /\ MoveTo(e, [g EXCEPT !.ids = @ \ {c}])
  BY DEF DispatchPattern
<1> DEFINE h == [g EXCEPT !.ids = @ \ {c}]
<1>3. /\ h \in Handlers /\ h.at = g.at /\ h.strong = g.strong /\ h.held = g.held
      /\ h.left = g.left /\ h.clusters = g.clusters /\ h.ids = g.ids \ {c}
  BY <1>1 DEF Handlers
<1>4. UNCHANGED <<intakeVars, canonicals, aliases, review, attempt, omitted>> /\ g.at \in Running
  BY DEF DispatchPattern, Running
<1>5. MoveTo(e, h) /\ dispatched' \subseteq Events \X Nat
  BY <1>1, <1>2 DEF TypeOK, Handlers
<1> HIDE DEF h
<1>6. TypeOK'
  BY <1>3, <1>4, <1>5, TypesKept DEF TypeOK
<1>7. Asked(h) = Asked(g) /\ Len(canonicals') = Len(canonicals)
  BY <1>3, <1>4 DEF Asked
<1>8. Fits(h, Len(canonicals'))
  BY <1>1, <1>3, <1>4, <1>7 DEF Sound, Fits
<1>9. Locals'
  BY <1>1, <1>3, <1>5, <1>7, <1>8, LocalsKept
<1> QED
  BY <1>6, <1>9

LEMMA FailTypes ==
  ASSUME TypeOK, Locals, NEW e \in Events, ResolutionFails(e)
  PROVE  TypeOK' /\ Locals'
<1>1. faults' \in 0..MaxFaults /\ attempt' \in [Events -> Nat]
  BY IntakeAssumption DEF ResolutionFails, Fault, TypeOK, IntakeTypeOK
<1>2. UNCHANGED <<extractorVars, documentVars, canonicals, aliases, review, dispatched, omitted>>
  BY DEF ResolutionFails
<1>3. IntakeTypeOK'
  BY <1>1, <1>2 DEF TypeOK, IntakeTypeOK, extractorVars, documentVars
<1>4. Handler("waiting") \in Handlers /\ MoveTo(e, Handler("waiting"))
  BY Kinds DEF ResolutionFails
<1>5. TypeOK'
  BY <1>1, <1>2, <1>3, <1>4, HandlerMoves DEF TypeOK
<1>6. Fits(Handler("waiting"), Len(canonicals'))
  BY DEF Fits, Handler
<1>7. Locals'
  BY <1>2, <1>4, <1>6, SomeCanonicals, LocalsKept
<1> QED
  BY <1>5, <1>7

LEMMA CrashTypes ==
  ASSUME TypeOK, Locals, EntityCrash
  PROVE  TypeOK' /\ Locals'
<1>1. faults' \in 0..MaxFaults
  BY IntakeAssumption DEF EntityCrash, Fault, TypeOK, IntakeTypeOK
<1>2. UNCHANGED <<extractorVars, documentVars, canonicals, aliases, review, dispatched, attempt, omitted>>
  BY DEF EntityCrash
<1>3. IntakeTypeOK'
  BY <1>1, <1>2 DEF TypeOK, IntakeTypeOK, extractorVars, documentVars
<1>4. resolving' = [e \in Events |->
        IF resolving[e].at \in Running THEN Handler("unhandled") ELSE resolving[e]]
  BY DEF EntityCrash
<1>5. Handler("unhandled") \in Handlers
  BY Kinds
<1>6. resolving' \in [Events -> Handlers]
  BY <1>4, <1>5 DEF TypeOK
<1>7. TypeOK'
  BY <1>2, <1>3, <1>6 DEF TypeOK
<1>8. ASSUME NEW e \in Events
      PROVE  Sound(resolving[e])'
  <2>1. CASE resolving[e].at \in Running
    <3>1. resolving'[e] = Handler("unhandled")
      BY <1>4, <2>1
    <3>2. Fits(Handler("unhandled"), Len(canonicals'))
      BY DEF Fits, Handler
    <3> QED
      BY <3>1, <3>2 DEF Sound
  <2>2. CASE resolving[e].at \notin Running
    BY <1>2, <1>4, <2>2 DEF Locals, Sound, Fits, Asked
  <2> QED
    BY <2>1, <2>2
<1> QED
  BY <1>7, <1>8 DEF Locals

LEMMA MovesTypes ==
  ASSUME TypeOK, Locals, NEW e \in Events, Moves(e)
  PROVE  TypeOK' /\ Locals'
<1>1. PICK h \in Handlers : MoveTo(e, h) /\ Sound(h)
  BY MovesTyped
<1>2. UNCHANGED <<intakeVars, canonicals, aliases, review, dispatched, attempt, omitted>>
  BY DEF Moves, Take, LookUp, Corroborate, Written, Stored, Acknowledge
<1>3. TypeOK'
  BY <1>1, <1>2, TypesKept DEF TypeOK
<1>4. Fits(h, Len(canonicals'))
  BY <1>1, <1>2 DEF Sound
<1>5. Locals'
  BY <1>1, <1>2, <1>4, SomeCanonicals, LocalsKept
<1> QED
  BY <1>3, <1>5

(* Every step is one of the intake, of a handler that moves or writes, or  *)
(* the end of one.                                                         *)
LEMMA Steps ==
  ASSUME [Next]_vars
  PROVE  \/ UNCHANGED vars
         \/ IntakeNext /\ UNCHANGED entityVars
         \/ \E e \in Events : Moves(e)
         \/ \E e \in Events : Writes(e)
         \/ \E e \in Events : ResolutionFails(e)
         \/ EntityCrash
  BY DEF Next, EntityNext, Moves, Writes

LEMMA TypeStep ==
  ASSUME TypeOK, Locals, [Next]_vars
  PROVE  TypeOK' /\ Locals'
<1>1. CASE UNCHANGED vars
  BY <1>1 DEF vars, intakeVars, entityVars, extractorVars, documentVars, TypeOK, IntakeTypeOK,
              Locals, Sound, Fits, Asked
<1>2. CASE IntakeNext /\ UNCHANGED entityVars
  BY <1>2, IntakeTypes DEF entityVars, TypeOK, Locals, Sound, Fits, Asked
<1>3. CASE \E e \in Events : Moves(e)
  BY <1>3, MovesTypes
<1>4. CASE \E e \in Events : Writes(e)
  BY <1>4, AttachTypes, HoldTypes, AskTypes, UpsertTypes, MirrorTypes, DispatchTypes DEF Writes
<1>5. CASE \E e \in Events : ResolutionFails(e)
  BY <1>5, FailTypes
<1>6. CASE EntityCrash
  BY <1>6, CrashTypes
<1> QED
  BY <1>1, <1>2, <1>3, <1>4, <1>5, <1>6, Steps

(* The variables keep their types, for every set of events, names and      *)
(* documents and every number of faults.                                   *)
THEOREM TypeCorrect == Spec => []TypeOK
<1>1. Init => TypeOK /\ Locals
  BY EntityInit
<1>2. TypeOK /\ Locals /\ [Next]_vars => (TypeOK /\ Locals)'
  BY TypeStep
<1> QED
  BY <1>1, <1>2, PTL DEF Spec

-----------------------------------------------------------------------------
(* Every stored document is announced or its handler was cut short: what   *)
(* is stored under a content came of a request for it.                     *)
Requested == \A d \in Documents : \A r \in documents[d] : DocumentOf[r] = d

LEMMA StoredStep ==
  ASSUME IntakeTypeOK, Requested, StoredIsAnnounced, IntakeNext
  PROVE  Requested' /\ StoredIsAnnounced'
<1> USE IntakeAssumption
<1>1. CASE UNCHANGED documentVars
  BY <1>1 DEF documentVars, Requested, StoredIsAnnounced
<1>2. CASE \E r \in Requests : Download(r)
  <2>1. PICK r \in Requests : Download(r)
    BY <1>2
  <2>2. UNCHANGED <<documents, announced, interrupted>> /\ fetching[r] \notin Inserted
        /\ \A q \in Requests \ {r} : fetching'[q] = fetching[q]
    BY <2>1 DEF Download, Inserted, IntakeTypeOK
  <2> QED
    BY <2>2 DEF Requested, StoredIsAnnounced, IntakeTypeOK
<1>3. CASE \E r \in Requests : StoreDocument(r)
  <2>1. PICK r \in Requests : StoreDocument(r)
    BY <1>3
  <2>2. /\ fetching[r] = "storing" /\ fetching'[r] \in Inserted
        /\ \A q \in Requests \ {r} : fetching'[q] = fetching[q]
        /\ documents'[DocumentOf[r]] = documents[DocumentOf[r]] \union {r}
        /\ \A d \in Documents \ {DocumentOf[r]} : documents'[d] = documents[d]
        /\ UNCHANGED <<announced, interrupted>>
    BY <2>1 DEF StoreDocument, Inserted, IntakeTypeOK
  <2> QED
    BY <2>2 DEF Requested, StoredIsAnnounced, IntakeTypeOK
<1>4. CASE \E r \in Requests : MergeMetadata(r)
  <2>1. PICK r \in Requests : MergeMetadata(r)
    BY <1>4
  <2>2. /\ fetching'[r] \in Inserted /\ \A q \in Requests \ {r} : fetching'[q] = fetching[q]
        /\ UNCHANGED <<documents, announced, interrupted>>
    BY <2>1 DEF MergeMetadata, Inserted, IntakeTypeOK
  <2> QED
    BY <2>2 DEF Requested, StoredIsAnnounced, IntakeTypeOK
<1>5. CASE \E r \in Requests : Announce(r)
  <2>1. PICK r \in Requests : Announce(r)
    BY <1>5
  <2>2. /\ announced' = announced \union {DocumentOf[r]}
        /\ \A q \in Requests \ {r} : fetching'[q] = fetching[q]
        /\ UNCHANGED <<documents, interrupted>>
    BY <2>1 DEF Announce, IntakeTypeOK
  <2> QED
    BY <2>2 DEF Requested, StoredIsAnnounced, IntakeTypeOK
<1>6. CASE \E r \in Requests : DocumentFails(r)
  <2>1. PICK r \in Requests : DocumentFails(r)
    BY <1>6
  <2>2. /\ announced \subseteq announced' /\ UNCHANGED documents /\ interrupted \subseteq interrupted'
        /\ fetching[r] \in Inserted => r \in interrupted'
        /\ \A q \in Requests \ {r} : fetching'[q] = fetching[q]
    BY <2>1 DEF DocumentFails, IntakeTypeOK
  <2> QED
    BY <2>2 DEF Requested, StoredIsAnnounced, IntakeTypeOK
<1>7. CASE DocumentCrash
  BY <1>7 DEF DocumentCrash, Requested, StoredIsAnnounced, IntakeTypeOK
<1> QED
  BY <1>1, <1>2, <1>3, <1>4, <1>5, <1>6, <1>7
  DEF IntakeNext, Extract, MergeFields, PublishAliases, ExtractionFails, ExtractorCrash

(* A document that is stored is announced to the entities, unless the      *)
(* handler of every request that has stored it was cut short.              *)
THEOREM AnnouncedCorrect == Spec => []StoredIsAnnounced
<1> DEFINE IInv == TypeOK /\ Locals /\ Requested /\ StoredIsAnnounced
<1>1. Init => IInv
  <2> SUFFICES ASSUME Init PROVE Requested /\ StoredIsAnnounced
    BY EntityInit
  <2> QED
    BY DEF Init, IntakeInit, Requested, StoredIsAnnounced
<1>2. IInv /\ [Next]_vars => IInv'
  <2> SUFFICES ASSUME IInv, [Next]_vars PROVE Requested' /\ StoredIsAnnounced'
    BY TypeStep
  <2>1. CASE IntakeNext
    BY <2>1, StoredStep DEF TypeOK
  <2>2. CASE ~IntakeNext
    <3>1. UNCHANGED documentVars
      BY <2>2 DEF Next, EntityNext, vars, intakeVars, Take, LookUp, Corroborate, Attach, Hold,
                  Written, Ask, UpsertCluster, Mirror, Stored, DispatchPattern, Acknowledge,
                  ResolutionFails, EntityCrash
    <3> QED
      BY <3>1 DEF documentVars, Requested, StoredIsAnnounced
  <2> QED
    BY <2>1, <2>2
<1> QED
  BY <1>1, <1>2, PTL DEF Spec

-----------------------------------------------------------------------------
(* What a step keeps of the rows that are there.                           *)
SameRow(c) ==
  /\ canonicals'[c].display = canonicals[c].display
  /\ canonicals'[c].registration = canonicals[c].registration
  /\ canonicals'[c].by = canonicals[c].by /\ canonicals'[c].attempt = canonicals[c].attempt
  /\ canonicals'[c].seen = canonicals[c].seen

LEMMA MirrorRows ==
  ASSUME TypeOK, Locals, NEW e \in Events, Mirror(e)
  PROVE  Len(canonicals') = Len(canonicals) /\ \A c \in 1..Len(canonicals) : SameRow(c)
<1>1. PICK d \in resolving[e].ids, state \in {"synced", "failed"} :
        canonicals' = [canonicals EXCEPT ![d].mirror = state]
  BY DEF Mirror
<1>2. Len(canonicals') = Len(canonicals)
  BY <1>1 DEF TypeOK
<1>3. ASSUME NEW c \in 1..Len(canonicals)
      PROVE  SameRow(c)
  <2>1. canonicals[c] \in Canonicals /\ DOMAIN canonicals = 1..Len(canonicals)
    BY SomeCanonicals DEF TypeOK
  <2>2. canonicals'[c] = IF c = d THEN [canonicals[c] EXCEPT !.mirror = state] ELSE canonicals[c]
    BY <1>1, <2>1
  <2> QED
    BY <2>1, <2>2 DEF SameRow, Canonicals
<1> QED
  BY <1>2, <1>3

LEMMA RowsKept ==
  ASSUME TypeOK, Locals, [Next]_vars
  PROVE  /\ Len(canonicals) \in Nat /\ Len(canonicals') \in Nat /\ Len(canonicals) <= Len(canonicals')
         /\ \A c \in 1..Len(canonicals) : SameRow(c)
<1>1. CASE UNCHANGED canonicals
  BY <1>1, SomeCanonicals DEF SameRow
<1>2. CASE \E e \in Events : UpsertCluster(e)
  <2>1. PICK e \in Events : UpsertCluster(e)
    BY <1>2
  <2>2. PICK k \in resolving[e].clusters : canonicals' = Append(canonicals, Canonical(e, k))
    BY <2>1 DEF UpsertCluster
  <2>3. Canonical(e, k) \in Canonicals
    BY CanonicalTyped
  <2> QED
    BY <2>2, <2>3, Appended DEF SameRow
<1>3. CASE \E e \in Events : Mirror(e)
  BY <1>3, MirrorRows, SomeCanonicals
<1> QED
  BY <1>1, <1>2, <1>3
  DEF Next, EntityNext, vars, entityVars, Take, LookUp, Corroborate, Attach, Hold, Written, Ask,
      Stored, DispatchPattern, Acknowledge, ResolutionFails, EntityCrash

-----------------------------------------------------------------------------
(* What each action makes of its handler's locals.                         *)
Others(e) == \A f \in Events \ {e} : resolving'[f] = resolving[f]

LEMMA Moved ==
  ASSUME TypeOK, NEW e \in Events, NEW h, MoveTo(e, h)
  PROVE  resolving'[e] = h /\ Others(e)
  BY DEF TypeOK, MoveTo, Others

LEMMA TakeShape ==
  ASSUME TypeOK, NEW e \in Events, Take(e)
  PROVE  /\ Others(e) /\ UNCHANGED <<intakeVars, canonicals, aliases, review, dispatched, attempt, omitted>>
         /\ resolving[e].at = "waiting" /\ sent[e].there = "yes"
         /\ resolving'[e].at = "looking" \/ (resolving'[e].at = "acked" /\ sent[e].aliases = {})
         /\ resolving'[e].todo = sent[e].aliases /\ resolving'[e].strong = {} /\ resolving'[e].held = {}
         /\ resolving'[e].left = {} /\ resolving'[e].clusters = {} /\ resolving'[e].ids = {}
<1> DEFINE h == IF sent[e].aliases = {} THEN Handler("acked")
                ELSE [Handler("looking") EXCEPT !.todo = sent[e].aliases]
<1>1. MoveTo(e, h) /\ UNCHANGED <<intakeVars, canonicals, aliases, review, dispatched, attempt, omitted>>
      /\ resolving[e].at = "waiting" /\ sent[e].there = "yes"
  BY DEF Take
<1>2. /\ h.at = "looking" \/ (h.at = "acked" /\ sent[e].aliases = {})
      /\ h.todo = sent[e].aliases /\ h.strong = {} /\ h.held = {}
      /\ h.left = {} /\ h.clusters = {} /\ h.ids = {}
  BY DEF Handler
<1> HIDE DEF h
<1> QED
  BY <1>1, <1>2, Moved

LEMMA LookUpShape ==
  ASSUME TypeOK, NEW e \in Events, LookUp(e)
  PROVE  /\ Others(e) /\ UNCHANGED <<intakeVars, canonicals, aliases, review, dispatched, attempt, omitted>>
         /\ resolving[e].at = "looking" /\ resolving'[e].at = "looking"
         /\ resolving'[e].clusters = resolving[e].clusters /\ resolving'[e].ids = resolving[e].ids
         /\ \E a \in resolving[e].todo :
              /\ resolving'[e].todo = resolving[e].todo \ {a}
              /\ \/ /\ resolving'[e].held = resolving[e].held /\ resolving'[e].left = resolving[e].left
                    /\ \E c \in Registered(a) : resolving'[e].strong = resolving[e].strong \union {<<a, c>>}
                 \/ /\ resolving'[e].strong = resolving[e].strong /\ resolving'[e].left = resolving[e].left
                    /\ \E c \in Namesakes(a) : resolving'[e].held = resolving[e].held \union {<<a, c>>}
                 \/ /\ Namesakes(a) = {}
                    /\ resolving'[e].strong = resolving[e].strong /\ resolving'[e].held = resolving[e].held
                    /\ resolving'[e].left = resolving[e].left \union {<<a, Len(canonicals)>>}
<1> DEFINE g == resolving[e]
<1>1. PICK a \in g.todo :
        LET rest == [g EXCEPT !.todo = @ \ {a}] IN
        \/ \E c \in Registered(a) : MoveTo(e, [rest EXCEPT !.strong = @ \union {<<a, c>>}])
        \/ /\ Registered(a) = {}
           /\ \E c \in Namesakes(a) : MoveTo(e, [rest EXCEPT !.held = @ \union {<<a, c>>}])
        \/ /\ Registered(a) = {} /\ Namesakes(a) = {}
           /\ MoveTo(e, [rest EXCEPT !.left = @ \union {<<a, Len(canonicals)>>}])
  BY DEF LookUp
<1>2. /\ UNCHANGED <<intakeVars, canonicals, aliases, review, dispatched, attempt, omitted>>
      /\ g.at = "looking" /\ g \in Handlers
  BY DEF LookUp, TypeOK
<1>3. CASE \E c \in Registered(a) : MoveTo(e, [[g EXCEPT !.todo = @ \ {a}] EXCEPT !.strong = @ \union {<<a, c>>}])
  <2>1. PICK c \in Registered(a) : MoveTo(e, [[g EXCEPT !.todo = @ \ {a}] EXCEPT !.strong = @ \union {<<a, c>>}])
    BY <1>3
  <2> DEFINE h == [[g EXCEPT !.todo = @ \ {a}] EXCEPT !.strong = @ \union {<<a, c>>}]
  <2>2. resolving'[e] = h /\ Others(e)
    BY <2>1, Moved
  <2>3. /\ h.at = g.at /\ h.todo = g.todo \ {a} /\ h.strong = g.strong \union {<<a, c>>} /\ h.held = g.held
        /\ h.left = g.left /\ h.clusters = g.clusters /\ h.ids = g.ids
    BY <1>2 DEF Handlers
  <2> HIDE DEF h
  <2> QED
    BY <1>2, <2>2, <2>3
<1>4. CASE \E c \in Namesakes(a) : MoveTo(e, [[g EXCEPT !.todo = @ \ {a}] EXCEPT !.held = @ \union {<<a, c>>}])
  <2>1. PICK c \in Namesakes(a) : MoveTo(e, [[g EXCEPT !.todo = @ \ {a}] EXCEPT !.held = @ \union {<<a, c>>}])
    BY <1>4
  <2> DEFINE h == [[g EXCEPT !.todo = @ \ {a}] EXCEPT !.held = @ \union {<<a, c>>}]
  <2>2. resolving'[e] = h /\ Others(e)
    BY <2>1, Moved
  <2>3. /\ h.at = g.at /\ h.todo = g.todo \ {a} /\ h.strong = g.strong /\ h.held = g.held \union {<<a, c>>}
        /\ h.left = g.left /\ h.clusters = g.clusters /\ h.ids = g.ids
    BY <1>2 DEF Handlers
  <2> HIDE DEF h
  <2> QED
    BY <1>2, <2>2, <2>3
<1>5. CASE /\ Namesakes(a) = {}
           /\ MoveTo(e, [[g EXCEPT !.todo = @ \ {a}] EXCEPT !.left = @ \union {<<a, Len(canonicals)>>}])
  <2> DEFINE h == [[g EXCEPT !.todo = @ \ {a}] EXCEPT !.left = @ \union {<<a, Len(canonicals)>>}]
  <2>2. resolving'[e] = h /\ Others(e)
    BY <1>5, Moved
  <2>3. /\ h.at = g.at /\ h.todo = g.todo \ {a} /\ h.strong = g.strong /\ h.held = g.held
        /\ h.left = g.left \union {<<a, Len(canonicals)>>} /\ h.clusters = g.clusters /\ h.ids = g.ids
    BY <1>2 DEF Handlers
  <2> HIDE DEF h
  <2> QED
    BY <1>2, <1>5, <2>2, <2>3
<1> QED
  BY <1>1, <1>3, <1>4, <1>5

LEMMA CorroborateShape ==
  ASSUME TypeOK, NEW e \in Events, Corroborate(e)
  PROVE  /\ Others(e) /\ UNCHANGED <<intakeVars, canonicals, aliases, review, dispatched, attempt, omitted>>
         /\ resolving[e].at = "looking" /\ resolving[e].todo = {} /\ resolving'[e].at = "writing"
         /\ resolving'[e].todo = {} /\ resolving'[e].left = resolving[e].left
         /\ resolving'[e].clusters = resolving[e].clusters /\ resolving'[e].ids = resolving[e].ids
         /\ resolving'[e].strong = resolving[e].strong \union Corroborated(resolving[e])
         /\ resolving'[e].held = resolving[e].held \ Corroborated(resolving[e])
<1> DEFINE g == resolving[e]
           h == [g EXCEPT !.at = "writing", !.strong = @ \union Corroborated(g), !.held = @ \ Corroborated(g)]
<1>1. MoveTo(e, h) /\ UNCHANGED <<intakeVars, canonicals, aliases, review, dispatched, attempt, omitted>>
      /\ g.at = "looking" /\ g.todo = {} /\ g \in Handlers
  BY DEF Corroborate, TypeOK
<1>2. /\ h.at = "writing" /\ h.todo = g.todo /\ h.left = g.left /\ h.clusters = g.clusters /\ h.ids = g.ids
      /\ h.strong = g.strong \union Corroborated(g) /\ h.held = g.held \ Corroborated(g)
  BY <1>1 DEF Handlers
<1> HIDE DEF h
<1> QED
  BY <1>1, <1>2, Moved

LEMMA AttachShape ==
  ASSUME TypeOK, NEW e \in Events, Attach(e)
  PROVE  /\ Others(e) /\ UNCHANGED <<intakeVars, canonicals, review, dispatched, attempt, omitted>>
         /\ resolving[e].at = "writing" /\ resolving'[e].at = "writing"
         /\ resolving'[e].todo = resolving[e].todo /\ resolving'[e].held = resolving[e].held
         /\ resolving'[e].left = resolving[e].left /\ resolving'[e].clusters = resolving[e].clusters
         /\ \E m \in resolving[e].strong :
              /\ aliases' = aliases \union {<<m[2], m[1], e>>}
              /\ resolving'[e].strong = resolving[e].strong \ {m}
              /\ resolving'[e].ids = resolving[e].ids \union {m[2]}
<1> DEFINE g == resolving[e]
<1>1. PICK m \in g.strong : /\ aliases' = aliases \union {<<m[2], m[1], e>>}
                            /\ MoveTo(e, [g EXCEPT !.strong = @ \ {m}, !.ids = @ \union {m[2]}])
  BY DEF Attach
<1> DEFINE h == [g EXCEPT !.strong = @ \ {m}, !.ids = @ \union {m[2]}]
<1>2. UNCHANGED <<intakeVars, canonicals, review, dispatched, attempt, omitted>>
      /\ g.at = "writing" /\ g \in Handlers
  BY DEF Attach, TypeOK
<1>3. /\ h.at = g.at /\ h.todo = g.todo /\ h.held = g.held /\ h.left = g.left /\ h.clusters = g.clusters
      /\ h.strong = g.strong \ {m} /\ h.ids = g.ids \union {m[2]}
  BY <1>2 DEF Handlers
<1>4. resolving'[e] = h /\ Others(e)
  BY <1>1, Moved
<1> HIDE DEF h
<1> QED
  BY <1>1, <1>2, <1>3, <1>4

LEMMA HoldShape ==
  ASSUME TypeOK, NEW e \in Events, Hold(e)
  PROVE  /\ Others(e) /\ UNCHANGED <<intakeVars, canonicals, aliases, dispatched, attempt, omitted>>
         /\ resolving[e].at = "writing" /\ resolving'[e].at = "writing"
         /\ resolving'[e].todo = resolving[e].todo /\ resolving'[e].strong = resolving[e].strong
         /\ resolving'[e].left = resolving[e].left /\ resolving'[e].clusters = resolving[e].clusters
         /\ resolving'[e].ids = resolving[e].ids
         /\ \E m \in resolving[e].held : /\ review' = review \union {<<m[2], m[1], e, attempt[e]>>}
                                         /\ resolving'[e].held = resolving[e].held \ {m}
<1> DEFINE g == resolving[e]
<1>1. PICK m \in g.held : /\ review' = review \union {<<m[2], m[1], e, attempt[e]>>}
                          /\ MoveTo(e, [g EXCEPT !.held = @ \ {m}])
  BY DEF Hold
<1> DEFINE h == [g EXCEPT !.held = @ \ {m}]
<1>2. UNCHANGED <<intakeVars, canonicals, aliases, dispatched, attempt, omitted>>
      /\ g.at = "writing" /\ g \in Handlers
  BY DEF Hold, TypeOK
<1>3. /\ h.at = g.at /\ h.todo = g.todo /\ h.strong = g.strong /\ h.left = g.left
      /\ h.clusters = g.clusters /\ h.held = g.held \ {m} /\ h.ids = g.ids
  BY <1>2 DEF Handlers
<1>4. resolving'[e] = h /\ Others(e)
  BY <1>1, Moved
<1> HIDE DEF h
<1> QED
  BY <1>1, <1>2, <1>3, <1>4

LEMMA WrittenShape ==
  ASSUME TypeOK, NEW e \in Events, Written(e)
  PROVE  /\ Others(e) /\ UNCHANGED <<intakeVars, canonicals, aliases, review, dispatched, attempt, omitted>>
         /\ resolving[e].at = "writing" /\ resolving[e].strong = {} /\ resolving[e].held = {}
         /\ resolving'[e].at = IF resolving[e].left = {} THEN "dispatching" ELSE "asking"
         /\ resolving'[e].todo = resolving[e].todo /\ resolving'[e].strong = {} /\ resolving'[e].held = {}
         /\ resolving'[e].left = resolving[e].left /\ resolving'[e].clusters = resolving[e].clusters
         /\ resolving'[e].ids = resolving[e].ids
<1> DEFINE g == resolving[e]
           h == [g EXCEPT !.at = IF g.left = {} THEN "dispatching" ELSE "asking"]
<1>1. MoveTo(e, h) /\ UNCHANGED <<intakeVars, canonicals, aliases, review, dispatched, attempt, omitted>>
      /\ g.at = "writing" /\ g.strong = {} /\ g.held = {} /\ g \in Handlers
  BY DEF Written, TypeOK
<1>2. /\ h.at = (IF g.left = {} THEN "dispatching" ELSE "asking") /\ h.todo = g.todo
      /\ h.strong = g.strong /\ h.held = g.held /\ h.left = g.left /\ h.clusters = g.clusters /\ h.ids = g.ids
  BY <1>1 DEF Handlers
<1> HIDE DEF h
<1> QED
  BY <1>1, <1>2, Moved

LEMMA AskShape ==
  ASSUME TypeOK, NEW e \in Events, Ask(e)
  PROVE  /\ Others(e) /\ UNCHANGED <<intakeVars, canonicals, aliases, review, dispatched, attempt>>
         /\ resolving[e].at = "asking" /\ resolving'[e].at = "storing"
         /\ resolving'[e].todo = resolving[e].todo /\ resolving'[e].strong = resolving[e].strong
         /\ resolving'[e].held = resolving[e].held /\ resolving'[e].left = resolving[e].left
         /\ resolving'[e].ids = resolving[e].ids
         /\ omitted'[e] = Asked(resolving[e]) \ UNION {k.members : k \in resolving'[e].clusters}
         /\ \A f \in Events \ {e} : omitted'[f] = omitted[f]
<1> DEFINE g == resolving[e]
<1>1. PICK answer \in Answers :
        /\ MoveTo(e, [g EXCEPT !.at = "storing", !.clusters = answer])
        /\ omitted' = [omitted EXCEPT ![e] = Asked(g) \ UNION {k.members : k \in answer}]
  BY DEF Ask
<1> DEFINE h == [g EXCEPT !.at = "storing", !.clusters = answer]
<1>2. UNCHANGED <<intakeVars, canonicals, aliases, review, dispatched, attempt>>
      /\ g.at = "asking" /\ g \in Handlers /\ omitted \in [Events -> SUBSET Aliases]
  BY DEF Ask, TypeOK
<1>3. /\ h.at = "storing" /\ h.todo = g.todo /\ h.strong = g.strong /\ h.held = g.held
      /\ h.left = g.left /\ h.clusters = answer /\ h.ids = g.ids
  BY <1>2 DEF Handlers
<1>4. resolving'[e] = h /\ Others(e)
  BY <1>1, Moved
<1> HIDE DEF h
<1>5. omitted'[e] = Asked(g) \ UNION {k.members : k \in answer} /\ \A f \in Events \ {e} : omitted'[f] = omitted[f]
  BY <1>1, <1>2
<1> QED
  BY <1>2, <1>3, <1>4, <1>5

LEMMA UpsertShape ==
  ASSUME TypeOK, Locals, NEW e \in Events, UpsertCluster(e)
  PROVE  /\ Others(e) /\ UNCHANGED <<intakeVars, review, dispatched, attempt, omitted>>
         /\ resolving[e].at = "storing" /\ resolving'[e].at = "mirroring"
         /\ resolving'[e].todo = resolving[e].todo /\ resolving'[e].strong = resolving[e].strong
         /\ resolving'[e].held = resolving[e].held /\ resolving'[e].left = resolving[e].left
         /\ resolving'[e].ids = resolving[e].ids \union {Len(canonicals) + 1}
         /\ Len(canonicals') = Len(canonicals) + 1
         /\ \A c \in 1..Len(canonicals) : canonicals'[c] = canonicals[c]
         /\ \E k \in resolving[e].clusters :
              /\ resolving'[e].clusters = resolving[e].clusters \ {k}
              /\ canonicals'[Len(canonicals) + 1] = Canonical(e, k)
              /\ aliases' = aliases \union {<<Len(canonicals) + 1, a, e>> : a \in k.members}
              /\ \A m \in Canonical(e, k).seen : m \in Nat /\ <<k.display, m>> \in resolving[e].left
<1> DEFINE g == resolving[e]
           n == Len(canonicals) + 1
<1>1. PICK k \in g.clusters :
        /\ canonicals' = Append(canonicals, Canonical(e, k))
        /\ aliases' = aliases \union {<<n, a, e>> : a \in k.members}
        /\ MoveTo(e, [g EXCEPT !.at = "mirroring", !.clusters = @ \ {k}, !.ids = @ \union {n}])
  BY DEF UpsertCluster
<1>2. /\ Canonical(e, k) \in Canonicals
      /\ \A m \in Canonical(e, k).seen : m \in Nat /\ <<k.display, m>> \in g.left
  BY CanonicalTyped
<1>3. Len(canonicals') = n /\ canonicals'[n] = Canonical(e, k)
      /\ \A c \in 1..Len(canonicals) : canonicals'[c] = canonicals[c]
  BY <1>1, <1>2, Appended
<1> DEFINE h == [g EXCEPT !.at = "mirroring", !.clusters = @ \ {k}, !.ids = @ \union {n}]
<1>4. UNCHANGED <<intakeVars, review, dispatched, attempt, omitted>> /\ g.at = "storing" /\ g \in Handlers
  BY DEF UpsertCluster, TypeOK
<1>5. /\ h.at = "mirroring" /\ h.todo = g.todo /\ h.strong = g.strong /\ h.held = g.held /\ h.left = g.left
      /\ h.clusters = g.clusters \ {k} /\ h.ids = g.ids \union {n}
  BY <1>4 DEF Handlers
<1>6. resolving'[e] = h /\ Others(e)
  BY <1>1, Moved
<1> HIDE DEF h
<1> QED
  BY <1>1, <1>2, <1>3, <1>4, <1>5, <1>6

LEMMA MirrorShape ==
  ASSUME TypeOK, NEW e \in Events, Mirror(e)
  PROVE  /\ Others(e) /\ UNCHANGED <<intakeVars, aliases, review, dispatched, attempt, omitted>>
         /\ resolving[e].at = "mirroring" /\ resolving'[e].at = "storing"
         /\ resolving'[e].todo = resolving[e].todo /\ resolving'[e].strong = resolving[e].strong
         /\ resolving'[e].held = resolving[e].held /\ resolving'[e].left = resolving[e].left
         /\ resolving'[e].clusters = resolving[e].clusters /\ resolving'[e].ids = resolving[e].ids
<1> DEFINE g == resolving[e]
           h == [g EXCEPT !.at = "storing"]
<1>1. MoveTo(e, h) /\ UNCHANGED <<intakeVars, aliases, review, dispatched, attempt, omitted>>
      /\ g.at = "mirroring" /\ g \in Handlers
  BY DEF Mirror, TypeOK
<1>2. /\ h.at = "storing" /\ h.todo = g.todo /\ h.strong = g.strong /\ h.held = g.held
      /\ h.left = g.left /\ h.clusters = g.clusters /\ h.ids = g.ids
  BY <1>1 DEF Handlers
<1> HIDE DEF h
<1> QED
  BY <1>1, <1>2, Moved

LEMMA StoredShape ==
  ASSUME TypeOK, NEW e \in Events, Stored(e)
  PROVE  /\ Others(e) /\ UNCHANGED <<intakeVars, canonicals, aliases, review, dispatched, attempt, omitted>>
         /\ resolving[e].at = "storing" /\ resolving[e].clusters = {} /\ resolving'[e].at = "dispatching"
         /\ resolving'[e].todo = resolving[e].todo /\ resolving'[e].strong = resolving[e].strong
         /\ resolving'[e].held = resolving[e].held /\ resolving'[e].left = resolving[e].left
         /\ resolving'[e].clusters = {} /\ resolving'[e].ids = resolving[e].ids
<1> DEFINE g == resolving[e]
           h == [g EXCEPT !.at = "dispatching"]
<1>1. MoveTo(e, h) /\ UNCHANGED <<intakeVars, canonicals, aliases, review, dispatched, attempt, omitted>>
      /\ g.at = "storing" /\ g.clusters = {} /\ g \in Handlers
  BY DEF Stored, TypeOK
<1>2. /\ h.at = "dispatching" /\ h.todo = g.todo /\ h.strong = g.strong /\ h.held = g.held
      /\ h.left = g.left /\ h.clusters = g.clusters /\ h.ids = g.ids
  BY <1>1 DEF Handlers
<1> HIDE DEF h
<1> QED
  BY <1>1, <1>2, Moved

LEMMA DispatchShape ==
  ASSUME TypeOK, NEW e \in Events, DispatchPattern(e)
  PROVE  /\ Others(e) /\ UNCHANGED <<intakeVars, canonicals, aliases, review, attempt, omitted>>
         /\ resolving[e].at = "dispatching" /\ resolving'[e].at = "dispatching"
         /\ resolving'[e].todo = resolving[e].todo /\ resolving'[e].strong = resolving[e].strong
         /\ resolving'[e].held = resolving[e].held /\ resolving'[e].left = resolving[e].left
         /\ resolving'[e].clusters = resolving[e].clusters
         /\ \E c \in resolving[e].ids : /\ dispatched' = dispatched \union {<<e, c>>}
                                        /\ resolving'[e].ids = resolving[e].ids \ {c}
<1> DEFINE g == resolving[e]
<1>1. PICK c \in g.ids : /\ dispatched' = dispatched \union {<<e, c>>}
                         /\ MoveTo(e, [g EXCEPT !.ids = @ \ {c}])
  BY DEF DispatchPattern
<1> DEFINE h == [g EXCEPT !.ids = @ \ {c}]
<1>2. UNCHANGED <<intakeVars, canonicals, aliases, review, attempt, omitted>>
      /\ g.at = "dispatching" /\ g \in Handlers
  BY DEF DispatchPattern, TypeOK
<1>3. /\ h.at = g.at /\ h.todo = g.todo /\ h.strong = g.strong /\ h.held = g.held /\ h.left = g.left
      /\ h.clusters = g.clusters /\ h.ids = g.ids \ {c}
  BY <1>2 DEF Handlers
<1>4. resolving'[e] = h /\ Others(e)
  BY <1>1, Moved
<1> HIDE DEF h
<1> QED
  BY <1>1, <1>2, <1>3, <1>4

(* A handler that ends, whatever the reason. *)
Ended(e) ==
  /\ resolving'[e].todo = {} /\ resolving'[e].strong = {} /\ resolving'[e].held = {}
  /\ resolving'[e].left = {} /\ resolving'[e].clusters = {} /\ resolving'[e].ids = {}

LEMMA AcknowledgeShape ==
  ASSUME TypeOK, NEW e \in Events, Acknowledge(e)
  PROVE  /\ Others(e) /\ UNCHANGED <<intakeVars, canonicals, aliases, review, dispatched, attempt, omitted>>
         /\ resolving[e].at = "dispatching" /\ resolving[e].ids = {}
         /\ resolving'[e].at = "acked" /\ Ended(e)
<1>1. MoveTo(e, Handler("acked")) /\ resolving[e].at = "dispatching" /\ resolving[e].ids = {}
      /\ UNCHANGED <<intakeVars, canonicals, aliases, review, dispatched, attempt, omitted>>
  BY DEF Acknowledge
<1> QED
  BY <1>1, Moved DEF Ended, Handler

LEMMA FailShape ==
  ASSUME TypeOK, NEW e \in Events, ResolutionFails(e)
  PROVE  /\ Others(e) /\ UNCHANGED <<extractorVars, documentVars, canonicals, aliases, review, dispatched, omitted>>
         /\ resolving[e].at \in Running /\ resolving'[e].at = "waiting" /\ Ended(e)
         /\ attempt'[e] = attempt[e] + 1 /\ \A f \in Events \ {e} : attempt'[f] = attempt[f]
<1>1. /\ MoveTo(e, Handler("waiting")) /\ resolving[e].at \in Running
      /\ UNCHANGED <<extractorVars, documentVars, canonicals, aliases, review, dispatched, omitted>>
      /\ attempt' = [attempt EXCEPT ![e] = @ + 1]
  BY DEF ResolutionFails
<1>2. attempt'[e] = attempt[e] + 1 /\ \A f \in Events \ {e} : attempt'[f] = attempt[f]
  BY <1>1 DEF TypeOK
<1> QED
  BY <1>1, <1>2, Moved DEF Ended, Handler

LEMMA CrashShape ==
  ASSUME TypeOK, EntityCrash
  PROVE  /\ UNCHANGED <<extractorVars, documentVars, canonicals, aliases, review, dispatched, attempt, omitted>>
         /\ \A e \in Events : \/ resolving'[e] = resolving[e] /\ resolving[e].at \notin Running
                              \/ resolving[e].at \in Running /\ resolving'[e].at = "unhandled" /\ Ended(e)
<1>1. /\ UNCHANGED <<extractorVars, documentVars, canonicals, aliases, review, dispatched, attempt, omitted>>
      /\ resolving' = [e \in Events |->
           IF resolving[e].at \in Running THEN Handler("unhandled") ELSE resolving[e]]
  BY DEF EntityCrash
<1>2. ASSUME NEW e \in Events
      PROVE  \/ resolving'[e] = resolving[e] /\ resolving[e].at \notin Running
             \/ resolving[e].at \in Running /\ resolving'[e].at = "unhandled" /\ Ended(e)
  BY <1>1 DEF Ended, Handler
<1> QED
  BY <1>1, <1>2

-----------------------------------------------------------------------------
(* Names on their way: what is found, sent and looked up is what the event *)
(* names, and an envelope that is sent stays as it is.                     *)
Found(e) == found[e] \subseteq AliasesOf[e] /\ sent[e].aliases \subseteq AliasesOf[e]
Closed(e) == sent[e].there = "yes" => extraction[e] \in {"acked", "dead"}
Taken(e) == resolving[e].at # "waiting" => sent[e].there = "yes"
Kept(e) == sent[e].there = "yes" => sent'[e] = sent[e]
Envelopes == \A e \in Events : Found(e) /\ Closed(e) /\ Taken(e)

LEMMA IntakeEnvelopes ==
  ASSUME IntakeTypeOK, IntakeNext, Envelopes, NEW f \in Events
  PROVE  Found(f)' /\ Closed(f)' /\ Kept(f)
<1> USE IntakeAssumption
<1>1. Found(f) /\ Closed(f)
  BY DEF Envelopes
<1>2. CASE UNCHANGED extractorVars
  BY <1>1, <1>2 DEF extractorVars, Found, Closed, Kept
<1>3. CASE \E e \in Events : Extract(e)
  <2>1. PICK e \in Events : Extract(e)
    BY <1>3
  <2>2. extraction[e] = "waiting" /\ UNCHANGED sent
        /\ found' \in {[found EXCEPT ![e] = AliasesOf[e]], [found EXCEPT ![e] = {}]}
        /\ \A d \in Events \ {e} : extraction'[d] = extraction[d]
    BY <2>1 DEF Extract, IntakeTypeOK
  <2> QED
    BY <1>1, <2>2 DEF Found, Closed, Kept, IntakeTypeOK
<1>4. CASE \E e \in Events : MergeFields(e)
  <2>1. PICK e \in Events : MergeFields(e)
    BY <1>4
  <2>2. extraction[e] = "merging" /\ UNCHANGED <<sent, found>>
        /\ \A d \in Events \ {e} : extraction'[d] = extraction[d]
    BY <2>1 DEF MergeFields, IntakeTypeOK
  <2> QED
    BY <1>1, <2>2 DEF Found, Closed, Kept
<1>5. CASE \E e \in Events : PublishAliases(e)
  <2>1. PICK e \in Events : PublishAliases(e)
    BY <1>5
  <2>2. /\ extraction[e] = "publishing" /\ UNCHANGED found /\ extraction'[e] = "acked"
        /\ sent'[e] = Envelope(found[e]) /\ \A d \in Events \ {e} : sent'[d] = sent[d]
        /\ \A d \in Events \ {e} : extraction'[d] = extraction[d]
    BY <2>1 DEF PublishAliases, IntakeTypeOK
  <2> QED
    BY <1>1, <2>2 DEF Found, Closed, Kept, Envelope, Envelopes
<1>6. CASE \E e \in Events : ExtractionFails(e)
  <2>1. PICK e \in Events : ExtractionFails(e)
    BY <1>6
  <2>2. /\ UNCHANGED found /\ \A d \in Events \ {e} : sent'[d] = sent[d]
        /\ \A d \in Events \ {e} : extraction'[d] = extraction[d]
        /\ \/ extraction[e] = "merging" /\ UNCHANGED sent
           \/ extraction[e] = "publishing" /\ extraction'[e] = "dead"
              /\ (sent'[e] = sent[e] \/ sent'[e] = Envelope(found[e]))
    BY <2>1 DEF ExtractionFails, IntakeTypeOK
  <2> QED
    BY <1>1, <2>2 DEF Found, Closed, Kept, Envelope, Envelopes
<1>7. CASE ExtractorCrash
  BY <1>1, <1>7 DEF ExtractorCrash, Extracting, Found, Closed, Kept, IntakeTypeOK
<1> QED
  BY <1>2, <1>3, <1>4, <1>5, <1>6, <1>7
  DEF IntakeNext, Download, StoreDocument, MergeMetadata, Announce, DocumentFails, DocumentCrash

LEMMA EnvelopesStep ==
  ASSUME TypeOK, Locals, Envelopes, [Next]_vars
  PROVE  Envelopes' /\ \A e \in Events : Kept(e)
<1>1. CASE IntakeNext /\ UNCHANGED entityVars
  BY <1>1, IntakeEnvelopes DEF TypeOK, Envelopes, Taken, Kept, entityVars
<1>2. CASE UNCHANGED extractorVars
  <2>1. ASSUME NEW f \in Events
        PROVE  Taken(f)'
    <3>1. CASE UNCHANGED resolving
      BY <1>2, <3>1 DEF Envelopes, Taken, extractorVars
    <3>2. CASE \E e \in Events : Take(e)
      BY <1>2, <3>2, TakeShape DEF Others, Envelopes, Taken, extractorVars
    <3>3. CASE EntityCrash
      BY <1>2, <3>3, CrashShape DEF Envelopes, Taken, Running, extractorVars
    <3>4. CASE \E e \in Events : LookUp(e) \/ Corroborate(e) \/ Written(e) \/ Stored(e)
      BY <1>2, <3>4, LookUpShape, CorroborateShape, WrittenShape, StoredShape
      DEF Others, Envelopes, Taken, extractorVars
    <3>5. CASE \E e \in Events : Attach(e) \/ Hold(e) \/ Ask(e) \/ Mirror(e)
      BY <1>2, <3>5, AttachShape, HoldShape, AskShape, MirrorShape
      DEF Others, Envelopes, Taken, extractorVars
    <3>6. CASE \E e \in Events : UpsertCluster(e) \/ DispatchPattern(e) \/ Acknowledge(e) \/ ResolutionFails(e)
      BY <1>2, <3>6, UpsertShape, DispatchShape, AcknowledgeShape, FailShape
      DEF Others, Envelopes, Taken, extractorVars
    <3>7. CASE IntakeNext /\ UNCHANGED entityVars
      BY <3>1, <3>7 DEF entityVars
    <3> QED
      BY <3>1, <3>2, <3>3, <3>4, <3>5, <3>6, <3>7 DEF Next, EntityNext, vars, entityVars
  <2>2. Envelopes'
    BY <1>2, <2>1 DEF Envelopes, Found, Closed, extractorVars
  <2> QED
    BY <1>2, <2>2 DEF Kept, extractorVars
<1>3. CASE ~(IntakeNext /\ UNCHANGED entityVars)
  <2>1. UNCHANGED extractorVars
    BY <1>3 DEF Next, EntityNext, vars, intakeVars, Take, LookUp, Corroborate, Attach, Hold, Written, Ask,
                UpsertCluster, Mirror, Stored, DispatchPattern, Acknowledge, ResolutionFails, EntityCrash
  <2> QED
    BY <1>2, <2>1
<1> QED
  BY <1>1, <1>3

LEMMA EnvelopesInit == Init => Envelopes
  BY DEF Init, IntakeInit, Nothing, Handler, Envelopes, Found, Closed, Taken

-----------------------------------------------------------------------------
(* What a handler of e may write to, when nobody else changes: the step is *)
(* a handler's or the crash.                                               *)
StepOf(e) ==
  \/ Take(e) \/ LookUp(e) \/ Corroborate(e) \/ Attach(e) \/ Hold(e) \/ Written(e) \/ Ask(e)
  \/ UpsertCluster(e) \/ Mirror(e) \/ Stored(e) \/ DispatchPattern(e) \/ Acknowledge(e)
  \/ ResolutionFails(e)

Quiet == UNCHANGED entityVars

LEMMA StepCases ==
  ASSUME [Next]_vars
  PROVE  Quiet \/ (\E e \in Events : StepOf(e)) \/ EntityCrash
  BY DEF Next, EntityNext, StepOf, Quiet, vars

LEMMA OneMoves ==
  ASSUME TypeOK, Locals, NEW e \in Events, StepOf(e)
  PROVE  Others(e)
  BY TakeShape, LookUpShape, CorroborateShape, AttachShape, HoldShape, WrittenShape, AskShape,
     UpsertShape, MirrorShape, StoredShape, DispatchShape, AcknowledgeShape, FailShape DEF StepOf

-----------------------------------------------------------------------------
(* No merge by name.                                                       *)
Entitled(e, c) == \E a \in AliasesOf[e] :
                    RegistrationOf[a] # Unregistered /\ RegistrationOf[a] = canonicals[c].registration

Matched(e) ==
  /\ resolving[e].todo \subseteq AliasesOf[e]
  /\ \A m \in resolving[e].strong : Entitled(e, m[2])

Rows(m) == m[1] \in 1..Len(canonicals)

Earned(m) == m[3] \in canonicals[m[1]].by \/ Entitled(m[3], m[1])

ByRegistration ==
  /\ \A e \in Events : Matched(e)
  /\ \A m \in aliases : Rows(m) /\ Earned(m)

LEMMA EntitledKept ==
  ASSUME TypeOK, Locals, [Next]_vars, NEW e \in Events, NEW c \in 1..Len(canonicals), Entitled(e, c)
  PROVE  Entitled(e, c)' /\ c \in 1..Len(canonicals')
  BY RowsKept DEF Entitled, SameRow

LEMMA MatchedStep ==
  ASSUME TypeOK, Locals, Envelopes, [Next]_vars, NEW e \in Events, Matched(e), StepOf(e)
  PROVE  Matched(e)'
<1> DEFINE g == resolving[e]
           n == Len(canonicals)
<1>1. \A m \in g.strong : m[2] \in 1..n
  BY DEF Locals, Sound, Fits
<1>2. \A c \in 1..n : Entitled(e, c) => Entitled(e, c)'
  BY EntitledKept
<1>3. \A m \in g.strong : Entitled(e, m[2])'
  BY <1>1, <1>2 DEF Matched
<1>4. g.todo \subseteq AliasesOf[e]
  BY DEF Matched
<1>5. CASE Take(e)
  BY <1>5, TakeShape DEF Matched, Envelopes, Found
<1>6. CASE LookUp(e)
  <2>1. PICK a \in g.todo :
          /\ resolving'[e].todo = g.todo \ {a}
          /\ \/ resolving'[e].strong = g.strong
             \/ \E c \in Registered(a) : resolving'[e].strong = g.strong \union {<<a, c>>}
    BY <1>6, LookUpShape
  <2>2. \A c \in Registered(a) : Entitled(e, c)'
    BY <1>2, <1>4 DEF Registered, Entitled
  <2> QED
    BY <1>3, <1>4, <2>1, <2>2 DEF Matched
<1>7. CASE Corroborate(e)
  <2>1. \A m \in Corroborated(g) : Entitled(e, m[2])'
    BY <1>3 DEF Corroborated
  <2> QED
    BY <1>3, <1>4, <1>7, <2>1, CorroborateShape DEF Matched
<1>8. CASE Attach(e) \/ Hold(e) \/ Written(e)
  BY <1>3, <1>4, <1>8, AttachShape, HoldShape, WrittenShape DEF Matched
<1>9. CASE Ask(e) \/ UpsertCluster(e) \/ Mirror(e) \/ Stored(e) \/ DispatchPattern(e)
  BY <1>3, <1>4, <1>9, AskShape, UpsertShape, MirrorShape, StoredShape, DispatchShape DEF Matched
<1>10. CASE Acknowledge(e) \/ ResolutionFails(e)
  BY <1>10, AcknowledgeShape, FailShape DEF Ended, Matched
<1> QED
  BY <1>5, <1>6, <1>7, <1>8, <1>9, <1>10 DEF StepOf

LEMMA ByRegistrationStep ==
  ASSUME TypeOK, Locals, Envelopes, ByRegistration, [Next]_vars
  PROVE  ByRegistration'
<1>1. \A e \in Events : \A c \in 1..Len(canonicals) : Entitled(e, c) => Entitled(e, c)'
  BY EntitledKept
<1>2. /\ Len(canonicals) \in Nat /\ Len(canonicals') \in Nat /\ Len(canonicals) <= Len(canonicals')
      /\ \A c \in 1..Len(canonicals) : SameRow(c)
  BY RowsKept
<1>3. ASSUME NEW e \in Events, resolving'[e] = resolving[e]
      PROVE  Matched(e)'
  <2>1. \A m \in resolving[e].strong : m[2] \in 1..Len(canonicals)
    BY DEF Locals, Sound, Fits
  <2> QED
    BY <1>1, <1>3, <2>1 DEF ByRegistration, Matched
<1>4. ASSUME NEW e \in Events
      PROVE  Matched(e)'
  <2>1. CASE Quiet
    BY <1>3, <2>1 DEF Quiet, entityVars
  <2>2. CASE \E f \in Events : StepOf(f)
    BY <1>3, <2>2, OneMoves, MatchedStep DEF Others, ByRegistration
  <2>3. CASE EntityCrash
    BY <1>3, <2>3, CrashShape DEF Ended, Matched
  <2> QED
    BY <2>1, <2>2, <2>3, StepCases
<1>5. ASSUME NEW m \in aliases
      PROVE  Rows(m)' /\ Earned(m)'
  <2>1. Rows(m) /\ Earned(m) /\ m[3] \in Events
    BY DEF ByRegistration, TypeOK
  <2>2. Rows(m)' /\ SameRow(m[1])
    BY <1>2, <2>1 DEF Rows
  <2> QED
    BY <1>1, <2>1, <2>2 DEF Earned, Rows, SameRow
<1>6. ASSUME NEW m \in aliases' \ aliases
      PROVE  Rows(m)' /\ Earned(m)'
  <2>1. CASE \E e \in Events : Attach(e)
    <3>1. PICK e \in Events : Attach(e)
      BY <2>1
    <3>2. PICK x \in resolving[e].strong : m = <<x[2], x[1], e>>
      BY <3>1, AttachShape
    <3>3. x[2] \in 1..Len(canonicals) /\ Entitled(e, x[2])
      BY <3>2 DEF Locals, Sound, Fits, ByRegistration, Matched
    <3>4. Entitled(e, x[2])' /\ x[2] \in 1..Len(canonicals')
      BY <1>1, <1>2, <3>3
    <3> QED
      BY <3>2, <3>4 DEF Rows, Earned
  <2>2. CASE \E e \in Events : UpsertCluster(e)
    <3>1. PICK e \in Events : UpsertCluster(e)
      BY <2>2
    <3>2. PICK k \in resolving[e].clusters :
            /\ Len(canonicals') = Len(canonicals) + 1
            /\ canonicals'[Len(canonicals) + 1] = Canonical(e, k)
            /\ aliases' = aliases \union {<<Len(canonicals) + 1, a, e>> : a \in k.members}
      BY <3>1, UpsertShape
    <3>3. m[1] = Len(canonicals') /\ m[3] = e /\ canonicals'[Len(canonicals')].by = {e}
      BY <3>2 DEF Canonical
    <3>4. Len(canonicals') \in 1..Len(canonicals')
      BY <1>2, <3>2
    <3> QED
      BY <3>3, <3>4 DEF Rows, Earned
  <2>3. CASE UNCHANGED aliases
    BY <2>3
  <2> QED
    BY <2>1, <2>2, <2>3, StepCases
    DEF Quiet, entityVars, StepOf, Take, LookUp, Corroborate, Hold, Written, Ask, Mirror, Stored,
        DispatchPattern, Acknowledge, ResolutionFails, EntityCrash
<1> QED
  BY <1>4, <1>5, <1>6 DEF ByRegistration

(* An alias that an event gives a canonical of another event it gives on   *)
(* the strength of the canonical's own registration, for any set of names, *)
(* whatever the interleaving, and whatever the model has answered.         *)
THEOREM MergeCorrect == Spec => []NoMergeByName
<1> DEFINE IInv == TypeOK /\ Locals /\ Envelopes /\ ByRegistration
<1>1. Init => IInv
  <2>1. Init => ByRegistration
    BY DEF Init, ByRegistration, Matched, Handler
  <2> QED
    BY <2>1, EntityInit, EnvelopesInit
<1>2. IInv /\ [Next]_vars => IInv'
  BY TypeStep, EnvelopesStep, ByRegistrationStep
<1>3. IInv => NoMergeByName
  BY DEF ByRegistration, Earned, Entitled, NoMergeByName
<1> QED
  BY <1>1, <1>2, <1>3, PTL DEF Spec

-----------------------------------------------------------------------------
(* Twins.  Of the rows its lookup has seen, none has the name that is left *)
(* for the model.                                                          *)
Namesake(c, name) == canonicals[c].display \in Foldable /\ NameOf[canonicals[c].display] = NameOf[name]

NoneSeen(e) == \A l \in resolving[e].left : \A c \in 1..Len(canonicals) : c <= l[2] => ~Namesake(c, l[1])

Unseen == \A e \in Events : NoneSeen(e)

LEMMA UnseenStep ==
  ASSUME TypeOK, Locals, Unseen, [Next]_vars
  PROVE  Unseen'
<1>1. /\ Len(canonicals) \in Nat /\ Len(canonicals') \in Nat /\ Len(canonicals) <= Len(canonicals')
      /\ \A c \in 1..Len(canonicals) : SameRow(c)
  BY RowsKept
<1>2. ASSUME NEW e \in Events, NEW l \in resolving[e].left, NEW c \in 1..Len(canonicals'), c <= l[2]
      PROVE  ~Namesake(c, l[1])'
  <2>1. l[2] \in Nat /\ l[2] <= Len(canonicals)
    BY DEF Locals, Sound, Fits, TypeOK, Handlers
  <2>2. c \in 1..Len(canonicals)
    BY <1>1, <1>2, <2>1
  <2> QED
    BY <1>1, <1>2, <2>2 DEF Unseen, NoneSeen, Namesake, SameRow
<1>3. ASSUME NEW e \in Events, resolving'[e].left \subseteq resolving[e].left
      PROVE  NoneSeen(e)'
  BY <1>2, <1>3 DEF NoneSeen
<1>4. ASSUME NEW e \in Events, LookUp(e)
      PROVE  NoneSeen(e)'
  <2>1. PICK a \in resolving[e].todo :
          \/ resolving'[e].left = resolving[e].left
          \/ Namesakes(a) = {} /\ resolving'[e].left = resolving[e].left \union {<<a, Len(canonicals)>>}
    BY <1>4, LookUpShape
  <2>2. CASE Namesakes(a) = {} /\ resolving'[e].left = resolving[e].left \union {<<a, Len(canonicals)>>}
    <3>1. UNCHANGED canonicals
      BY <1>4 DEF LookUp
    <3>2. \A c \in 1..Len(canonicals) : ~Namesake(c, a)
      BY <2>2 DEF Namesakes, Namesake
    <3>3. \A c \in 1..Len(canonicals') : ~Namesake(c, a)'
      BY <3>1, <3>2 DEF Namesake
    <3> QED
      BY <1>2, <2>2, <3>3 DEF NoneSeen
  <2> QED
    BY <1>3, <2>1, <2>2
<1>5. ASSUME NEW e \in Events, StepOf(e)
      PROVE  NoneSeen(e)'
  <2>1. CASE LookUp(e)
    BY <1>4, <2>1
  <2>2. CASE Take(e) \/ Acknowledge(e) \/ ResolutionFails(e)
    BY <1>3, <2>2, TakeShape, AcknowledgeShape, FailShape DEF Ended
  <2>3. CASE Corroborate(e) \/ Attach(e) \/ Hold(e) \/ Written(e) \/ Ask(e)
    BY <1>3, <2>3, CorroborateShape, AttachShape, HoldShape, WrittenShape, AskShape
  <2>4. CASE UpsertCluster(e) \/ Mirror(e) \/ Stored(e) \/ DispatchPattern(e)
    BY <1>3, <2>4, UpsertShape, MirrorShape, StoredShape, DispatchShape
  <2> QED
    BY <1>5, <2>1, <2>2, <2>3, <2>4 DEF StepOf
<1>6. CASE Quiet
  BY <1>3, <1>6 DEF Quiet, entityVars, Unseen
<1>7. CASE \E e \in Events : StepOf(e)
  BY <1>3, <1>5, <1>7, OneMoves DEF Others, Unseen
<1>8. CASE EntityCrash
  BY <1>3, <1>8, CrashShape DEF Ended, Unseen
<1> QED
  BY <1>6, <1>7, <1>8, StepCases

LEMMA TwinsStep ==
  ASSUME TypeOK, Locals, Unseen, TwinsNeedOverlap, [Next]_vars
  PROVE  TwinsNeedOverlap'
<1>1. /\ Len(canonicals) \in Nat /\ Len(canonicals') \in Nat /\ Len(canonicals) <= Len(canonicals')
      /\ \A c \in 1..Len(canonicals) : SameRow(c)
  BY RowsKept
<1> DEFINE Twins(c, d) == /\ c < d /\ canonicals[d].by # {} /\ canonicals[c].display \in Foldable
                          /\ NameOf[canonicals[c].display] = NameOf[canonicals[d].display]
<1> SUFFICES ASSUME NEW c \in 1..Len(canonicals'), NEW d \in 1..Len(canonicals'), Twins(c, d)'
             PROVE  \A n \in canonicals'[d].seen : n < c
  BY DEF TwinsNeedOverlap
<1>2. CASE d \in 1..Len(canonicals)
  <2>1. c \in 1..Len(canonicals) /\ SameRow(c) /\ SameRow(d)
    BY <1>1, <1>2
  <2> QED
    BY <1>2, <2>1 DEF TwinsNeedOverlap, SameRow
<1>3. CASE \E e \in Events : UpsertCluster(e) /\ d \notin 1..Len(canonicals)
  <2>1. PICK e \in Events : UpsertCluster(e)
    BY <1>3
  <2>2. PICK k \in resolving[e].clusters :
          /\ Len(canonicals') = Len(canonicals) + 1
          /\ canonicals'[Len(canonicals) + 1] = Canonical(e, k)
          /\ \A m \in Canonical(e, k).seen : m \in Nat /\ <<k.display, m>> \in resolving[e].left
    BY <2>1, UpsertShape
  <2>3. d = Len(canonicals) + 1 /\ c \in 1..Len(canonicals)
    BY <1>1, <1>3, <2>2
  <2>4. canonicals'[d].display = k.display /\ canonicals'[d].seen = Canonical(e, k).seen
    BY <2>2, <2>3 DEF Canonical
  <2>5. Namesake(c, k.display)
    BY <1>1, <2>3, <2>4 DEF Namesake, SameRow
  <2>6. ASSUME NEW n \in canonicals'[d].seen
        PROVE  n < c
    <3>1. n \in Nat /\ <<k.display, n>> \in resolving[e].left
      BY <2>2, <2>4
    <3>2. ~(c <= n)
      BY <2>3, <2>5, <3>1 DEF Unseen, NoneSeen
    <3> QED
      BY <2>3, <3>1, <3>2
  <2> QED
    BY <2>6
<1>4. CASE ~\E e \in Events : UpsertCluster(e)
  <2>1. Len(canonicals') = Len(canonicals)
    <3>1. CASE \E e \in Events : Mirror(e)
      BY <3>1, MirrorRows
    <3>2. CASE UNCHANGED canonicals
      BY <3>2
    <3> QED
      BY <1>4, <3>1, <3>2, StepCases
      DEF Quiet, entityVars, StepOf, Take, LookUp, Corroborate, Attach, Hold, Written, Ask, Stored,
          DispatchPattern, Acknowledge, ResolutionFails, EntityCrash
  <2> QED
    BY <1>2, <2>1
<1> QED
  BY <1>2, <1>3, <1>4

(* Two canonicals of one foldable name come of overlapping handlers, of    *)
(* one answer of the model, or of a name it was not asked about.           *)
THEOREM TwinsCorrect == Spec => []TwinsNeedOverlap
<1> DEFINE IInv == TypeOK /\ Locals /\ Unseen /\ TwinsNeedOverlap
<1>1. Init => IInv
  <2> SUFFICES ASSUME Init
               PROVE  Unseen /\ TwinsNeedOverlap
    BY EntityInit
  <2>1. DOMAIN Seeds = 1..Len(Seeds)
    BY EntityAssumption
  <2>2. \A d \in 1..Len(canonicals) : canonicals[d].by = {}
    BY <2>1 DEF Init
  <2> QED
    BY <2>2 DEF Init, Unseen, NoneSeen, Handler, TwinsNeedOverlap
<1>2. IInv /\ [Next]_vars => IInv'
  BY TypeStep, UnseenStep, TwinsStep
<1> QED
  BY <1>1, <1>2, PTL DEF Spec

-----------------------------------------------------------------------------
(* What a step adds it does not take away.                                 *)
LEMMA Grows ==
  ASSUME [Next]_vars
  PROVE  aliases \subseteq aliases' /\ review \subseteq review' /\ dispatched \subseteq dispatched'
<1>1. CASE \E e \in Events : Attach(e) \/ Hold(e) \/ UpsertCluster(e) \/ DispatchPattern(e)
  BY <1>1 DEF Attach, Hold, UpsertCluster, DispatchPattern
<1>2. CASE UNCHANGED <<aliases, review, dispatched>>
  BY <1>2
<1> QED
  BY <1>1, <1>2, StepCases
  DEF Quiet, entityVars, StepOf, Take, LookUp, Corroborate, Written, Ask, Mirror, Stored,
      Acknowledge, ResolutionFails, EntityCrash

(* A row that is new. *)
LEMMA NewRow ==
  ASSUME TypeOK, Locals, [Next]_vars, NEW c \in 1..Len(canonicals'), c \notin 1..Len(canonicals)
  PROVE  \E e \in Events : /\ canonicals'[c].by = {e} /\ canonicals'[c].attempt = attempt'[e]
                           /\ c \in resolving'[e].ids
<1>1. CASE \E e \in Events : UpsertCluster(e)
  <2>1. PICK e \in Events : UpsertCluster(e)
    BY <1>1
  <2>2. PICK k \in resolving[e].clusters :
          /\ Len(canonicals') = Len(canonicals) + 1 /\ UNCHANGED attempt
          /\ canonicals'[Len(canonicals) + 1] = Canonical(e, k)
          /\ resolving'[e].ids = resolving[e].ids \union {Len(canonicals) + 1}
    BY <2>1, UpsertShape
  <2>3. c = Len(canonicals) + 1
    BY <2>2, SomeCanonicals
  <2>4. Canonical(e, k).by = {e} /\ Canonical(e, k).attempt = attempt[e]
    BY DEF Canonical
  <2> QED
    BY <2>2, <2>3, <2>4
<1>2. CASE Len(canonicals') = Len(canonicals)
  BY <1>2
<1>3. CASE ~\E e \in Events : UpsertCluster(e)
  <2>1. CASE \E e \in Events : Mirror(e)
    BY <1>2, <2>1, MirrorRows
  <2>2. CASE UNCHANGED canonicals
    BY <1>2, <2>2
  <2> QED
    BY <1>3, <2>1, <2>2, StepCases
    DEF Quiet, entityVars, StepOf, Take, LookUp, Corroborate, Attach, Hold, Written, Ask, Stored,
        DispatchPattern, Acknowledge, ResolutionFails, EntityCrash
<1> QED
  BY <1>1, <1>3

-----------------------------------------------------------------------------
(* What is stored is dispatched.                                           *)
InHand(c, e) == \/ <<e, c>> \in dispatched \/ c \in resolving[e].ids
                \/ canonicals[c].attempt < attempt[e] \/ resolving[e].at = "unhandled"

Attempted == \A c \in 1..Len(canonicals) : \A e \in canonicals[c].by : canonicals[c].attempt <= attempt[e]

LEMMA InHandStep ==
  ASSUME TypeOK, Locals, NEW e \in Events, NEW c \in 1..Len(canonicals), SameRow(c),
         canonicals[c].attempt <= attempt[e], StepOf(e), InHand(c, e)
  PROVE  InHand(c, e)' /\ attempt[e] <= attempt'[e]
<1>1. attempt[e] \in Nat /\ canonicals[c].attempt \in Nat
  BY SomeCanonicals DEF TypeOK, Canonicals
<1>2. resolving[e].at \notin Running => resolving[e].ids = {}
  BY DEF Locals, Sound, Fits
<1>3. CASE Take(e)
  BY <1>1, <1>2, <1>3, TakeShape DEF InHand, SameRow, Running
<1>4. CASE ResolutionFails(e)
  BY <1>1, <1>4, FailShape DEF InHand, SameRow
<1>5. CASE Attach(e) \/ Hold(e) \/ Written(e) \/ Ask(e) \/ LookUp(e) \/ Corroborate(e)
  BY <1>1, <1>5, LookUpShape, CorroborateShape, AttachShape, HoldShape, WrittenShape, AskShape
  DEF InHand, SameRow
<1>6. CASE UpsertCluster(e) \/ Mirror(e) \/ Stored(e)
  BY <1>1, <1>6, UpsertShape, MirrorShape, StoredShape DEF InHand, SameRow
<1>7. CASE DispatchPattern(e) \/ Acknowledge(e)
  BY <1>1, <1>7, DispatchShape, AcknowledgeShape DEF InHand, SameRow
<1> QED
  BY <1>1, <1>3, <1>4, <1>5, <1>6, <1>7 DEF StepOf

LEMMA DispatchedStep ==
  ASSUME TypeOK, Locals, Attempted, StoredIsDispatched, [Next]_vars
  PROVE  Attempted' /\ StoredIsDispatched'
<1>1. /\ Len(canonicals) \in Nat /\ Len(canonicals') \in Nat /\ Len(canonicals) <= Len(canonicals')
      /\ \A c \in 1..Len(canonicals) : SameRow(c)
  BY RowsKept
<1> SUFFICES ASSUME NEW c \in 1..Len(canonicals'), NEW e \in canonicals'[c].by
             PROVE  canonicals'[c].attempt <= attempt'[e] /\ InHand(c, e)'
  BY DEF Attempted, StoredIsDispatched, InHand
<1>2. CASE c \notin 1..Len(canonicals)
  <2>1. PICK f \in Events : /\ canonicals'[c].by = {f} /\ canonicals'[c].attempt = attempt'[f]
                            /\ c \in resolving'[f].ids
    BY <1>2, NewRow
  <2>2. attempt'[f] \in Nat
    BY TypeStep DEF TypeOK
  <2> QED
    BY <2>1, <2>2 DEF InHand
<1>3. CASE c \in 1..Len(canonicals)
  <2>1. SameRow(c) /\ e \in canonicals[c].by /\ canonicals[c].by \subseteq Events
    BY <1>1, <1>3, SomeCanonicals DEF SameRow, Canonicals
  <2>2. canonicals[c].attempt <= attempt[e] /\ InHand(c, e)
    BY <1>3, <2>1 DEF Attempted, StoredIsDispatched, InHand
  <2>3. attempt[e] \in Nat /\ canonicals[c].attempt \in Nat /\ canonicals'[c].attempt = canonicals[c].attempt
    BY <1>3, <2>1, SomeCanonicals DEF TypeOK, Canonicals, SameRow
  <2>4. CASE StepOf(e)
    <3>1. InHand(c, e)' /\ attempt[e] <= attempt'[e]
      BY <1>3, <2>1, <2>2, <2>4, InHandStep
    <3>2. attempt'[e] \in Nat
      BY <2>1, TypeStep DEF TypeOK
    <3> QED
      BY <2>2, <2>3, <3>1, <3>2
  <2>5. CASE resolving'[e] = resolving[e] /\ attempt'[e] = attempt[e]
    BY <2>1, <2>2, <2>5, Grows DEF InHand, SameRow
  <2>6. CASE \E f \in Events : StepOf(f) /\ f # e
    <3>1. PICK f \in Events : StepOf(f) /\ f # e
      BY <2>6
    <3>2. resolving'[e] = resolving[e]
      BY <2>1, <3>1, OneMoves DEF Others
    <3>3. attempt'[e] = attempt[e]
      BY <2>1, <3>1, FailShape
      DEF StepOf, Take, LookUp, Corroborate, Attach, Hold, Written, Ask, UpsertCluster, Mirror, Stored,
          DispatchPattern, Acknowledge
    <3> QED
      BY <2>5, <3>2, <3>3
  <2>7. CASE Quiet
    BY <2>5, <2>7 DEF Quiet, entityVars
  <2>8. CASE EntityCrash
    BY <2>1, <2>2, <2>5, <2>8, CrashShape DEF InHand, SameRow
  <2> QED
    BY <2>4, <2>6, <2>7, <2>8, StepCases
<1> QED
  BY <1>2, <1>3

(* A canonical that the model has given is dispatched for its event, or    *)
(* the handler that stored it failed or died, for any number of handlers.  *)
THEOREM DispatchCorrect == Spec => []StoredIsDispatched
<1> DEFINE IInv == TypeOK /\ Locals /\ Attempted /\ StoredIsDispatched
<1>1. Init => IInv
  <2> SUFFICES ASSUME Init
               PROVE  Attempted /\ StoredIsDispatched
    BY EntityInit
  <2>1. DOMAIN Seeds = 1..Len(Seeds)
    BY EntityAssumption
  <2>2. \A d \in 1..Len(canonicals) : canonicals[d].by = {}
    BY <2>1 DEF Init
  <2> QED
    BY <2>2 DEF Attempted, StoredIsDispatched
<1>2. IInv /\ [Next]_vars => IInv'
  BY TypeStep, DispatchedStep
<1> QED
  BY <1>1, <1>2, PTL DEF Spec

-----------------------------------------------------------------------------
(* What is acknowledged is resolved: where a name is on its way, in the    *)
(* order in which a handler carries it.                                    *)
Given(e, a) == \E c \in 1..Len(canonicals) : <<c, a, e>> \in aliases
                 /\ (c \in resolving[e].ids \/ <<e, c>> \in dispatched)
Reviewed(e, a) == \E c \in 1..Len(canonicals) : <<c, a, e, attempt[e]>> \in review

OnItsWay(e, a) ==
  \/ a \in resolving[e].todo
  \/ \E m \in resolving[e].strong : m[1] = a
  \/ \E m \in resolving[e].held : m[1] = a
  \/ resolving[e].at \in {"looking", "writing", "asking"} /\ \E l \in resolving[e].left : l[1] = a
  \/ \E k \in resolving[e].clusters : a \in k.members
  \/ Given(e, a) \/ Reviewed(e, a)
  \/ resolving[e].at \in {"storing", "mirroring", "dispatching", "acked"} /\ a \in omitted[e]

(* The locals that are empty at each point. *)
Phase(e) ==
  /\ resolving[e].at # "looking" => resolving[e].todo = {}
  /\ resolving[e].at \notin {"looking", "writing"} => resolving[e].strong = {} /\ resolving[e].held = {}
  /\ resolving[e].at \notin {"storing", "mirroring"} => resolving[e].clusters = {}

Progress(e) ==
  /\ Phase(e)
  /\ resolving[e].at \in Running \union {"acked"} => \A a \in sent[e].aliases : OnItsWay(e, a)

LEMMA PhaseStep ==
  ASSUME TypeOK, Locals, NEW e \in Events, StepOf(e), Phase(e)
  PROVE  Phase(e)'
<1>1. CASE Take(e)
  BY <1>1, TakeShape DEF Phase
<1>2. CASE LookUp(e) \/ Corroborate(e)
  BY <1>2, LookUpShape, CorroborateShape DEF Phase
<1>3. CASE Attach(e) \/ Hold(e) \/ Written(e)
  BY <1>3, AttachShape, HoldShape, WrittenShape DEF Phase
<1>4. CASE Ask(e) \/ Mirror(e) \/ Stored(e)
  BY <1>4, AskShape, MirrorShape, StoredShape DEF Phase
<1>5. CASE UpsertCluster(e)
  BY <1>5, UpsertShape DEF Phase
<1>6. CASE DispatchPattern(e)
  BY <1>6, DispatchShape DEF Phase
<1>7. CASE Acknowledge(e) \/ ResolutionFails(e)
  BY <1>7, AcknowledgeShape, FailShape DEF Phase, Ended
<1> QED
  BY <1>1, <1>2, <1>3, <1>4, <1>5, <1>6, <1>7 DEF StepOf

(* What is given or held for review stays so while the handler runs. *)
LEMMA GivenKept ==
  ASSUME TypeOK, Locals, [Next]_vars, NEW e \in Events, NEW a,
         resolving[e].ids \subseteq resolving'[e].ids, attempt'[e] = attempt[e]
  PROVE  (Given(e, a) => Given(e, a)') /\ (Reviewed(e, a) => Reviewed(e, a)')
<1>1. 1..Len(canonicals) \subseteq 1..Len(canonicals')
  BY RowsKept
<1> QED
  BY <1>1, Grows DEF Given, Reviewed

LEMMA OnItsWayStep ==
  ASSUME TypeOK, Locals, [Next]_vars, NEW e \in Events, StepOf(e), Phase(e),
         resolving[e].at \in Running, resolving'[e].at \in Running \union {"acked"},
         NEW a, OnItsWay(e, a)
  PROVE  OnItsWay(e, a)'
<1> DEFINE g == resolving[e]
<1>1. ~Take(e) /\ ~ResolutionFails(e)
  BY TakeShape, FailShape DEF Running
<1>2. g.ids \subseteq 1..Len(canonicals) /\ \A m \in g.strong \union g.held : m[2] \in 1..Len(canonicals)
  BY DEF Locals, Sound, Fits
<1>3. \A m \in g.strong \union g.held : m = <<m[1], m[2]>>
  BY DEF TypeOK, Handlers
<1>4. 1..Len(canonicals) \subseteq 1..Len(canonicals')
  BY RowsKept
<1>5. CASE LookUp(e)
  <2>1. Given(e, a) => Given(e, a)'
    BY <1>5, GivenKept, LookUpShape
  <2>2. Reviewed(e, a) => Reviewed(e, a)'
    BY <1>5, GivenKept, LookUpShape
  <2>3. PICK b \in g.todo :
          /\ resolving'[e].todo = g.todo \ {b}
          /\ \/ /\ resolving'[e].held = g.held /\ resolving'[e].left = g.left
                /\ \E c \in Registered(b) : resolving'[e].strong = g.strong \union {<<b, c>>}
             \/ /\ resolving'[e].strong = g.strong /\ resolving'[e].left = g.left
                /\ \E c \in Namesakes(b) : resolving'[e].held = g.held \union {<<b, c>>}
             \/ /\ resolving'[e].strong = g.strong /\ resolving'[e].held = g.held
                /\ resolving'[e].left = g.left \union {<<b, Len(canonicals)>>}
    BY <1>5, LookUpShape
  <2>4. g.at = "looking" /\ resolving'[e].at = "looking" /\ resolving'[e].clusters = g.clusters
    BY <1>5, LookUpShape
  <2>5. \/ \E c : resolving'[e].strong = g.strong \union {<<b, c>>}
        \/ \E c : resolving'[e].held = g.held \union {<<b, c>>}
        \/ resolving'[e].left = g.left \union {<<b, Len(canonicals)>>}
    BY <2>3
  <2>6. g.strong \subseteq resolving'[e].strong /\ g.held \subseteq resolving'[e].held
        /\ g.left \subseteq resolving'[e].left
    BY <2>3
  <2>7. CASE a = b
    <3>1. \/ \E m \in resolving'[e].strong : m[1] = a
          \/ \E m \in resolving'[e].held : m[1] = a
          \/ \E l \in resolving'[e].left : l[1] = a
      <4>1. \A c : <<b, c>>[1] = a
        BY <2>7
      <4> QED
        BY <2>5, <4>1
    <3> QED
      BY <2>4, <3>1 DEF OnItsWay
  <2>8. CASE a # b
    BY <2>1, <2>2, <2>3, <2>4, <2>6, <2>8 DEF OnItsWay
  <2> QED
    BY <2>7, <2>8
<1>6. CASE Corroborate(e)
  <2>1. (Given(e, a) => Given(e, a)') /\ (Reviewed(e, a) => Reviewed(e, a)')
    BY <1>6, GivenKept, CorroborateShape
  <2>2. g.strong \union g.held = resolving'[e].strong \union resolving'[e].held
    BY <1>6, CorroborateShape DEF Corroborated
  <2>3. g.at = "looking" /\ g.todo = {} /\ resolving'[e].at = "writing"
        /\ resolving'[e].left = g.left /\ resolving'[e].clusters = g.clusters
    BY <1>6, CorroborateShape
  <2> QED
    BY <2>1, <2>2, <2>3 DEF OnItsWay
<1>7. CASE Attach(e)
  <2>1. PICK m \in g.strong : /\ aliases' = aliases \union {<<m[2], m[1], e>>}
                              /\ resolving'[e].strong = g.strong \ {m}
                              /\ resolving'[e].ids = g.ids \union {m[2]}
    BY <1>7, AttachShape
  <2>2. (Given(e, a) => Given(e, a)') /\ (Reviewed(e, a) => Reviewed(e, a)')
    BY <1>7, <2>1, GivenKept, AttachShape
  <2>3. m[1] = a => Given(e, a)'
    BY <1>2, <1>4, <2>1 DEF Given
  <2>4. g.at = "writing" /\ resolving'[e].at = "writing" /\ resolving'[e].todo = g.todo
        /\ resolving'[e].held = g.held /\ resolving'[e].left = g.left /\ resolving'[e].clusters = g.clusters
    BY <1>7, AttachShape
  <2> QED
    BY <2>1, <2>2, <2>3, <2>4 DEF OnItsWay
<1>8. CASE Hold(e)
  <2>1. PICK m \in g.held : /\ review' = review \union {<<m[2], m[1], e, attempt[e]>>}
                            /\ resolving'[e].held = g.held \ {m}
    BY <1>8, HoldShape
  <2>2. (Given(e, a) => Given(e, a)') /\ (Reviewed(e, a) => Reviewed(e, a)')
    BY <1>8, GivenKept, HoldShape
  <2>3. m[1] = a => Reviewed(e, a)'
    <3>1. m[2] \in 1..Len(canonicals') /\ attempt'[e] = attempt[e]
      BY <1>2, <1>4, <1>8, <2>1, HoldShape
    <3> QED
      BY <2>1, <3>1 DEF Reviewed
  <2>4. g.at = "writing" /\ resolving'[e].at = "writing" /\ resolving'[e].todo = g.todo
        /\ resolving'[e].strong = g.strong /\ resolving'[e].left = g.left /\ resolving'[e].clusters = g.clusters
    BY <1>8, HoldShape
  <2> QED
    BY <2>1, <2>2, <2>3, <2>4 DEF OnItsWay
<1>9. CASE Written(e)
  <2>1. (Given(e, a) => Given(e, a)') /\ (Reviewed(e, a) => Reviewed(e, a)')
    BY <1>9, GivenKept, WrittenShape
  <2> QED
    BY <1>9, <2>1, WrittenShape DEF OnItsWay
<1>10. CASE Ask(e)
  <2>1. (Given(e, a) => Given(e, a)') /\ (Reviewed(e, a) => Reviewed(e, a)')
    BY <1>10, GivenKept, AskShape
  <2>2. /\ g.at = "asking" /\ resolving'[e].at = "storing" /\ g.strong = {} /\ g.held = {} /\ g.todo = {}
        /\ g.clusters = {}
        /\ omitted'[e] = Asked(g) \ UNION {k.members : k \in resolving'[e].clusters}
    BY <1>10, AskShape DEF Phase
  <2>3. (\E l \in g.left : l[1] = a) =>
          a \in omitted'[e] \/ \E k \in resolving'[e].clusters : a \in k.members
    BY <2>2 DEF Asked
  <2> QED
    BY <2>1, <2>2, <2>3 DEF OnItsWay
<1>11. CASE UpsertCluster(e)
  <2>1. PICK k \in g.clusters :
          /\ resolving'[e].clusters = g.clusters \ {k} /\ Len(canonicals') = Len(canonicals) + 1
          /\ resolving'[e].ids = g.ids \union {Len(canonicals) + 1}
          /\ aliases' = aliases \union {<<Len(canonicals) + 1, b, e>> : b \in k.members}
    BY <1>11, UpsertShape
  <2>2. (Given(e, a) => Given(e, a)') /\ (Reviewed(e, a) => Reviewed(e, a)')
    BY <1>11, <2>1, GivenKept, UpsertShape
  <2>3. a \in k.members => Given(e, a)'
    <3>1. Len(canonicals) + 1 \in 1..Len(canonicals')
      BY <2>1, SomeCanonicals
    <3> QED
      BY <2>1, <3>1 DEF Given
  <2>4. g.at = "storing" /\ resolving'[e].at = "mirroring" /\ resolving'[e].todo = g.todo
        /\ resolving'[e].strong = g.strong /\ resolving'[e].held = g.held /\ UNCHANGED omitted
    BY <1>11, UpsertShape
  <2> QED
    BY <2>1, <2>2, <2>3, <2>4 DEF OnItsWay
<1>12. CASE Mirror(e)
  <2>1. (Given(e, a) => Given(e, a)') /\ (Reviewed(e, a) => Reviewed(e, a)')
    BY <1>12, GivenKept, MirrorShape
  <2> QED
    BY <1>12, <2>1, MirrorShape DEF OnItsWay
<1>13. CASE Stored(e)
  <2>1. (Given(e, a) => Given(e, a)') /\ (Reviewed(e, a) => Reviewed(e, a)')
    BY <1>13, GivenKept, StoredShape
  <2> QED
    BY <1>13, <2>1, StoredShape DEF OnItsWay
<1>14. CASE DispatchPattern(e)
  <2>1. PICK d \in g.ids : dispatched' = dispatched \union {<<e, d>>} /\ resolving'[e].ids = g.ids \ {d}
    BY <1>14, DispatchShape
  <2>2. UNCHANGED <<canonicals, aliases, review, attempt, omitted>>
        /\ g.at = "dispatching" /\ resolving'[e].at = "dispatching" /\ resolving'[e].todo = g.todo
        /\ resolving'[e].strong = g.strong /\ resolving'[e].held = g.held
        /\ resolving'[e].clusters = g.clusters
    BY <1>14, DispatchShape
  <2>3. (Given(e, a) => Given(e, a)') /\ (Reviewed(e, a) => Reviewed(e, a)')
    BY <2>1, <2>2 DEF Given, Reviewed
  <2> QED
    BY <2>2, <2>3 DEF OnItsWay
<1>15. CASE Acknowledge(e)
  <2>1. /\ g.at = "dispatching" /\ g.ids = {} /\ resolving'[e].at = "acked" /\ resolving'[e].ids = {}
        /\ UNCHANGED <<canonicals, aliases, review, dispatched, attempt, omitted>>
    BY <1>15, AcknowledgeShape DEF Ended
  <2>2. (Given(e, a) => Given(e, a)') /\ (Reviewed(e, a) => Reviewed(e, a)')
    BY <2>1 DEF Given, Reviewed
  <2>3. g.todo = {} /\ g.strong = {} /\ g.held = {} /\ g.clusters = {}
    BY <2>1 DEF Phase
  <2> QED
    BY <2>1, <2>2, <2>3 DEF OnItsWay
<1> QED
  BY <1>1, <1>5, <1>6, <1>7, <1>8, <1>9, <1>10, <1>11, <1>12, <1>13, <1>14, <1>15 DEF StepOf

(* A handler that does not move loses nothing. *)
LEMMA ProgressKept ==
  ASSUME TypeOK, Locals, Envelopes, [Next]_vars, NEW e \in Events, Progress(e),
         resolving'[e] = resolving[e], attempt'[e] = attempt[e], omitted'[e] = omitted[e]
  PROVE  Progress(e)'
<1>1. Phase(e)'
  BY DEF Progress, Phase
<1>2. ASSUME resolving[e].at \in Running \union {"acked"}, NEW a \in sent'[e].aliases
      PROVE  OnItsWay(e, a)'
  <2>1. sent'[e] = sent[e]
    BY <1>2, EnvelopesStep DEF Envelopes, Taken, Kept, Running
  <2>2. OnItsWay(e, a)
    BY <1>2, <2>1 DEF Progress
  <2>3. (Given(e, a) => Given(e, a)') /\ (Reviewed(e, a) => Reviewed(e, a)')
    BY GivenKept
  <2> QED
    BY <2>2, <2>3 DEF OnItsWay
<1> QED
  BY <1>1, <1>2 DEF Progress

LEMMA ProgressStep ==
  ASSUME TypeOK, Locals, Envelopes, [Next]_vars, NEW e \in Events, Progress(e)
  PROVE  Progress(e)'
<1>1. CASE Quiet
  BY <1>1, ProgressKept DEF Quiet, entityVars
<1>2. CASE \E f \in Events : StepOf(f) /\ f # e
  <2>1. PICK f \in Events : StepOf(f) /\ f # e
    BY <1>2
  <2>2. resolving'[e] = resolving[e]
    BY <2>1, OneMoves DEF Others
  <2>3. attempt'[e] = attempt[e] /\ omitted'[e] = omitted[e]
    <3>1. CASE ResolutionFails(f) \/ Ask(f)
      BY <2>1, <3>1, FailShape, AskShape
    <3>2. CASE UNCHANGED <<attempt, omitted>>
      BY <3>2
    <3> QED
      BY <2>1, <3>1, <3>2
      DEF StepOf, Take, LookUp, Corroborate, Attach, Hold, Written, UpsertCluster, Mirror, Stored,
          DispatchPattern, Acknowledge
  <2> QED
    BY <2>2, <2>3, ProgressKept
<1>3. CASE StepOf(e)
  <2>1. Phase(e)'
    BY <1>3, PhaseStep DEF Progress
  <2>2. UNCHANGED sent
    BY <1>3 DEF StepOf, Take, LookUp, Corroborate, Attach, Hold, Written, Ask, UpsertCluster, Mirror, Stored,
                DispatchPattern, Acknowledge, ResolutionFails, intakeVars, extractorVars
  <2>3. ASSUME resolving'[e].at \in Running \union {"acked"}, NEW a \in sent[e].aliases
        PROVE  OnItsWay(e, a)'
    <3>1. CASE Take(e)
      BY <2>3, <3>1, TakeShape DEF OnItsWay
    <3>2. CASE ~Take(e)
      <4>1. resolving[e].at \in Running
        BY <1>3, <3>2, LookUpShape, CorroborateShape, AttachShape, HoldShape, WrittenShape, AskShape, UpsertShape,
           MirrorShape, StoredShape, DispatchShape, AcknowledgeShape, FailShape DEF StepOf, Running
      <4>2. OnItsWay(e, a)
        BY <2>3, <4>1 DEF Progress
      <4> QED
        BY <1>3, <2>3, <4>1, <4>2, OnItsWayStep DEF Progress
    <3> QED
      BY <3>1, <3>2
  <2> QED
    BY <2>1, <2>2, <2>3 DEF Progress
<1>4. CASE EntityCrash
  <2>1. CASE resolving'[e] = resolving[e]
    BY <1>4, <2>1, CrashShape, ProgressKept
  <2>2. CASE resolving'[e].at = "unhandled" /\ Ended(e)
    BY <2>2 DEF Ended, Progress, Phase, Running
  <2> QED
    BY <1>4, <2>1, <2>2, CrashShape
<1> QED
  BY <1>1, <1>2, <1>3, <1>4, StepCases

(* An envelope that is acknowledged leaves no name behind that the model   *)
(* was given and named, for any names and whatever fails meanwhile.        *)
THEOREM ResolvedCorrect == Spec => []AckedIsResolved
<1> DEFINE IInv == TypeOK /\ Locals /\ Envelopes /\ \A e \in Events : Progress(e)
<1>1. Init => IInv
  <2>1. Init => \A e \in Events : Progress(e)
    BY DEF Init, Progress, Phase, Handler, Running
  <2> QED
    BY <2>1, EntityInit, EnvelopesInit
<1>2. IInv /\ [Next]_vars => IInv'
  BY TypeStep, EnvelopesStep, ProgressStep
<1>3. IInv => AckedIsResolved
  <2> SUFFICES ASSUME IInv, NEW e \in Events, resolving[e].at = "acked", NEW a \in sent[e].aliases
               PROVE  \/ \E c \in 1..Len(canonicals) : <<c, a, e>> \in aliases /\ <<e, c>> \in dispatched
                      \/ \E c \in 1..Len(canonicals) : <<c, a, e, attempt[e]>> \in review
                      \/ a \in omitted[e]
    BY DEF AckedIsResolved
  <2>1. OnItsWay(e, a) /\ Phase(e) /\ resolving[e].ids = {}
    BY DEF Progress, Locals, Sound, Fits, Running
  <2> QED
    BY <2>1 DEF OnItsWay, Phase, Given, Reviewed
<1> QED
  BY <1>1, <1>2, <1>3, PTL DEF Spec


(***************************************************************************)
(* LlmRouter.  The sum of a list of costs, one index at a time.            *)
(***************************************************************************)
Before == {p \in Nat \X Nat : p[1] < p[2]}

(* A set of numbers has a least one. *)
LEMMA Least ==
  ASSUME NEW S \in SUBSET Nat, S # {}
  PROVE  \E n \in S : \A m \in S : n <= m
<1>1. IsWellFoundedOn(Before, Nat)
  <2>1. OpToRel(<, Nat) = Before
    BY DEF OpToRel, Before
  <2> QED BY <2>1, NatLessThanWellFounded, Zenon
<1>2. PICK n \in S : \A m \in S : ~ (<<m, n>> \in Before)
  BY <1>1, WFMin
<1>3. n \in Nat /\ \A m \in S : m \in Nat /\ ~ (m < n)
  BY <1>2 DEF Before
<1>4. \A m \in S : n <= m
  BY <1>3
<1> QED BY <1>4

Sums(costs, n, f) ==
  f \in [0..n -> Nat] /\ f[0] = 0 /\ \A m \in 1..n : f[m] = f[m - 1] + costs[m]

LEMMA SumsExist ==
  ASSUME NEW costs \in Seq(Nat), NEW n \in 0..Len(costs)
  PROVE  \E f : Sums(costs, n, f)
<1> DEFINE Without == {m \in 0..Len(costs) : ~ \E f : Sums(costs, m, f)}
<1>1. SUFFICES ASSUME Without # {} PROVE FALSE
  OBVIOUS
<1>2. PICK m \in Without : \A l \in Without : m <= l
  <2>1. Without \in SUBSET Nat
    OBVIOUS
  <2> HIDE DEF Without
  <2> QED BY <1>1, <2>1, Least
<1>3. m \in 0..Len(costs) /\ Len(costs) \in Nat
  OBVIOUS
<1>4. CASE m = 0
  <2> DEFINE f == [i \in 0..0 |-> 0]
  <2>1. Sums(costs, 0, f)
    BY DEF Sums
  <2> QED BY <1>4, <2>1
<1>5. CASE m # 0
  <2>1. m - 1 \in 0..Len(costs) /\ m - 1 \notin Without
    BY <1>2, <1>3, <1>5
  <2>2. PICK f : Sums(costs, m - 1, f)
    BY <2>1
  <2> DEFINE g == [i \in 0..m |-> IF i = m THEN f[m - 1] + costs[m] ELSE f[i]]
  <2>3. f \in [0..(m - 1) -> Nat] /\ costs[m] \in Nat /\ m - 1 \in 0..(m - 1)
    BY <1>3, <1>5, <2>2 DEF Sums
  <2>4. g \in [0..m -> Nat]
    BY <1>3, <2>3
  <2>5. g[0] = 0
    BY <1>3, <1>5, <2>2 DEF Sums
  <2>6. \A i \in 1..m : g[i] = g[i - 1] + costs[i]
    BY <1>3, <1>5, <2>2 DEF Sums
  <2> HIDE DEF g
  <2>7. Sums(costs, m, g)
    BY <2>4, <2>5, <2>6 DEF Sums
  <2> QED BY <2>7
<1> QED BY <1>4, <1>5

(* So the recursive function of Total is one. *)
LEMMA TotalSums ==
  ASSUME NEW costs \in Seq(Nat)
  PROVE  \E f : Sums(costs, Len(costs), f) /\ Total(costs) = f[Len(costs)]
<1> DEFINE Solves(f) == f = [n \in 0..Len(costs) |-> IF n = 0 THEN 0 ELSE f[n - 1] + costs[n]]
<1>1. PICK g : Sums(costs, Len(costs), g)
  BY SumsExist
<1>2. Solves(g)
  BY <1>1 DEF Sums
<1>3. Solves(CHOOSE f : Solves(f))
  BY <1>2
<1>4. PICK f : f = CHOOSE h : Solves(h)
  OBVIOUS
<1>5. Total(costs) = f[Len(costs)]
  BY <1>4 DEF Total
<1>6. Solves(f)
  BY <1>3, <1>4
<1>7. \A n \in 0..Len(costs) : f[n] = g[n]
  <2> DEFINE Differ == {n \in 0..Len(costs) : f[n] # g[n]}
  <2>1. SUFFICES ASSUME Differ # {} PROVE FALSE
    OBVIOUS
  <2>2. PICK n \in Differ : \A m \in Differ : n <= m
    <3>1. Differ \in SUBSET Nat
      OBVIOUS
    <3> HIDE DEF Differ
    <3> QED BY <2>1, <3>1, Least
  <2>3. n \in 0..Len(costs) /\ n \in Nat /\ Len(costs) \in Nat /\ f[n] # g[n]
    OBVIOUS
  <2>4. f[n] = IF n = 0 THEN 0 ELSE f[n - 1] + costs[n]
    BY <1>6, <2>3
  <2>5. g[n] = IF n = 0 THEN 0 ELSE g[n - 1] + costs[n]
    BY <1>2, <2>3
  <2>6. n # 0 => n - 1 \in 0..Len(costs) /\ ~ (n <= n - 1)
    BY <2>3
  <2>7. n # 0 => f[n - 1] = g[n - 1]
    BY <2>2, <2>6
  <2> QED BY <2>3, <2>4, <2>5, <2>7
<1>8. f = g
  <2>1. f = [n \in 0..Len(costs) |-> f[n]] /\ g = [n \in 0..Len(costs) |-> g[n]]
    BY <1>2, <1>6
  <2> QED BY <1>7, <2>1
<1> QED BY <1>1, <1>5, <1>8

(* Where a list lies under a stretch of another, so do its sums. *)
LEMMA SumsUnder ==
  ASSUME NEW s \in Seq(Nat), NEW u \in Seq(Nat), NEW d \in Nat, NEW k \in 0..Len(u),
         k + d <= Len(s), \A n \in 1..k : u[n] <= s[n + d],
         NEW f, Sums(s, Len(s), f), NEW g, Sums(u, Len(u), g),
         NEW n \in 0..k
  PROVE  g[n] <= f[n + d]
<1> DEFINE Above == {m \in 0..k : ~ (g[m] <= f[m + d])}
<1>1. SUFFICES ASSUME Above # {} PROVE FALSE
  OBVIOUS
<1>2. PICK m \in Above : \A l \in Above : m <= l
  <2>1. Above \in SUBSET Nat
    OBVIOUS
  <2> HIDE DEF Above
  <2> QED BY <1>1, <2>1, Least
<1>3. /\ m \in 0..k /\ m \in 0..Len(u) /\ Len(u) \in Nat /\ Len(s) \in Nat /\ m \in Nat
      /\ m + d \in 0..Len(s) /\ ~ (g[m] <= f[m + d])
  OBVIOUS
<1>4. CASE m = 0
  <2>1. g[0] = 0 /\ f[m + d] \in Nat
    BY <1>3 DEF Sums
  <2> QED BY <1>3, <1>4, <2>1
<1>5. CASE m # 0
  <2>1. m - 1 \in 0..k /\ m - 1 \notin Above
    BY <1>2, <1>3, <1>5
  <2>2. g[m - 1] <= f[m - 1 + d]
    BY <2>1
  <2>3. m \in 1..k /\ m \in 1..Len(u) /\ m + d \in 1..Len(s) /\ m - 1 \in 0..Len(u) /\ m + d - 1 \in 0..Len(s)
    BY <1>3, <1>5
  <2>4. g[m] = g[m - 1] + u[m] /\ f[m + d] = f[m + d - 1] + s[m + d]
    BY <2>3 DEF Sums
  <2>5. g[m - 1] \in Nat /\ f[m + d - 1] \in Nat
    BY <2>3 DEF Sums
  <2>6. u[m] \in Nat /\ s[m + d] \in Nat
    <3>1. \A x \in Seq(Nat) : \A i \in 1..Len(x) : x[i] \in Nat
      OBVIOUS
    <3> QED BY <2>3, <3>1, Zenon
  <2>7. u[m] <= s[m + d]
    BY <2>3, Zenon
  <2>8. g[m - 1] <= f[m + d - 1]
    <3>1. m - 1 + d = m + d - 1
      BY <1>3
    <3> QED BY <2>2, <3>1
  <2>9. g[m] <= f[m + d]
    <3>1. \A w, x, y, z \in Nat : w <= x /\ y <= z => w + y <= x + z
      OBVIOUS
    <3> QED BY <2>4, <2>5, <2>6, <2>7, <2>8, <3>1, Zenon
  <2> QED BY <1>3, <2>9
<1> QED BY <1>4, <1>5

-----------------------------------------------------------------------------
Records == [cost : Nat, age : Nat]

LEMMA CostsTyped ==
  ASSUME NEW records \in Seq(Records)
  PROVE  /\ CostsOf(records) \in Seq(Nat) /\ Len(CostsOf(records)) = Len(records)
         /\ \A n \in 1..Len(records) : CostsOf(records)[n] = records[n].cost
<1>1. Len(records) \in Nat /\ \A n \in 1..Len(records) : records[n] \in Records
  OBVIOUS
<1>2. \A n \in 1..Len(records) : records[n].cost \in Nat
  BY <1>1 DEF Records
<1> QED BY <1>1, <1>2 DEF CostsOf

LEMMA NothingSpent == Spent(<< >>) = 0
<1>1. << >> \in Seq(Records) /\ Len(<< >>) = 0
  OBVIOUS
<1>2. CostsOf(<< >>) \in Seq(Nat) /\ Len(CostsOf(<< >>)) = 0
  BY <1>1, CostsTyped
<1>3. PICK f : Sums(CostsOf(<< >>), 0, f) /\ Total(CostsOf(<< >>)) = f[0]
  BY <1>2, TotalSums
<1> QED BY <1>3 DEF Sums, Spent

(* A record adds what it cost. *)
LEMMA AppendSpent ==
  ASSUME NEW records \in Seq(Records), NEW r \in Records
  PROVE  /\ Append(records, r) \in Seq(Records)
         /\ Spent(records) \in Nat /\ Spent(Append(records, r)) \in Nat
         /\ Spent(Append(records, r)) <= Spent(records) + r.cost
<1> DEFINE s == CostsOf(records)
           more == Append(records, r)
           u == CostsOf(more)
           k == Len(records)
<1>1. more \in Seq(Records) /\ Len(more) = k + 1 /\ k \in Nat
      /\ more[k + 1] = r /\ \A n \in 1..k : more[n] = records[n]
  OBVIOUS
<1>2. s \in Seq(Nat) /\ Len(s) = k /\ \A n \in 1..k : s[n] = records[n].cost
  BY CostsTyped
<1> HIDE DEF more
<1>3. u \in Seq(Nat) /\ Len(u) = k + 1 /\ \A n \in 1..(k + 1) : u[n] = more[n].cost
  BY <1>1, CostsTyped
<1> HIDE DEF s, u
<1>4. PICK f : Sums(s, k, f) /\ Total(s) = f[k]
  BY <1>2, TotalSums
<1>5. PICK g : Sums(u, k + 1, g) /\ Total(u) = g[k + 1]
  BY <1>3, TotalSums
<1>6. \A n \in 1..k : u[n] <= s[n + 0]
  <2> SUFFICES ASSUME NEW n \in 1..k PROVE u[n] <= s[n]
    BY <1>1
  <2>1. u[n] = s[n] /\ s[n] \in Nat
    BY <1>1, <1>2, <1>3
  <2> QED BY <2>1
<1>7. g[k] <= f[k]
  <2>1. k \in 0..Len(u) /\ k + 0 <= Len(s) /\ k \in 0..k /\ k + 0 = k
    BY <1>1, <1>2, <1>3
  <2>2. g[k] <= f[k + 0]
    BY <1>2, <1>3, <1>4, <1>5, <1>6, <2>1, SumsUnder
  <2> QED BY <2>1, <2>2
<1>8. g[k + 1] = g[k] + r.cost /\ g[k] \in Nat /\ f[k] \in Nat /\ r.cost \in Nat
  <2>1. k + 1 \in 1..(k + 1) /\ k \in 0..(k + 1) /\ k \in 0..k /\ k + 1 - 1 = k
    BY <1>1
  <2>2. u[k + 1] = r.cost /\ r.cost \in Nat
    BY <1>1, <1>3, <2>1 DEF Records
  <2>3. g[k + 1] = g[k + 1 - 1] + u[k + 1] /\ g[k] \in Nat /\ f[k] \in Nat
    BY <1>4, <1>5, <2>1 DEF Sums
  <2> QED BY <2>1, <2>2, <2>3
<1>9. Spent(records) = f[k] /\ Spent(more) = g[k + 1]
  BY <1>4, <1>5 DEF Spent, s, u
<1> QED BY <1>1, <1>7, <1>8, <1>9 DEF more

(* Dropping the oldest records adds nothing. *)
LEMMA TrimSpent ==
  ASSUME NEW records \in Seq(Records)
  PROVE  /\ Trimmed(records) \in Seq(Records)
         /\ Spent(records) \in Nat /\ Spent(Trimmed(records)) \in Nat
         /\ Spent(Trimmed(records)) <= Spent(records)
<1> DEFINE stale == {n \in 1..Len(records) : \A m \in 1..n : records[m].age > Day}
           d == Cardinality(stale)
           kept == Trimmed(records)
           s == CostsOf(records)
           u == CostsOf(kept)
<1>0. Len(records) \in Nat
  OBVIOUS
<1>1. d \in 0..Len(records)
  <2>1. IsFiniteSet(1..Len(records)) /\ Cardinality(1..Len(records)) = Len(records)
    <3>1. 1 \in Int /\ Len(records) \in Int
      OBVIOUS
    <3>2. /\ IsFiniteSet(1..Len(records))
          /\ Cardinality(1..Len(records)) = IF 1 > Len(records) THEN 0 ELSE Len(records) - 1 + 1
      BY <3>1, FS_Interval
    <3> QED BY <1>0, <3>2
  <2>2. stale \subseteq 1..Len(records)
    OBVIOUS
  <2> HIDE DEF stale
  <2>3. IsFiniteSet(stale) /\ d <= Len(records)
    BY <2>1, <2>2, FS_Subset
  <2>4. d \in Nat
    BY <2>3, FS_CardinalityType
  <2> QED BY <1>0, <2>3, <2>4
<1>2. kept = SubSeq(records, d + 1, Len(records))
  BY DEF Trimmed
<1> HIDE DEF d, kept
<1>3. /\ kept \in Seq(Records) /\ Len(kept) = Len(records) - d
      /\ \A n \in 1..Len(kept) : kept[n] = records[n + d]
  <2>1. d + 1 \in 1..(Len(records) + 1) /\ d \in Nat
    BY <1>0, <1>1
  <2>2. /\ kept \in Seq(Records) /\ Len(kept) = Len(records) - d
        /\ \A n \in 1..Len(kept) : kept[n] = records[(d + 1) + n - 1]
    BY <1>0, <1>2, <2>1
  <2>3. \A n \in 1..Len(kept) : (d + 1) + n - 1 = n + d
    BY <2>1
  <2> QED BY <2>2, <2>3
<1>4. s \in Seq(Nat) /\ Len(s) = Len(records) /\ \A n \in 1..Len(records) : s[n] = records[n].cost
  BY CostsTyped
<1>5. u \in Seq(Nat) /\ Len(u) = Len(kept) /\ \A n \in 1..Len(kept) : u[n] = kept[n].cost
  BY <1>3, CostsTyped
<1> HIDE DEF s, u
<1>6. PICK f : Sums(s, Len(s), f) /\ Total(s) = f[Len(s)]
  BY <1>4, TotalSums
<1>7. PICK g : Sums(u, Len(u), g) /\ Total(u) = g[Len(u)]
  BY <1>5, TotalSums
<1>8. Len(u) \in 0..Len(u) /\ Len(s) \in 0..Len(s) /\ Len(u) + d = Len(s) /\ Len(u) + d <= Len(s)
      /\ d \in Nat /\ Len(u) \in Nat /\ Len(s) \in Nat
  BY <1>0, <1>1, <1>3, <1>4, <1>5
<1>9. \A n \in 1..Len(u) : u[n] <= s[n + d]
  <2> SUFFICES ASSUME NEW n \in 1..Len(u) PROVE u[n] <= s[n + d]
    OBVIOUS
  <2>1. n \in 1..Len(kept) /\ n + d \in 1..Len(records)
    BY <1>3, <1>4, <1>5, <1>8
  <2>2. u[n] = s[n + d]
    BY <1>3, <1>4, <1>5, <2>1
  <2>3. u[n] \in Nat
    BY <1>5
  <2> QED BY <2>2, <2>3
<1>10. g[Len(u)] <= f[Len(u) + d]
  BY <1>4, <1>5, <1>6, <1>7, <1>8, <1>9, SumsUnder
<1>11. g[Len(u)] \in Nat /\ f[Len(s)] \in Nat
  BY <1>6, <1>7, <1>8 DEF Sums
<1>12. Spent(records) = f[Len(s)] /\ Spent(kept) = g[Len(u)]
  BY <1>6, <1>7 DEF Spent, s, u
<1> QED BY <1>3, <1>8, <1>10, <1>11, <1>12 DEF kept

-----------------------------------------------------------------------------
(* The answers still to come of the priced calls.                          *)
LEMMA AnswersCounted ==
  ASSUME NEW A \in SUBSET (Priced \X Breakers)
  PROVE  /\ IsFiniteSet(A) /\ Cardinality(A) \in Nat
         /\ Cardinality(A) <= Cardinality(Priced) * Cardinality(Breakers)
         /\ Cardinality(Priced) \in Nat /\ Cardinality(Breakers) \in Nat
<1>1. IsFiniteSet({0, 1})
  <2>1. IsFiniteSet({0})
    BY FS_Singleton
  <2>2. IsFiniteSet({0} \union {1})
    BY <2>1, FS_AddElement
  <2>3. {0} \union {1} = {0, 1}
    OBVIOUS
  <2> QED BY <2>2, <2>3
<1>2. IsFiniteSet(Priced) /\ IsFiniteSet(Breakers)
  BY <1>1, RouterAssumption, FS_Subset
<1>3. /\ IsFiniteSet(Priced \X Breakers)
      /\ Cardinality(Priced \X Breakers) = Cardinality(Priced) * Cardinality(Breakers)
  BY <1>2, FS_Product
<1>4. IsFiniteSet(A) /\ Cardinality(A) <= Cardinality(Priced \X Breakers)
  BY <1>3, FS_Subset
<1> QED BY <1>2, <1>3, <1>4, FS_CardinalityType

LEMMA FewerAnswers ==
  ASSUME NEW A \in SUBSET (Priced \X Breakers), NEW B \in SUBSET A
  PROVE  /\ Cardinality(B) <= Cardinality(A)
         /\ \A x \in A \ B : Cardinality(B) + 1 <= Cardinality(A)
<1>1. IsFiniteSet(A) /\ Cardinality(A) \in Nat /\ IsFiniteSet(B) /\ Cardinality(B) \in Nat
  BY AnswersCounted
<1>2. Cardinality(B) <= Cardinality(A)
  BY <1>1, FS_Subset
<1>3. ASSUME NEW x \in A \ B PROVE Cardinality(B) + 1 <= Cardinality(A)
  <2>1. IsFiniteSet(B \union {x}) /\ Cardinality(B \union {x}) = Cardinality(B) + 1
    BY <1>1, <1>3, FS_AddElement
  <2>2. B \union {x} \subseteq A
    BY <1>3
  <2>3. Cardinality(B \union {x}) <= Cardinality(A)
    BY <1>1, <2>2, FS_Subset
  <2> QED BY <2>1, <2>3
<1> QED BY <1>2, <1>3

RouterTyped ==
  asked \in [Calls -> Tiers \union {Idle}] /\ history \in Seq(Records) /\ restarts \in Nat

LEMMA TiersKnown ==
  Tiers \subseteq {0, 1, 2} /\ Breakers \subseteq Tiers /\ Breakers \subseteq {0, 1} /\ Idle = 3 /\ Day \in Nat
  /\ Hard \in Nat /\ MaxCost \in Nat \ {0} /\ Priced \subseteq Calls
BY RouterAssumption DEF Tiers, Idle

LEMMA TierOrder ==
  /\ \A t \in Tiers \union {Idle} : t \in Nat /\ t <= Idle
  /\ \A t \in Tiers : t < Idle
  /\ \A t \in Breakers : t + 1 \in 0..2 /\ t \in Tiers
  /\ \A n \in 0..2 : n <= Idle
  /\ \A t \in Local : t \in Tiers
<1>1. \A t \in {0, 1, 2} : t \in Nat /\ t < 3 /\ t <= 3
  OBVIOUS
<1>2. \A t \in {0, 1} : t + 1 \in 0..2
  OBVIOUS
<1>3. \A n \in 0..2 : n <= 3
  OBVIOUS
<1>4. 3 \in Nat /\ 3 <= 3
  OBVIOUS
<1> HIDE DEF Idle
<1> QED BY <1>1, <1>2, <1>3, <1>4, TiersKnown, Zenon DEF Tiers

(* A call goes to a tier from the given one on, or none. *)
LEMMA AskedFrom ==
  ASSUME NEW c \in Calls, NEW from \in 0..2, NEW b, AskFrom(c, from, b)
  PROVE  \E t \in Tiers \union {Idle} : from <= t /\ asked' = [asked EXCEPT ![c] = t]
<1> DEFINE able == {t \in Tiers : t >= from /\ Healthy(b, t)}
<1>1. CASE able = {}
  <2>1. asked' = [asked EXCEPT ![c] = Idle]
    BY <1>1 DEF AskFrom
  <2> QED BY <2>1, TierOrder, Zenon
<1>2. CASE able # {}
  <2>1. able \in SUBSET Nat
    BY TierOrder, Zenon
  <2>2. PICK t : t = CHOOSE u \in able : \A v \in able : u <= v
    OBVIOUS
  <2>3. asked' = [asked EXCEPT ![c] = t]
    BY <1>2, <2>2 DEF AskFrom
  <2>4. t \in able
    <3> HIDE DEF able
    <3>1. \E u \in able : \A v \in able : u <= v
      BY <1>2, <2>1, Least
    <3> QED BY <2>2, <3>1
  <2>5. t \in Tiers /\ t >= from /\ t \in Nat
    BY <2>1, <2>4
  <2> QED BY <2>3, <2>5
<1> QED BY <1>1, <1>2

(* Each step of a call: what it records, and which tiers it gives up. *)
LEMMA CallMoves ==
  ASSUME RouterTyped, NEW c \in Calls,
         Begin(c) \/ Answer(c) \/ LocalAnswer(c) \/ RequestFails(c) \/ LocalFails(c)
  PROVE  /\ \E t \in Tiers \union {Idle} :
              /\ asked' = [asked EXCEPT ![c] = t]
              /\ Begin(c) \/ asked[c] < t
         /\ \/ history' = history
            \/ history' = Trimmed(history)
            \/ /\ asked[c] \in Breakers /\ c \in Priced
               /\ \E cost \in 1..MaxCost : history' = Recorded(cost)
<1>1. CASE Begin(c)
  <2>1. AskFrom(c, 0, breaker) /\ history' = history
    BY <1>1 DEF Begin
  <2>2. \E t \in Tiers \union {Idle} : 0 <= t /\ asked' = [asked EXCEPT ![c] = t]
    BY <2>1, AskedFrom
  <2> QED BY <1>1, <2>1, <2>2, Zenon
<1>2. ASSUME asked[c] \in Breakers,
             \/ asked' = [asked EXCEPT ![c] = Idle]
             \/ \E b : AskFrom(c, asked[c] + 1, b)
      PROVE  \E t \in Tiers \union {Idle} : asked[c] < t /\ asked' = [asked EXCEPT ![c] = t]
  <2>1. asked[c] + 1 \in 0..2 /\ asked[c] < Idle /\ asked[c] \in Nat
    BY <1>2, TierOrder, Zenon
  <2>2. CASE asked' = [asked EXCEPT ![c] = Idle]
    BY <2>1, <2>2
  <2>3. CASE \E b : AskFrom(c, asked[c] + 1, b)
    <3>1. PICK b : AskFrom(c, asked[c] + 1, b)
      BY <2>3
    <3>2. PICK t \in Tiers \union {Idle} : asked[c] + 1 <= t /\ asked' = [asked EXCEPT ![c] = t]
      BY <2>1, <3>1, AskedFrom
    <3>3. t \in Nat
      BY TierOrder, Zenon
    <3>4. asked[c] < t
      BY <2>1, <3>2, <3>3
    <3> QED BY <3>2, <3>4
  <2> QED BY <1>2, <2>2, <2>3
<1>3. CASE Answer(c)
  <2>1. /\ asked[c] \in Breakers
        /\ \/ asked' = [asked EXCEPT ![c] = Idle]
           \/ \E b : AskFrom(c, asked[c] + 1, b)
        /\ history' = history \/ (c \in Priced /\ \E cost \in 1..MaxCost : history' = Recorded(cost))
    BY <1>3, Zenon DEF Answer
  <2>2. \E t \in Tiers \union {Idle} : asked[c] < t /\ asked' = [asked EXCEPT ![c] = t]
    BY <1>2, <2>1, Zenon
  <2> QED BY <2>1, <2>2, Zenon
<1>4. CASE LocalAnswer(c) \/ LocalFails(c)
  <2>1. /\ asked[c] \in Local /\ asked' = [asked EXCEPT ![c] = Idle]
        /\ history' = history \/ history' = Trimmed(history)
    BY <1>4 DEF LocalAnswer, LocalFails
  <2>2. asked[c] < Idle
    BY <2>1, TierOrder, Zenon
  <2> QED BY <2>1, <2>2, Zenon
<1>5. CASE RequestFails(c)
  <2>1. asked[c] \in Breakers /\ history' = history /\ \E b : AskFrom(c, asked[c] + 1, b)
    BY <1>5, Zenon DEF RequestFails
  <2>2. \E t \in Tiers \union {Idle} : asked[c] < t /\ asked' = [asked EXCEPT ![c] = t]
    BY <1>2, <2>1, Zenon
  <2> QED BY <2>1, <2>2, Zenon
<1> QED BY <1>1, <1>3, <1>4, <1>5

LEMMA TimesMonotone ==
  ASSUME NEW n \in Nat, NEW x \in Nat, NEW y \in Nat
  PROVE  /\ n * x \in Nat
         /\ x <= y => n * x <= n * y
         /\ x + 1 <= y => n * x + n <= n * y
<1>1. n * x \in Nat /\ n * y \in Nat
  OBVIOUS
<1>2. ASSUME NEW u \in Nat, NEW v \in Nat, u <= v PROVE n * u <= n * v
  <2>1. v - u \in Nat /\ v = u + (v - u)
    BY <1>2
  <2>2. n * (u + (v - u)) = n * u + n * (v - u) /\ n * (v - u) \in Nat /\ n * u \in Nat
    BY <2>1
  <2> QED BY <2>1, <2>2
<1>3. n * (x + 1) = n * x + n
  OBVIOUS
<1>4. x + 1 <= y => n * (x + 1) <= n * y
  BY <1>2
<1> QED BY <1>1, <1>2, <1>3, <1>4

(* What is spent, and what is still to come, after the step of a call. *)
LEMMA SpentStep ==
  ASSUME RouterTyped, NEW c \in Calls,
         Begin(c) \/ Answer(c) \/ LocalAnswer(c) \/ RequestFails(c) \/ LocalFails(c)
  PROVE  /\ RouterTyped'
         /\ Spent(history) \in Nat /\ Spent(history') \in Nat
         /\ \/ Begin(c) /\ history' = history
            \/ Spent(history') <= Spent(history) /\ Outstanding' <= Outstanding
            \/ Spent(history') <= Spent(history) + MaxCost /\ Outstanding' + 1 <= Outstanding
<1>1. PICK t \in Tiers \union {Idle} : asked' = [asked EXCEPT ![c] = t] /\ (Begin(c) \/ asked[c] < t)
  BY CallMoves
<1>2. /\ asked \in [Calls -> Tiers \union {Idle}] /\ history \in Seq(Records)
      /\ \A d \in Calls : asked[d] \in Tiers \union {Idle}
  BY DEF RouterTyped
<1>3. asked' \in [Calls -> Tiers \union {Idle}]
  BY <1>1, <1>2, Zenon
<1>4. \/ history' = history
      \/ history' = Trimmed(history)
      \/ /\ asked[c] \in Breakers /\ c \in Priced
         /\ \E cost \in 1..MaxCost : history' = Recorded(cost)
  BY CallMoves
<1>5. /\ history' \in Seq(Records) /\ Spent(history) \in Nat /\ Spent(history') \in Nat
      /\ \/ Spent(history') <= Spent(history)
         \/ /\ asked[c] \in Breakers /\ c \in Priced
            /\ Spent(history') <= Spent(history) + MaxCost
  <2>1. CASE history' = history
    <3>1. Spent(history) \in Nat
      BY <1>2, TrimSpent
    <3> QED BY <1>2, <2>1, <3>1
  <2>2. CASE history' = Trimmed(history)
    BY <1>2, <2>2, TrimSpent
  <2>3. ASSUME asked[c] \in Breakers, c \in Priced, NEW cost \in 1..MaxCost, history' = Recorded(cost)
        PROVE  /\ history' \in Seq(Records) /\ Spent(history) \in Nat /\ Spent(history') \in Nat
               /\ Spent(history') <= Spent(history) + MaxCost
    <3> DEFINE r == [cost |-> cost, age |-> 0]
               more == Append(history, r)
    <3>1. r \in Records /\ r.cost = cost /\ cost \in Nat /\ cost <= MaxCost /\ MaxCost \in Nat
      BY TiersKnown DEF Records
    <3>2. history' = Trimmed(more)
      BY <2>3 DEF Recorded
    <3> HIDE DEF r
    <3>3. /\ more \in Seq(Records) /\ Spent(history) \in Nat /\ Spent(more) \in Nat
          /\ Spent(more) <= Spent(history) + cost
      BY <1>2, <3>1, AppendSpent
    <3> HIDE DEF more
    <3>4. /\ history' \in Seq(Records) /\ Spent(history') \in Nat
          /\ Spent(history') <= Spent(more)
      BY <3>2, <3>3, TrimSpent
    <3> QED BY <3>1, <3>3, <3>4
  <2> QED BY <1>4, <2>1, <2>2, <2>3
<1>6. RouterTyped'
  <2>1. restarts' = restarts
    BY DEF Begin, Answer, LocalAnswer, RequestFails, LocalFails
  <2> QED BY <1>3, <1>5, <2>1 DEF RouterTyped
<1>7. CASE asked[c] < t
  <2>1. asked' = [asked EXCEPT ![c] = t] /\ asked[c] < t /\ asked[c] \in Nat /\ t \in Nat
    BY <1>1, <1>2, <1>7, TierOrder, Zenon
  <2>2. \A d \in Calls : d # c => asked'[d] = asked[d]
    BY <1>2, <2>1
  <2>3. asked'[c] = t
    BY <1>2, <2>1
  <2>4. AnswersToCome' \subseteq AnswersToCome
    <3> SUFFICES ASSUME NEW p \in Priced \X Breakers, p[2] >= asked'[p[1]]
                 PROVE  p[2] >= asked[p[1]]
      BY DEF AnswersToCome
    <3>1. p[1] \in Calls /\ p[2] \in Nat
      <4>1. p[1] \in Priced /\ p[2] \in Breakers
        OBVIOUS
      <4> QED BY <4>1, TierOrder, TiersKnown, Zenon
    <3>2. CASE p[1] = c
      BY <2>1, <2>3, <3>1, <3>2
    <3>3. CASE p[1] # c
      BY <2>2, <3>1, <3>3
    <3> QED BY <3>2, <3>3
  <2>5. AnswersToCome \in SUBSET (Priced \X Breakers)
    BY DEF AnswersToCome
  <2>6. Outstanding' <= Outstanding
    BY <2>4, <2>5, FewerAnswers DEF Outstanding
  <2>7. CASE Spent(history') <= Spent(history)
    BY <1>5, <1>6, <2>6, <2>7
  <2>8. CASE asked[c] \in Breakers /\ c \in Priced /\ Spent(history') <= Spent(history) + MaxCost
    <3> DEFINE p == <<c, asked[c]>>
    <3>1. p \in Priced \X Breakers /\ p[1] = c /\ p[2] = asked[c]
      BY <2>8
    <3> HIDE DEF p
    <3>2. p \in AnswersToCome
      BY <2>1, <3>1 DEF AnswersToCome
    <3>3. p \notin AnswersToCome'
      BY <2>1, <2>3, <3>1 DEF AnswersToCome
    <3>4. Outstanding' + 1 <= Outstanding
      BY <2>4, <2>5, <3>2, <3>3, FewerAnswers DEF Outstanding
    <3> QED BY <1>5, <1>6, <2>8, <3>4
  <2> QED BY <1>5, <2>7, <2>8
<1>8. CASE Begin(c)
  BY <1>5, <1>6, <1>8 DEF Begin
<1> QED BY <1>1, <1>7, <1>8

(* Time passes over the records: what they cost stays. *)
LEMMA TickSpent ==
  ASSUME RouterTyped, Tick
  PROVE  /\ RouterTyped' /\ Spent(history') = Spent(history)
         /\ asked' = asked
<1>1. history \in Seq(Records) /\ Len(history) \in Nat /\ DOMAIN history = 1..Len(history)
      /\ \A n \in 1..Len(history) : history[n] \in Records
  BY DEF RouterTyped
<1>2. history' = [n \in 1..Len(history) |-> [history[n] EXCEPT !.age = Older(@, Day)]]
  BY <1>1, Zenon DEF Tick
<1>3. \A n \in 1..Len(history) : history'[n] = [history[n] EXCEPT !.age = Older(@, Day)]
  BY <1>2
<1>4. \A n \in 1..Len(history) : history'[n] \in Records /\ history'[n].cost = history[n].cost
  <2> SUFFICES ASSUME NEW n \in 1..Len(history)
               PROVE  history'[n] \in Records /\ history'[n].cost = history[n].cost
    OBVIOUS
  <2>1. history[n] \in Records
    BY <1>1
  <2>2. Older(history[n].age, Day) \in Nat
    BY <2>1, TiersKnown DEF Older, Records
  <2>3. history'[n] = [history[n] EXCEPT !.age = Older(history[n].age, Day)]
    BY <1>3
  <2> QED BY <2>1, <2>2, <2>3 DEF Records
<1>5. history' \in Seq(Records) /\ Len(history') = Len(history)
  BY <1>1, <1>2, <1>4
<1>6. CostsOf(history') = CostsOf(history)
  BY <1>4, <1>5 DEF CostsOf
<1>7. asked' = asked /\ restarts' = restarts
  BY DEF Tick
<1> QED BY <1>5, <1>6, <1>7 DEF RouterTyped, Spent

LEMMA RouterTypes == RouterInit => RouterTyped
<1>1. ASSUME RouterInit PROVE asked \in [Calls -> Tiers \union {Idle}] /\ history = << >> /\ restarts = 0
  BY <1>1 DEF RouterInit
<1> QED BY <1>1 DEF RouterTyped

LEMMA RestartTypes == RouterTyped /\ Restart => RouterTyped'
<1>1. ASSUME Restart
      PROVE  asked' \in [Calls -> Tiers \union {Idle}] /\ history' = << >> /\ restarts' = restarts + 1
  BY <1>1 DEF Restart
<1> QED BY <1>1 DEF RouterTyped

LEMMA RouterTypeStep == RouterTyped /\ [RouterNext]_routerVars => RouterTyped'
<1> SUFFICES ASSUME RouterTyped, [RouterNext]_routerVars PROVE RouterTyped'
  OBVIOUS
<1>1. CASE Tick
  BY <1>1, TickSpent
<1>2. CASE Restart
  BY <1>2, RestartTypes
<1>3. ASSUME NEW c \in Calls,
             Begin(c) \/ Answer(c) \/ LocalAnswer(c) \/ RequestFails(c) \/ LocalFails(c)
      PROVE  RouterTyped'
  BY <1>3, SpentStep
<1>4. CASE UNCHANGED routerVars
  BY <1>4 DEF routerVars, RouterTyped
<1> QED BY <1>1, <1>2, <1>3, <1>4 DEF RouterNext

(* Below the ceiling nothing that is still to come exceeds the bound. *)
LEMMA BelowCeiling ==
  ASSUME NEW spent \in Nat, Hard > 0 => spent < Hard, NEW A \in SUBSET (Priced \X Breakers)
  PROVE  Hard > 0 => spent + MaxCost * Cardinality(A)
                       < Hard + MaxCost * (Cardinality(Priced) * Cardinality(Breakers))
<1> DEFINE a == Cardinality(A)
           p == Cardinality(Priced) * Cardinality(Breakers)
<1>1. a \in Nat /\ a <= p /\ p \in Nat
  BY AnswersCounted
<1>2. MaxCost \in Nat /\ Hard \in Nat
  BY TiersKnown
<1> HIDE DEF a, p
<1>3. MaxCost * a <= MaxCost * p /\ MaxCost * a \in Nat /\ MaxCost * p \in Nat
  BY <1>1, <1>2, TimesMonotone
<1>4. Hard > 0 => spent + MaxCost * a < Hard + MaxCost * p
  BY <1>2, <1>3
<1> QED BY <1>4 DEF a, p

LEMMA OverrunStep ==
  ASSUME RouterTyped, OverrunByInFlight, [RouterNext]_routerVars
  PROVE  OverrunByInFlight'
<1> DEFINE bound == Hard + MaxCost * (Cardinality(Priced) * Cardinality(Breakers))
<1>1. /\ AnswersToCome \in SUBSET (Priced \X Breakers)
      /\ AnswersToCome' \in SUBSET (Priced \X Breakers)
  BY DEF AnswersToCome
<1>2. Outstanding \in Nat /\ Outstanding' \in Nat /\ bound \in Nat /\ MaxCost \in Nat /\ Hard \in Nat
  <2>1. Outstanding \in Nat /\ Outstanding' \in Nat
    BY <1>1, AnswersCounted DEF Outstanding
  <2>2. Cardinality(Priced) \in Nat /\ Cardinality(Breakers) \in Nat
    BY <1>1, AnswersCounted
  <2>3. Cardinality(Priced) * Cardinality(Breakers) \in Nat
    BY <2>2
  <2>4. MaxCost \in Nat /\ Hard \in Nat
    BY TiersKnown
  <2>5. MaxCost * (Cardinality(Priced) * Cardinality(Breakers)) \in Nat
    BY <2>3, <2>4, TimesMonotone
  <2> QED BY <2>1, <2>4, <2>5
<1>3. Hard > 0 => Spent(history) + MaxCost * Outstanding < bound
  BY DEF OverrunByInFlight
<1>4. ASSUME Hard > 0 => Spent(history') < Hard, Spent(history') \in Nat PROVE OverrunByInFlight'
  BY <1>1, <1>4, BelowCeiling DEF OverrunByInFlight, Outstanding
<1>5. CASE Tick
  <2>1. Spent(history') = Spent(history) /\ asked' = asked
    BY <1>5, TickSpent
  <2>2. Outstanding' = Outstanding
    BY <2>1 DEF Outstanding, AnswersToCome
  <2> QED BY <1>3, <2>1, <2>2 DEF OverrunByInFlight
<1>6. CASE Restart
  <2>1. Spent(history') = 0
    BY <1>6, NothingSpent DEF Restart
  <2> QED BY <1>4, <2>1
<1>7. ASSUME NEW c \in Calls,
             Begin(c) \/ Answer(c) \/ LocalAnswer(c) \/ RequestFails(c) \/ LocalFails(c)
      PROVE  OverrunByInFlight'
  <2>1. /\ Spent(history) \in Nat /\ Spent(history') \in Nat
        /\ \/ Begin(c) /\ history' = history
           \/ Spent(history') <= Spent(history) /\ Outstanding' <= Outstanding
           \/ Spent(history') <= Spent(history) + MaxCost /\ Outstanding' + 1 <= Outstanding
    BY <1>7, SpentStep
  <2>2. CASE Begin(c) /\ history' = history
    <3>1. Spent(history') < Hard
      BY <2>2 DEF Begin
    <3> QED BY <1>4, <2>1, <3>1
  <2>3. CASE ~ (Begin(c) /\ history' = history)
    <3> DEFINE now == MaxCost * Outstanding
               next == MaxCost * Outstanding'
    <3>1. /\ now \in Nat /\ next \in Nat
          /\ Outstanding' <= Outstanding => next <= now
          /\ Outstanding' + 1 <= Outstanding => next + MaxCost <= now
      BY <1>2, TimesMonotone
    <3>2. Hard > 0 => Spent(history) + now < bound
      BY <1>3
    <3> HIDE DEF now, next, bound
    <3>3. Spent(history') + next <= Spent(history) + now
      <4>1. \A w, x, y, z \in Nat : w <= x /\ y <= z => w + y <= x + z
        OBVIOUS
      <4>2. CASE Spent(history') <= Spent(history) /\ Outstanding' <= Outstanding
        BY <2>1, <3>1, <4>1, <4>2, Zenon
      <4>3. CASE Spent(history') <= Spent(history) + MaxCost /\ Outstanding' + 1 <= Outstanding
        <5>1. \A w, x, y, z, n \in Nat : w <= x + n /\ y + n <= z => w + y <= x + z
          OBVIOUS
        <5> QED BY <1>2, <2>1, <3>1, <4>3, <5>1, Zenon
      <4> QED BY <2>1, <2>3, <4>2, <4>3, Zenon
    <3>4. Hard > 0 => Spent(history') + next < bound
      <4>1. bound \in Nat /\ Spent(history') \in Nat /\ Spent(history) \in Nat
        BY <1>2, <2>1
      <4>2. \A x, y, z \in Nat : x <= y /\ y < z => x < z
        OBVIOUS
      <4>3. Spent(history') + next \in Nat /\ Spent(history) + now \in Nat
        BY <3>1, <4>1
      <4> QED BY <3>2, <3>3, <4>1, <4>2, <4>3, Zenon
    <3> QED BY <3>4 DEF OverrunByInFlight, next, bound
  <2> QED BY <2>2, <2>3
<1>8. CASE UNCHANGED routerVars
  BY <1>3, <1>8 DEF routerVars, OverrunByInFlight, Outstanding, AnswersToCome
<1> QED BY <1>5, <1>6, <1>7, <1>8 DEF RouterNext

(* The daily ceiling is exceeded by less than what the calls that were     *)
(* under way when it was reached may cost at every tier that rejects or is *)
(* rejected, for any number of calls, tiers and records.                   *)
THEOREM OverrunBounded == RouterSpec => []OverrunByInFlight
<1>1. RouterInit => OverrunByInFlight
  <2> SUFFICES ASSUME RouterInit PROVE OverrunByInFlight
    OBVIOUS
  <2>1. Spent(history) = 0 /\ Hard \in Nat
    BY NothingSpent, TiersKnown DEF RouterInit
  <2>2. AnswersToCome \in SUBSET (Priced \X Breakers)
    BY DEF AnswersToCome
  <2> QED BY <2>1, <2>2, BelowCeiling DEF OverrunByInFlight, Outstanding
<1> QED BY <1>1, RouterTypes, RouterTypeStep, OverrunStep, PTL DEF RouterSpec
=============================================================================
