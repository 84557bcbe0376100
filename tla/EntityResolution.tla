-------------------------- MODULE EntityResolution --------------------------
(***************************************************************************)
(* worker-entity: the aliases of an event are matched with the canonical   *)
(* entities by registration or by name, what matches by name only is held  *)
(* for review, what matches nothing is clustered by a language model, and  *)
(* every canonical the event has touched is dispatched to the patterns.    *)
(* Handlers of several envelopes run at a time.                            *)
(***************************************************************************)
EXTENDS SourceIntake, Sequences

CONSTANTS
  NameOf,        \* per alias, what normalizeName makes of it
  RegistrationOf, \* per alias, the RCCM or NIU it carries, or Unregistered
  Unregistered,
  Foldable,      \* the aliases that SQL folds to the name normalizeName gives
  Seeds,         \* canonicals with a registration, which no worker writes
  ModelClusters, \* the clusters the language model may answer with
  MaxClusters    \* bound: clusters of one answer of the model

(* zErResp: any name and any names under it, whatever was asked about. *)
Clusters == [display : Aliases, members : SUBSET Aliases \ {{}}]

ASSUME EntityAssumption ==
  /\ NameOf \in [Aliases -> Aliases] /\ Foldable \subseteq Aliases
  /\ DOMAIN RegistrationOf = Aliases /\ MaxClusters \in Nat
  /\ ModelClusters \subseteq Clusters
  /\ Seeds \in Seq([display : Aliases, registration : {RegistrationOf[a] : a \in Aliases} \ {Unregistered}])

VARIABLES
  resolving,  \* per event, its handler and that handler's locals
  canonicals, \* entity.canonical, in the order of insertion
  aliases,    \* entity.alias: <<canonical, alias, event>>
  review,     \* entity.er_review_queue: <<canonical, alias, event, attempt>>
  dispatched, \* the envelopes on PATTERN_DETECT: <<event, canonical>>
  attempt,    \* per event, how many of its handlers have failed
  omitted     \* history: per event, what the model's answer left out

entityVars == <<resolving, canonicals, aliases, review, dispatched, attempt, omitted>>
vars == <<intakeVars, entityVars>>

(* A handler without locals, at one of its points. *)
Handler(at) == [at |-> at, todo |-> {}, strong |-> {}, held |-> {}, left |-> {},
                clusters |-> {}, ids |-> {}]

Running == {"looking", "writing", "asking", "storing", "mirroring", "dispatching"}

(* The canonicals a lookup may answer with: the first row, and by name     *)
(* only the rows whose display name SQL folds to the name.                 *)
Registered(a) == {c \in 1..Len(canonicals) : RegistrationOf[a] # Unregistered
                    /\ canonicals[c].registration = RegistrationOf[a]}

(* Mutant: by name, only what has a registration is looked up. *)
NamesakesRegistered(a) == {c \in 1..Len(canonicals) : canonicals[c].registration # Unregistered
                             /\ NameOf[canonicals[c].display] = NameOf[a]}

Namesakes(a) == {c \in 1..Len(canonicals) : canonicals[c].display \in Foldable
                    /\ NameOf[canonicals[c].display] = NameOf[a]}

-----------------------------------------------------------------------------
Init ==
  /\ IntakeInit
  /\ resolving = [e \in Events |-> Handler("waiting")]
  /\ canonicals = [c \in DOMAIN Seeds |->
       [display |-> Seeds[c].display, registration |-> Seeds[c].registration, mirror |-> "synced",
        by |-> {}, attempt |-> 0, seen |-> {}]]
  /\ aliases = {} /\ review = {} /\ dispatched = {}
  /\ attempt = [e \in Events |-> 0] /\ omitted = [e \in Events |-> {}]

MoveTo(e, h) == resolving' = [resolving EXCEPT ![e] = h]

(* An envelope without aliases, the one worker-document sends among them,  *)
(* is acknowledged at once.                                                *)
Take(e) ==
  /\ resolving[e].at = "waiting" /\ sent[e].there = "yes"
  /\ MoveTo(e, IF sent[e].aliases = {} THEN Handler("acked")
               ELSE [Handler("looking") EXCEPT !.todo = sent[e].aliases])
  /\ UNCHANGED <<intakeVars, canonicals, aliases, review, dispatched, attempt, omitted>>

(* rulePass, one lookup: by registration, then by name, then not at all.   *)
(* What is left for the model keeps how many rows its lookup has seen.     *)
LookUp(e) ==
  LET h == resolving[e] IN
  /\ h.at = "looking"
  /\ \E a \in h.todo :
       LET rest == [h EXCEPT !.todo = @ \ {a}] IN
       \/ \E c \in Registered(a) : MoveTo(e, [rest EXCEPT !.strong = @ \union {<<a, c>>}])
       \/ /\ Registered(a) = {}
          /\ \E c \in Namesakes(a) : MoveTo(e, [rest EXCEPT !.held = @ \union {<<a, c>>}])
       \/ /\ Registered(a) = {} /\ Namesakes(a) = {}
          /\ MoveTo(e, [rest EXCEPT !.left = @ \union {<<a, Len(canonicals)>>}])
  /\ UNCHANGED <<intakeVars, canonicals, aliases, review, dispatched, attempt, omitted>>

(* Mutant: a match by name needs no corroboration. *)
CorroboratedAlways(h) == h.held

(* The matches by name whose canonical a registration of the same envelope *)
(* has met as well.                                                        *)
Corroborated(h) == {m \in h.held : \E s \in h.strong : s[2] = m[2]}

Corroborate(e) ==
  LET h == resolving[e] IN
  /\ h.at = "looking" /\ h.todo = {}
  /\ MoveTo(e, [h EXCEPT !.at = "writing", !.strong = @ \union Corroborated(h),
                         !.held = @ \ Corroborated(h)])
  /\ UNCHANGED <<intakeVars, canonicals, aliases, review, dispatched, attempt, omitted>>

Attach(e) ==
  LET h == resolving[e] IN
  /\ h.at = "writing"
  /\ \E m \in h.strong :
       /\ aliases' = aliases \union {<<m[2], m[1], e>>}
       /\ MoveTo(e, [h EXCEPT !.strong = @ \ {m}, !.ids = @ \union {m[2]}])
  /\ UNCHANGED <<intakeVars, canonicals, review, dispatched, attempt, omitted>>

Hold(e) ==
  LET h == resolving[e] IN
  /\ h.at = "writing" /\ h.strong = {}
  /\ \E m \in h.held :
       /\ review' = review \union {<<m[2], m[1], e, attempt[e]>>}
       /\ MoveTo(e, [h EXCEPT !.held = @ \ {m}])
  /\ UNCHANGED <<intakeVars, canonicals, aliases, dispatched, attempt, omitted>>

(* Mutant: the candidates by name are dropped. *)
WrittenUnheld(e) ==
  LET h == resolving[e] IN
  /\ h.at = "writing" /\ h.strong = {}
  /\ MoveTo(e, [h EXCEPT !.at = IF h.left = {} THEN "dispatching" ELSE "asking"])
  /\ UNCHANGED <<intakeVars, canonicals, aliases, review, dispatched, attempt, omitted>>

(* What is written is written; the model is asked about the rest, if any.  *)
Written(e) ==
  LET h == resolving[e] IN
  /\ h.at = "writing" /\ h.strong = {} /\ h.held = {}
  /\ MoveTo(e, [h EXCEPT !.at = IF h.left = {} THEN "dispatching" ELSE "asking"])
  /\ UNCHANGED <<intakeVars, canonicals, aliases, review, dispatched, attempt, omitted>>

(* What the model may answer.  Nothing makes it name every alias, and      *)
(* nothing keeps it to those it was asked about.                           *)
Answers == {s \in SUBSET ModelClusters : Cardinality(s) <= MaxClusters}

Asked(h) == {l[1] : l \in h.left}

Ask(e) ==
  LET h == resolving[e] IN
  /\ h.at = "asking"
  /\ \E answer \in Answers :
       /\ MoveTo(e, [h EXCEPT !.at = "storing", !.clusters = answer])
       /\ omitted' = [omitted EXCEPT ![e] = Asked(h) \ UNION {k.members : k \in answer}]
  /\ UNCHANGED <<intakeVars, canonicals, aliases, review, dispatched, attempt>>

(* seen: how many rows were there when its name was looked up, if it was.  *)
Canonical(e, k) ==
  [display |-> k.display, registration |-> Unregistered, mirror |-> "pending", by |-> {e},
   attempt |-> attempt[e],
   seen |-> {l[2] : l \in {x \in resolving[e].left : x[1] = k.display}}]

(* Mutant: what a cluster has made is not remembered for the dispatch. *)
UpsertClusterForgetful(e) ==
  LET h == resolving[e] c == Len(canonicals) + 1 IN
  /\ h.at = "storing"
  /\ \E k \in h.clusters :
       /\ canonicals' = Append(canonicals, Canonical(e, k))
       /\ aliases' = aliases \union {<<c, a, e>> : a \in k.members}
       /\ MoveTo(e, [h EXCEPT !.at = "mirroring", !.clusters = @ \ {k}])
  /\ UNCHANGED <<intakeVars, review, dispatched, attempt, omitted>>

(* upsertCluster, one transaction: a new canonical and its aliases.        *)
UpsertCluster(e) ==
  LET h == resolving[e] c == Len(canonicals) + 1 IN
  /\ h.at = "storing"
  /\ \E k \in h.clusters :
       /\ canonicals' = Append(canonicals, Canonical(e, k))
       /\ aliases' = aliases \union {<<c, a, e>> : a \in k.members}
       /\ MoveTo(e, [h EXCEPT !.at = "mirroring", !.clusters = @ \ {k}, !.ids = @ \union {c}])
  /\ UNCHANGED <<intakeVars, review, dispatched, attempt, omitted>>

(* The mirror in Neo4j is tried a few times; whether it was written is     *)
(* noted in the row, and the handler goes on.                              *)
Mirror(e) ==
  LET h == resolving[e] IN
  /\ h.at = "mirroring"
  /\ \E c \in h.ids, state \in {"synced", "failed"} :
       /\ canonicals[c].mirror = "pending"
       /\ canonicals' = [canonicals EXCEPT ![c].mirror = state]
  /\ MoveTo(e, [h EXCEPT !.at = "storing"])
  /\ UNCHANGED <<intakeVars, aliases, review, dispatched, attempt, omitted>>

Stored(e) ==
  LET h == resolving[e] IN
  /\ h.at = "storing" /\ h.clusters = {}
  /\ MoveTo(e, [h EXCEPT !.at = "dispatching"])
  /\ UNCHANGED <<intakeVars, canonicals, aliases, review, dispatched, attempt, omitted>>

(* dispatchPatterns: one envelope per canonical, then the acknowledgement. *)
DispatchPattern(e) ==
  LET h == resolving[e] IN
  /\ h.at = "dispatching"
  /\ \E c \in h.ids :
       /\ dispatched' = dispatched \union {<<e, c>>}
       /\ MoveTo(e, [h EXCEPT !.ids = @ \ {c}])
  /\ UNCHANGED <<intakeVars, canonicals, aliases, review, attempt, omitted>>

Acknowledge(e) ==
  LET h == resolving[e] IN
  /\ h.at = "dispatching" /\ h.ids = {}
  /\ MoveTo(e, Handler("acked"))
  /\ UNCHANGED <<intakeVars, canonicals, aliases, review, dispatched, attempt, omitted>>

(* Any error, the model's and a failed publish among them, ends the        *)
(* handler; nothing it has written is undone, and it is delivered again.   *)
ResolutionFails(e) ==
  /\ resolving[e].at \in Running /\ Fault
  /\ MoveTo(e, Handler("waiting"))
  /\ attempt' = [attempt EXCEPT ![e] = @ + 1]
  /\ UNCHANGED <<extractorVars, documentVars, canonicals, aliases, review, dispatched, omitted>>

(* The worker dies: see SourceIntake. *)
EntityCrash ==
  /\ Fault
  /\ resolving' = [e \in Events |->
       IF resolving[e].at \in Running THEN Handler("unhandled") ELSE resolving[e]]
  /\ UNCHANGED <<extractorVars, documentVars, canonicals, aliases, review, dispatched, attempt,
                 omitted>>

EntityNext ==
  \/ \E e \in Events :
       \/ Take(e) \/ LookUp(e) \/ Corroborate(e) \/ Attach(e) \/ Hold(e) \/ Written(e)
       \/ Ask(e) \/ UpsertCluster(e) \/ Mirror(e) \/ Stored(e)
       \/ DispatchPattern(e) \/ Acknowledge(e) \/ ResolutionFails(e)
  \/ EntityCrash

Next ==
  \/ IntakeNext /\ UNCHANGED entityVars
  \/ EntityNext

Spec == Init /\ [][Next]_vars

-----------------------------------------------------------------------------
Registrations == {RegistrationOf[a] : a \in Aliases} \union {Unregistered}

Canonicals == [display : Aliases, registration : Registrations,
               mirror : {"synced", "failed", "pending"}, by : SUBSET Events, attempt : Nat,
               seen : SUBSET Nat]

Handlers == [at : Running \union {"waiting", "acked", "unhandled"}, todo : SUBSET Aliases,
             strong : SUBSET (Aliases \X Nat), held : SUBSET (Aliases \X Nat),
             left : SUBSET (Aliases \X Nat), clusters : SUBSET Clusters, ids : SUBSET Nat]

TypeOK ==
  /\ IntakeTypeOK /\ canonicals \in Seq(Canonicals) /\ resolving \in [Events -> Handlers]
  /\ aliases \subseteq Nat \X Aliases \X Events
  /\ review \subseteq Nat \X Aliases \X Events \X Nat
  /\ dispatched \subseteq Events \X Nat
  /\ attempt \in [Events -> Nat] /\ omitted \in [Events -> SUBSET Aliases]

(* An envelope that is acknowledged leaves no alias behind: each one is    *)
(* with a canonical that has been dispatched for it, is held for review,   *)
(* or was left out by the model.                                           *)
AckedIsResolved ==
  \A e \in Events : resolving[e].at = "acked" =>
    \A a \in sent[e].aliases :
      \/ \E c \in 1..Len(canonicals) : <<c, a, e>> \in aliases /\ <<e, c>> \in dispatched
      \/ \E c \in 1..Len(canonicals) : <<c, a, e, attempt[e]>> \in review
      \/ a \in omitted[e]

(* A canonical the model has given is dispatched for its event, unless the *)
(* handler that stored it failed or died: what delivers the event again    *)
(* finds the canonical by its name, and only holds its aliases for review. *)
StoredIsDispatched ==
  \A c \in 1..Len(canonicals) : \A e \in canonicals[c].by :
    \/ <<e, c>> \in dispatched \/ c \in resolving[e].ids
    \/ canonicals[c].attempt < attempt[e] \/ resolving[e].at = "unhandled"

(* Two canonicals of one name come of handlers that overlap, or of one     *)
(* answer: the second was looked up before the first was there, if SQL     *)
(* folds the name of the first as the worker does.  The one other way is   *)
(* that the model gave the second a name it was not asked about, and that  *)
(* no lookup has seen.                                                     *)
TwinsNeedOverlap ==
  \A c, d \in 1..Len(canonicals) :
    /\ c < d /\ canonicals[d].by # {} /\ canonicals[c].display \in Foldable
    /\ NameOf[canonicals[c].display] = NameOf[canonicals[d].display]
    => \A n \in canonicals[d].seen : n < c

(* "merging on name alone is silent corruption": what a canonical gets     *)
(* from an event that did not make it, it gets with its registration.      *)
NoMergeByName ==
  \A m \in aliases :
    \/ m[3] \in canonicals[m[1]].by
    \/ \E a \in AliasesOf[m[3]] :
         RegistrationOf[a] # Unregistered /\ RegistrationOf[a] = canonicals[m[1]].registration
=============================================================================
