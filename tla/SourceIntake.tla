---------------------------- MODULE SourceIntake ----------------------------
(***************************************************************************)
(* What becomes of a source event and of the documents it names before its *)
(* entities are resolved: worker-extractor takes the event from            *)
(* ADAPTER_OUT, merges the fields it finds into its row and publishes its  *)
(* aliases; worker-document takes a fetch request, stores the document,    *)
(* merges its metadata into the same row and announces it.                 *)
(*                                                                         *)
(* An entry of a stream is delivered as WorkerQueue has it: a handler that *)
(* answers retry is delivered again, one whose process dies leaves its     *)
(* dedup key set, so the redelivery acknowledges its entry unhandled.  A   *)
(* publish that the client sends again adds an entry of the same dedup     *)
(* key, which is another delivery of the first: envelopes are sets.        *)
(***************************************************************************)
EXTENDS Naturals, FiniteSets

CONSTANTS
  Events,     \* the envelopes on ADAPTER_OUT
  Aliases,    \* the names and registrations that occur
  AliasesOf,  \* per event, what the extraction and its payload name
  Textless,   \* events of no procurement kind, or without text
  Federated,  \* events of another region, without a row in source.events
  Requests,   \* the envelopes on DOCUMENT_FETCH
  Documents,  \* contents, by their sha256
  DocumentOf, \* per request, what its URL answers with
  EventOf,    \* per request, the event whose payload named it
  MaxFaults   \* bound: failed commands and crashes

ASSUME IntakeAssumption ==
  /\ IsFiniteSet(Events) /\ IsFiniteSet(Aliases) /\ AliasesOf \in [Events -> SUBSET Aliases]
  /\ Textless \subseteq Events /\ Federated \subseteq Events
  /\ IsFiniteSet(Requests) /\ DocumentOf \in [Requests -> Documents]
  /\ EventOf \in [Requests -> Events] /\ MaxFaults \in Nat /\ IsFiniteSet(Documents)

VARIABLES
  extraction,  \* per event, where its extractor's handler is
  found,       \* per event, the aliases that handler has in hand
  sent,        \* per event, its envelope on ENTITY_RESOLVE, if any
  fields,      \* the rows of source.events with extracted fields
  fetching,    \* per request, where its document handler is
  documents,   \* source.documents: per content, the requests that have inserted its row
  metadata,    \* the requests whose document's metadata is in their event's row
  announced,   \* the documents announced on ENTITY_RESOLVE
  interrupted, \* history: the requests whose handler was cut short after its insert
  faults       \* how much of its bound is spent

extractorVars == <<extraction, found, sent, fields>>
documentVars == <<fetching, documents, metadata, announced, interrupted>>
intakeVars == <<extractorVars, documentVars, faults>>

(* An entry that is settled, and how. *)
Settled == {"acked", "dead", "unhandled"}
Extracting == {"merging", "publishing"}
Inserted == {"merging", "publishing"}
Handling == Inserted \union {"storing"}

(* The first envelope of a dedup key is the one the consumer handles. *)
Nothing == [there |-> "no", aliases |-> {}]
Envelope(aliases) == [there |-> "yes", aliases |-> aliases]

-----------------------------------------------------------------------------
IntakeInit ==
  /\ extraction = [e \in Events |-> "waiting"] /\ found = [e \in Events |-> {}]
  /\ sent = [e \in Events |-> Nothing] /\ fields = {}
  /\ fetching = [r \in Requests |-> "waiting"]
  /\ documents = [d \in Documents |-> {}] /\ metadata = {} /\ announced = {}
  /\ interrupted = {} /\ faults = 0

Fault == faults < MaxFaults /\ faults' = faults + 1

(* handle() of worker-extractor up to its first write.  What it does not   *)
(* extract from, and what it fails to extract from, goes on without names. *)
Extract(e) ==
  /\ extraction[e] = "waiting"
  /\ \/ /\ e \notin Textless
        /\ extraction' = [extraction EXCEPT ![e] = "merging"]
        /\ found' = [found EXCEPT ![e] = AliasesOf[e]]
     \/ /\ extraction' = [extraction EXCEPT ![e] = "publishing"]
        /\ found' = [found EXCEPT ![e] = {}]
  /\ UNCHANGED <<sent, fields, documentVars, faults>>

(* An event without a row is updated nowhere, and goes on. *)
MergeFields(e) ==
  /\ extraction[e] = "merging"
  /\ extraction' = [extraction EXCEPT ![e] = "publishing"]
  /\ fields' = fields \union ({e} \ Federated)
  /\ UNCHANGED <<found, sent, documentVars, faults>>

PublishAliases(e) ==
  /\ extraction[e] = "publishing"
  /\ extraction' = [extraction EXCEPT ![e] = "acked"]
  /\ sent' = [sent EXCEPT ![e] = Envelope(found[e])]
  /\ UNCHANGED <<found, fields, documentVars, faults>>

(* A failed merge is retried; a failed publish, which Redis may have run,  *)
(* escapes handle(), and process() dead-letters the entry.                 *)
ExtractionFails(e) ==
  /\ Fault
  /\ \/ extraction[e] = "merging" /\ UNCHANGED sent
        /\ extraction' = [extraction EXCEPT ![e] = "waiting"]
     \/ extraction[e] = "publishing" /\ sent' \in {sent, [sent EXCEPT ![e] = Envelope(found[e])]}
        /\ extraction' = [extraction EXCEPT ![e] = "dead"]
  /\ UNCHANGED <<found, fields, documentVars>>

-----------------------------------------------------------------------------
(* handle() of worker-document up to its look into source.documents: a     *)
(* refused address, a redirect, an error 4xx and a body too large are      *)
(* dead-lettered; an answer 5xx, retried, changes nothing; a content that  *)
(* is there already is acknowledged.                                       *)
Download(r) ==
  /\ fetching[r] = "waiting"
  /\ \/ fetching' = [fetching EXCEPT ![r] = "dead"]
     \/ fetching' = [fetching EXCEPT ![r] =
          IF documents[DocumentOf[r]] # {} THEN "acked" ELSE "storing"]
  /\ UNCHANGED <<extractorVars, documents, metadata, announced, interrupted, faults>>

(* Mutant: an insert that finds the row there ends the handler. *)
StoreDocumentOnce(r) ==
  /\ fetching[r] = "storing"
  /\ fetching' = [fetching EXCEPT ![r] = IF documents[DocumentOf[r]] = {} THEN "merging" ELSE "acked"]
  /\ documents' = [documents EXCEPT ![DocumentOf[r]] = @ \union {r}]
  /\ UNCHANGED <<extractorVars, metadata, announced, interrupted, faults>>

(* The pin, and INSERT ... ON CONFLICT DO NOTHING, which answers the same  *)
(* whether it inserts or not.                                              *)
StoreDocument(r) ==
  /\ fetching[r] = "storing"
  /\ fetching' = [fetching EXCEPT ![r] = "merging"]
  /\ documents' = [documents EXCEPT ![DocumentOf[r]] = @ \union {r}]
  /\ UNCHANGED <<extractorVars, metadata, announced, interrupted, faults>>

(* Errors of the two merges are logged and passed over. *)
MergeMetadata(r) ==
  /\ fetching[r] = "merging"
  /\ fetching' = [fetching EXCEPT ![r] = "publishing"]
  /\ \/ metadata' = metadata \union (IF EventOf[r] \in Federated THEN {} ELSE {r}) /\ UNCHANGED faults
     \/ UNCHANGED metadata /\ Fault
  /\ UNCHANGED <<extractorVars, documents, announced, interrupted>>

Announce(r) ==
  /\ fetching[r] = "publishing"
  /\ fetching' = [fetching EXCEPT ![r] = "acked"]
  /\ announced' = announced \union {DocumentOf[r]}
  /\ UNCHANGED <<extractorVars, documents, metadata, interrupted, faults>>

(* Any other error is caught and retried; the publish may have been run.   *)
DocumentFails(r) ==
  /\ fetching[r] \in Handling /\ Fault
  /\ fetching' = [fetching EXCEPT ![r] = "waiting"]
  /\ interrupted' = IF fetching[r] \in Inserted THEN interrupted \union {r} ELSE interrupted
  /\ \/ UNCHANGED announced
     \/ fetching[r] = "publishing" /\ announced' = announced \union {DocumentOf[r]}
  /\ UNCHANGED <<extractorVars, documents, metadata>>

-----------------------------------------------------------------------------
(* A worker dies, and with it its handlers, some of them before their      *)
(* first write.                                                            *)
ExtractorCrash ==
  /\ Fault
  /\ \E begun \in SUBSET {e \in Events : extraction[e] = "waiting"} :
       extraction' = [e \in Events |->
         IF e \in begun \/ extraction[e] \in Extracting THEN "unhandled" ELSE extraction[e]]
  /\ UNCHANGED <<found, sent, fields, documentVars>>

DocumentCrash ==
  /\ Fault
  /\ \E begun \in SUBSET {r \in Requests : fetching[r] = "waiting"} :
       fetching' = [r \in Requests |->
         IF r \in begun \/ fetching[r] \in Handling THEN "unhandled" ELSE fetching[r]]
  /\ interrupted' = interrupted \union {r \in Requests : fetching[r] \in Inserted}
  /\ UNCHANGED <<extractorVars, documents, metadata, announced>>

IntakeNext ==
  \/ \E e \in Events : \/ Extract(e) \/ MergeFields(e) \/ PublishAliases(e)
                       \/ ExtractionFails(e)
  \/ \E r \in Requests : \/ Download(r) \/ StoreDocument(r) \/ MergeMetadata(r)
                         \/ Announce(r) \/ DocumentFails(r)
  \/ ExtractorCrash \/ DocumentCrash

IntakeTypeOK ==
  /\ extraction \in [Events -> Settled \union Extracting \union {"waiting"}]
  /\ found \in [Events -> SUBSET Aliases] /\ fields \subseteq Events
  /\ sent \in [Events -> [there : {"yes", "no"}, aliases : SUBSET Aliases]]
  /\ fetching \in [Requests -> Settled \union Handling \union {"waiting"}]
  /\ documents \in [Documents -> SUBSET Requests] /\ metadata \subseteq Requests
  /\ announced \subseteq Documents /\ interrupted \subseteq Requests /\ faults \in 0..MaxFaults

(* Every handler that stored a document announces it or was cut short: the *)
(* redelivery finds the row, acknowledges, and announces nothing.          *)
StoredIsAnnounced ==
  \A d \in Documents \ announced :
    \A r \in documents[d] : fetching[r] \in Inserted \/ r \in interrupted
=============================================================================
