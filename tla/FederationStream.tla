-------------------------- MODULE FederationStream --------------------------
(***************************************************************************)
(* Events from a region to the core: the agent's worker                    *)
(* (apps/worker-federation-agent), the batching client and the gRPC server *)
(* of packages/federation-stream, and the core's receiver                  *)
(* (apps/worker-federation-receiver) up to its publish on ADAPTER_OUT.     *)
(*                                                                         *)
(* An envelope is an entry of the region's FEDERATION_PUSH stream.  The    *)
(* queue under the agent is WorkerQueue's, taken by what it does to one    *)
(* entry: a retry releases the dedup key and the entry is delivered again, *)
(* and a redelivery that finds the dedup key set is acknowledged without   *)
(* being handled.                                                          *)
(***************************************************************************)
EXTENDS Naturals, Sequences, FiniteSets

CONSTANTS
  Envelopes,    \* what the region has to push
  Kind,         \* what each of them is
  BatchSize,    \* FEDERATION_BATCH_SIZE
  MaxAttempts,  \* bound: handler calls per envelope; then the retry budget is spent
  MaxFaults     \* bound: broken calls, failed Redis commands at the core, crashes

(* What is wrong with an envelope: nothing, the agent's region is not its  *)
(* own, the core cannot decode it, or a check of the core refuses it.      *)
Kinds == {"good", "foreign", "garbled", "REGION_MISMATCH",
          "PAYLOAD_TOO_LARGE", "SIGNATURE_INVALID"}

ASSUME FederationAssumption ==
  /\ Kind \in [Envelopes -> Kinds] /\ IsFiniteSet(Envelopes)
  /\ BatchSize \in Nat \ {0} /\ MaxAttempts \in Nat \ {0}
  /\ MaxFaults \in Nat

VARIABLES
  entry,      \* per envelope, its queue entry
  answer,     \* per envelope, the answer its handler has been resolved with
  attempts,   \* per envelope, handler calls so far
  agent,      \* the agent process: "up", "stopping" or "down"
  pending,    \* client: pendingBatch
  resolvers,  \* client: pendingResolvers
  chain,      \* client: the batches flushed behind inflightBatch
  link,       \* the open call: "none", "live", or "dead" and not yet noticed
  batch,      \* the batch of the open call
  todo,       \* its envelopes the core has not handled
  reply,      \* the accepted and rejected lists of the open call
  leftover,   \* per envelope, abandoned calls in which the core still has it
  core,       \* the receiver process: "up" or "down"
  keyOnDisk,  \* whether the region's key is in FEDERATION_KEY_DIR
  keyLoaded,  \* whether it was when the receiver booted
  published,  \* per envelope, its events on ADAPTER_OUT
  repeats,    \* history: per envelope, XADDs that ran and were sent again
  threw,      \* history: envelopes onAccepted has thrown for
  skipped,    \* history: envelopes with a redelivery acknowledged unhandled
  broken,     \* history: handler calls whose gRPC call or process failed them
  faults      \* how much of its bound is spent

clientVars == <<pending, resolvers, chain>>
callVars   == <<link, batch, todo, reply>>
coreVars   == <<leftover, core, keyOnDisk, keyLoaded, published, repeats, threw>>
queueVars  == <<entry, answer, attempts, skipped>>
bounds     == <<broken, faults>>
vars == <<queueVars, agent, clientVars, callVars, coreVars, bounds>>

Codes   == {"KEY_UNKNOWN", "DEDUP_COLLISION", "SIGNATURE_INVALID",
            "REGION_MISMATCH", "REPLAY_WINDOW", "PAYLOAD_TOO_LARGE"}
Answers == {"accepted"} \union Codes
Entries == {"queued", "waiting", "answered", "interrupted", "acked", "dead"}
Batches == [envs : SUBSET Envelopes, waiters : SUBSET Envelopes]

None    == [e \in Envelopes |-> "none"]
NoBatch == [envs |-> {}, waiters |-> {}]
InFlight == {e \in Envelopes : entry[e] \in {"waiting", "answered"}}

-----------------------------------------------------------------------------
Init ==
  /\ entry = [e \in Envelopes |-> "queued"] /\ answer = None
  /\ attempts = [e \in Envelopes |-> 0] /\ skipped = {}
  /\ agent = "up" /\ pending = {} /\ resolvers = {} /\ chain = << >>
  /\ link = "none" /\ batch = NoBatch /\ todo = {} /\ reply = None
  /\ leftover = [e \in Envelopes |-> 0] /\ core = "up"
  /\ keyOnDisk \in {"yes", "no"} /\ keyLoaded = keyOnDisk
  /\ published = [e \in Envelopes |-> 0] /\ repeats = [e \in Envelopes |-> 0]
  /\ threw = {}
  /\ broken = 0 /\ faults = 0

-----------------------------------------------------------------------------
(* The client *)

(* Mutant: the waiters of a batch are looked up when it is sent, and a     *)
(* flush drops what is still waiting.                                      *)
CloseBatchForgetful(envs, waiting) ==
  /\ chain' = Append(chain, [envs |-> envs, waiters |-> {}])
  /\ pending' = {} /\ resolvers' = waiting \ envs

(* Mutant: the envelopes flushed stay in pendingBatch. *)
CloseBatchKeeping(envs, waiting) ==
  /\ chain' = Append(chain, [envs |-> envs, waiters |-> envs \intersect waiting])
  /\ pending' = envs /\ resolvers' = waiting \ envs

(* flush, up to its place behind inflightBatch: the batch takes its        *)
(* envelopes and their resolvers with it.                                  *)
CloseBatch(envs, waiting) ==
  /\ chain' = Append(chain, [envs |-> envs, waiters |-> envs \intersect waiting])
  /\ pending' = {} /\ resolvers' = waiting \ envs

(* push: the envelope joins the batch, and a full batch is flushed. *)
Push(e) ==
  LET envs == pending \union {e} waiting == resolvers \union {e} IN
  IF Cardinality(envs) >= BatchSize
    THEN CloseBatch(envs, waiting)
    ELSE pending' = envs /\ resolvers' = waiting /\ UNCHANGED chain

(* handle, up to its await: an entry of another region is dead-lettered. *)
Handle(e) ==
  /\ agent = "up" /\ entry[e] = "queued"
  /\ IF Kind[e] = "foreign"
       THEN /\ entry' = [entry EXCEPT ![e] = "dead"]
            /\ UNCHANGED <<attempts, clientVars>>
       ELSE /\ attempts[e] < MaxAttempts
            /\ attempts' = [attempts EXCEPT ![e] = @ + 1]
            /\ entry' = [entry EXCEPT ![e] = "waiting"]
            /\ Push(e)
  /\ UNCHANGED <<answer, skipped, agent, callVars, coreVars, bounds>>

(* The interval timer, which runs until the client is closed. *)
Flush ==
  /\ agent # "down" /\ pending # {}
  /\ CloseBatch(pending, resolvers)
  /\ UNCHANGED <<queueVars, agent, callVars, coreVars, bounds>>

(* The call before has settled: the next batch is written and ended.       *)
OpenCall ==
  /\ link = "none" /\ chain # << >>
  /\ batch' = Head(chain) /\ chain' = Tail(chain) /\ reply' = None
  /\ IF core = "up"
       THEN link' = "live" /\ todo' = Head(chain).envs
       ELSE link' = "dead" /\ todo' = {}
  /\ UNCHANGED <<queueVars, agent, pending, resolvers, coreVars,
                 bounds>>

CloseCall == link' = "none" /\ batch' = NoBatch /\ todo' = {} /\ reply' = None

(* Every resolver of the batch is called with its envelope's answer. *)
Resolve(ans) ==
  /\ entry'  = [e \in Envelopes |-> IF e \in batch.waiters THEN "answered" ELSE entry[e]]
  /\ answer' = [e \in Envelopes |-> IF e \in batch.waiters THEN ans[e] ELSE answer[e]]

(* The call's callback with an ack ... *)
Acknowledge ==
  /\ link = "live" /\ todo = {}
  /\ Resolve(reply) /\ CloseCall
  /\ UNCHANGED <<attempts, skipped, agent, clientVars, coreVars,
                 bounds>>

(* Mutant: a failed call resolves with what it had collected. *)
CallFailedHopeful ==
  /\ link = "dead"
  /\ Resolve([e \in Envelopes |-> "accepted"]) /\ CloseCall
  /\ broken' = broken + 1
  /\ UNCHANGED <<attempts, skipped, agent, clientVars, coreVars, faults>>

(* ... and with an error: KEY_UNKNOWN for the whole batch. *)
CallFailed ==
  /\ link = "dead"
  /\ Resolve([e \in Envelopes |-> "KEY_UNKNOWN"]) /\ CloseCall
  /\ broken' = broken + 1
  /\ UNCHANGED <<attempts, skipped, agent, clientVars, coreVars, faults>>

(* Where the agent's handler goes with an answer. *)
Acks  == {"accepted", "DEDUP_COLLISION"}
Fatal == {"SIGNATURE_INVALID", "REGION_MISMATCH", "REPLAY_WINDOW", "PAYLOAD_TOO_LARGE"}

(* A retry meets the worker's retry budget, and then waits for the pending *)
(* entry, which a redelivery during the wait has acknowledged.             *)
AfterRetry(e) ==
  (IF e \in skipped THEN {"acked"}
   ELSE IF attempts[e] < MaxAttempts THEN {"queued"} ELSE {}) \union {"dead"}

(* handle, after its await.                                                *)
Settle(e) ==
  /\ entry[e] = "answered" /\ agent # "down"
  /\ \/ answer[e] \in Acks /\ entry' = [entry EXCEPT ![e] = "acked"]
     \/ answer[e] \in Fatal /\ entry' = [entry EXCEPT ![e] = "dead"]
     \/ /\ answer[e] = "KEY_UNKNOWN"
        /\ \E next \in AfterRetry(e) : entry' = [entry EXCEPT ![e] = next]
  /\ answer' = [answer EXCEPT ![e] = "none"]
  /\ UNCHANGED <<attempts, skipped, agent, clientVars, callVars,
                 coreVars, bounds>>

(* The entry is reclaimed while its handler waits: the dedup script finds  *)
(* the key set and acknowledges.                                           *)
ReclaimWaiting(e) ==
  /\ entry[e] = "waiting" /\ agent = "up" /\ e \notin skipped
  /\ skipped' = skipped \union {e}
  /\ UNCHANGED <<entry, answer, attempts, agent, clientVars,
                 callVars, coreVars, bounds>>

(* An entry whose handler died with the agent is reclaimed: acknowledged   *)
(* unhandled while its dedup key lasts, handled again after that.          *)
Redeliver(e) ==
  /\ entry[e] = "interrupted" /\ agent = "up"
  /\ \/ entry' = [entry EXCEPT ![e] = "acked"] /\ skipped' = skipped \union {e}
     \/ /\ e \notin skipped /\ attempts[e] < MaxAttempts
        /\ entry' = [entry EXCEPT ![e] = "queued"] /\ UNCHANGED skipped
  /\ UNCHANGED <<answer, attempts, agent, clientVars, callVars,
                 coreVars, bounds>>

-----------------------------------------------------------------------------
(* The core *)

(* verifyEnvelopeWithPolicy: the first check that fails, and time may have *)
(* taken the envelope out of the replay window.  The layered resolver only *)
(* reaches the directory layer: the Vault layer's resolve reads a cache    *)
(* that nothing fills.                                                     *)
Verdicts(e) ==
  IF Kind[e] \in {"REGION_MISMATCH", "PAYLOAD_TOO_LARGE"} THEN {Kind[e]}
  ELSE {"REPLAY_WINDOW"} \union
       (IF keyLoaded = "no" THEN {"KEY_UNKNOWN"}
        ELSE IF Kind[e] = "SIGNATURE_INVALID" THEN {"SIGNATURE_INVALID"} ELSE {"ok"})

(* QueueClient.publish: Redis runs one XADD so often; after a run whose    *)
(* reply is lost the client sends the command again.                       *)
Xadd(e, runs, again) ==
  /\ published' = [published EXCEPT ![e] = @ + runs]
  /\ repeats'   = [repeats EXCEPT ![e] = @ + again]

(* onAccepted publishes and then records the lag.  It throws for a payload *)
(* that does not decode, and where one of the two commands fails, the      *)
(* first perhaps after Redis has run it.                                   *)
OnAccepted(e, ans) ==
  \/ /\ Kind[e] # "garbled" /\ ans = "accepted"
     /\ \E again \in 0..MaxFaults :
          /\ faults + again <= MaxFaults /\ faults' = faults + again
          /\ Xadd(e, again + 1, again)
     /\ UNCHANGED threw
  \/ /\ Kind[e] = "garbled" /\ ans = "DEDUP_COLLISION"
     /\ threw' = threw \union {e}
     /\ UNCHANGED <<published, repeats, faults>>
  \/ /\ Kind[e] # "garbled" /\ ans = "DEDUP_COLLISION"
     /\ threw' = threw \union {e}
     /\ \E again \in 0..MaxFaults, last \in {0, 1} :
          /\ faults + again < MaxFaults /\ faults' = faults + again + 1
          /\ Xadd(e, again + last, again)

(* The 'data' handler, one envelope of a call after the other. *)
Receive(e, ans) ==
  \/ "ok" \in Verdicts(e) /\ OnAccepted(e, ans)
  \/ ans \in Verdicts(e) /\ UNCHANGED <<published, repeats, threw, faults>>

ReceiveOpen(e, ans) ==
  /\ link = "live" /\ e \in todo
  /\ Receive(e, ans)
  /\ todo' = todo \ {e} /\ reply' = [reply EXCEPT ![e] = ans]
  /\ UNCHANGED <<queueVars, agent, clientVars, link, batch, leftover,
                 core, keyOnDisk, keyLoaded, broken>>

(* The same in a call whose client is gone: its lists go nowhere. *)
ReceiveLeftover(e, ans) ==
  /\ leftover[e] > 0
  /\ Receive(e, ans)
  /\ leftover' = [leftover EXCEPT ![e] = @ - 1]
  /\ UNCHANGED <<queueVars, agent, clientVars, callVars, core,
                 keyOnDisk, keyLoaded, broken>>

(* What the core has received of an abandoned call it goes on handling. *)
Abandon(got) ==
  leftover' = [e \in Envelopes |-> leftover[e] + IF e \in got THEN 1 ELSE 0]

-----------------------------------------------------------------------------
(* Faults *)

(* The connection breaks; the core has received part of the batch. *)
Disconnect ==
  /\ link = "live" /\ faults < MaxFaults /\ faults' = faults + 1
  /\ link' = "dead"
  /\ \E got \in SUBSET todo : Abandon(got)
  /\ todo' = {}
  /\ UNCHANGED <<queueVars, agent, clientVars, batch, reply, core,
                 keyOnDisk, keyLoaded, published, repeats, threw, broken>>

(* The receiver dies, or is stopped and its five seconds of grace end. *)
CoreCrash ==
  /\ core = "up" /\ faults < MaxFaults /\ faults' = faults + 1
  /\ core' = "down"
  /\ leftover' = [e \in Envelopes |-> 0]
  /\ link' = IF link = "live" THEN "dead" ELSE link
  /\ todo' = {}
  /\ UNCHANGED <<queueVars, agent, clientVars, batch, reply,
                 keyOnDisk, keyLoaded, published, repeats, threw, broken>>

(* The receiver boots: DirectoryKeyResolver.load scans the directory once. *)
CoreStart ==
  /\ core = "down"
  /\ core' = "up" /\ keyLoaded' = keyOnDisk
  /\ UNCHANGED <<queueVars, agent, clientVars, callVars, leftover,
                 keyOnDisk, published, repeats, threw, bounds>>

(* The region's key is copied into FEDERATION_KEY_DIR. *)
InstallKey ==
  /\ keyOnDisk = "no" /\ keyOnDisk' = "yes"
  /\ UNCHANGED <<queueVars, agent, clientVars, callVars, leftover,
                 core, keyLoaded, published, repeats, threw, bounds>>

ClientGone ==
  /\ agent' = "down" /\ pending' = {} /\ resolvers' = {} /\ chain' = << >>
  /\ CloseCall

(* The agent dies, or the shutdown harness's hard timeout ends it: its     *)
(* handlers are interrupted, and the core goes on with what it has got.    *)
AgentCrash ==
  /\ agent # "down" /\ faults < MaxFaults /\ faults' = faults + 1
  /\ ClientGone
  /\ entry' = [e \in Envelopes |-> IF e \in InFlight THEN "interrupted" ELSE entry[e]]
  /\ answer' = None
  /\ \E got \in SUBSET todo : Abandon(got)
  /\ broken' = broken + 1
  /\ UNCHANGED <<attempts, skipped, core, keyOnDisk, keyLoaded,
                 published, repeats, threw>>

(* Shutdown: the callbacks run in reverse order of their registration, so  *)
(* the worker stops first and waits for what it has in flight ...          *)
AgentStop ==
  /\ agent = "up" /\ agent' = "stopping"
  /\ UNCHANGED <<queueVars, clientVars, callVars, coreVars, bounds>>

(* Mutant: the client is closed before the worker has drained. *)
AgentStoppedEarly ==
  /\ agent = "stopping"
  /\ ClientGone
  /\ UNCHANGED <<queueVars, coreVars, bounds>>

(* ... and only then is the client closed. *)
AgentStopped ==
  /\ agent = "stopping" /\ InFlight = {}
  /\ ClientGone
  /\ UNCHANGED <<queueVars, coreVars, bounds>>

AgentStart ==
  /\ agent = "down" /\ agent' = "up"
  /\ UNCHANGED <<queueVars, clientVars, callVars, coreVars, bounds>>

-----------------------------------------------------------------------------
Next ==
  \/ \E e \in Envelopes :
       Handle(e) \/ Settle(e) \/ ReclaimWaiting(e) \/ Redeliver(e)
  \/ \E e \in Envelopes, ans \in Answers : ReceiveOpen(e, ans) \/ ReceiveLeftover(e, ans)
  \/ Flush \/ OpenCall \/ Acknowledge \/ CallFailed
  \/ Disconnect \/ CoreCrash \/ CoreStart \/ InstallKey
  \/ AgentCrash \/ AgentStop \/ AgentStopped \/ AgentStart

Spec == Init /\ [][Next]_vars

(* The timer fires, the queue redelivers, the orchestrator restarts both   *)
(* processes, a receiver that is up handles what it has, and the channel's *)
(* keepalive reports a peer that is gone.                                  *)
Fairness ==
  /\ WF_vars(Flush) /\ WF_vars(OpenCall) /\ WF_vars(Acknowledge) /\ WF_vars(CallFailed)
  /\ WF_vars(CoreStart) /\ WF_vars(AgentStart) /\ WF_vars(AgentStopped)
  /\ WF_vars(\E e \in Envelopes, ans \in Answers : ReceiveOpen(e, ans))
  /\ \A e \in Envelopes : SF_vars(Handle(e)) /\ WF_vars(Settle(e)) /\ SF_vars(Redeliver(e))

FairSpec == Spec /\ Fairness

-----------------------------------------------------------------------------
TypeOK ==
  /\ entry \in [Envelopes -> Entries]
  /\ answer \in [Envelopes -> Answers \union {"none"}]
  /\ attempts \in [Envelopes -> Nat] /\ skipped \subseteq Envelopes
  /\ agent \in {"up", "stopping", "down"}
  /\ pending \subseteq Envelopes /\ resolvers \subseteq Envelopes
  /\ chain \in Seq(Batches)
  /\ link \in {"none", "live", "dead"} /\ batch \in Batches
  /\ todo \subseteq Envelopes /\ reply \in [Envelopes -> Answers \union {"none"}]
  /\ leftover \in [Envelopes -> Nat] /\ core \in {"up", "down"}
  /\ keyOnDisk \in {"yes", "no"} /\ keyLoaded \in {"yes", "no"}
  /\ published \in [Envelopes -> Nat] /\ repeats \in [Envelopes -> Nat]
  /\ threw \subseteq Envelopes
  /\ broken \in Nat /\ faults \in Nat

(* push: "The returned Promise resolves when the core acks the batch this  *)
(* envelope ended up in".  Every waiting handler has its resolver in       *)
(* exactly one place, together with its envelope: with the pending batch,  *)
(* with one flushed batch, or with the open call; and each resolver there  *)
(* has its handler.  A handler without one would wait for ever, for no     *)
(* call has a deadline.                                                    *)
InChain(e, i) == i \in 1..Len(chain) /\ e \in chain[i].waiters

EveryWaiterResolvable ==
  /\ resolvers = pending /\ batch.waiters = batch.envs
  /\ \A i \in 1..Len(chain) : chain[i].waiters = chain[i].envs
  /\ \A e \in Envelopes :
       /\ entry[e] = "waiting" <=> \/ e \in pending \union batch.waiters
                                 \/ \E i \in 1..Len(chain) : InChain(e, i)
       /\ ~(e \in pending /\ e \in batch.waiters)
       /\ \A i \in 1..Len(chain) : InChain(e, i) =>
            /\ e \notin pending \union batch.waiters
            /\ \A j \in 1..Len(chain) : InChain(e, j) => i = j

(* An envelope acknowledged in the region was published at the core, or    *)
(* the core's handler threw for it, or the queue acknowledged a redelivery *)
(* of it unhandled.                                                        *)
AckedIsAccounted ==
  \A e \in Envelopes :
    entry[e] = "acked" => published[e] > 0 \/ e \in threw \cup skipped

(* "at-least-once delivery": each further event of an envelope at the core *)
(* has a broken call or a crash that made the region push it again, or an  *)
(* XADD that Redis ran and the core's client sent again; and an envelope   *)
(* that is both published and dead-lettered has a broken call or a crash.  *)
ExtraEventsNeedBreaks ==
  \A e \in Envelopes :
    /\ published[e] <= 1 + broken + repeats[e]
    /\ published[e] > 0 /\ entry[e] = "dead" => broken > 0

(* Every envelope in the region's stream ends acknowledged or dead.        *)
EventuallySettled ==
  \A e \in Envelopes : entry[e] = "queued" ~> entry[e] \in {"acked", "dead"}
=============================================================================
