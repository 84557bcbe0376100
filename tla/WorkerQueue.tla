----------------------------- MODULE WorkerQueue -----------------------------
(***************************************************************************)
(* The consumer side of every VIGIL APEX stream: packages/queue,           *)
(* WorkerBase over a Redis stream with one consumer group.                 *)
(*                                                                         *)
(* Redis keeps the stream, the group's last-delivered id (cursor), its     *)
(* pending-entries list (pel), the dedup keys, the retry-budget counter    *)
(* and the dead-letter stream.  A worker process keeps only what a crash   *)
(* loses: whether it runs, its outstanding XREADGROUP and its running      *)
(* process() calls.  Each await on Redis is a step of its own, so calls of *)
(* one or several workers interleave at every await.                       *)
(***************************************************************************)
EXTENDS Naturals, Sequences, FiniteSets

CONSTANTS
  Workers,        \* replicas of one worker application
  Keys,           \* dedup keys
  Malformed,      \* a body the envelope schema rejects
  Bodies,         \* what producers publish
  Concurrency,    \* WorkerBaseConfig.concurrency
  Budgeted,       \* retryBudget.enabled
  MaxPerWindow,   \* retryBudget.maxPerWindow
  ReclaimCount,   \* COUNT of the XAUTOCLAIM
  LongHandlers,   \* whether a handle() may outlast the 24 h of its dedup key
  MaxLen,         \* bound: entries published
  MaxDeliveries,  \* bound: deliveries of an entry
  MaxCrashes,     \* bound: crashes of workers
  MaxStops,       \* bound: orderly stops of workers
  MaxFaults,      \* bound: Redis commands that fail or lose their reply
  MaxRetryAnswers \* bound: handler calls that answer retry

ASSUME QueueAssumption ==
  /\ Malformed \notin Keys /\ Bodies \subseteq Keys \union {Malformed}
  /\ Concurrency \in Nat \ {0} /\ ReclaimCount \in Nat \ {0}
  /\ Budgeted \in BOOLEAN /\ LongHandlers \in BOOLEAN /\ MaxPerWindow \in Nat \ {0}
  /\ MaxLen \in Nat /\ MaxDeliveries \in Nat /\ MaxCrashes \in Nat
  /\ MaxStops \in Nat /\ MaxFaults \in Nat /\ MaxRetryAnswers \in Nat

VARIABLES
  stream,     \* bodies published, the entry's id is its position
  origin,     \* the id the group was created at
  group,      \* the consumer group: "absent" or "present"
  cursor,     \* the group's last-delivered id
  pel,        \* ids delivered and not acknowledged
  stale,      \* ids of pel idle for idleReclaimMs or more
  delivered,  \* per id, deliveries so far (the delivery counter of Redis)
  locks,      \* dedup keys set
  used,       \* retry-budget counter of the current window
  dlq,        \* per id, envelopes on the dead-letter stream
  status,     \* per worker: "down", "up" or "stopping"
  asked,      \* per worker, COUNT of its outstanding XREADGROUP, 0 if none
  calls,      \* the running process() calls
  handled,    \* history: keys whose handler has answered ack
  effects,    \* history: per key, handlers that answered ack since it expired
  resent,     \* history: ids whose dedup script ran and was sent again
  overrun,    \* history: keys that expired while a handler of theirs ran
  stolen,     \* history: keys another call had set when a DEL sent again ran
  crashes, stops, faults, retries \* how much of each bound is spent

redisVars == <<stream, origin, group, cursor, pel, stale, delivered, locks,
               used, dlq>>
ghosts    == <<handled, effects, resent, overrun, stolen>>
bounds    == <<crashes, stops, faults, retries>>
vars      == <<redisVars, status, asked, calls, ghosts, bounds>>

Ids    == 1..MaxLen

(* The await a process() call is suspended at; "rereleasing" awaits a DEL  *)
(* that has run and that the client is going to send again.                *)
Points == {"dedup", "handling", "acking", "reserving", "releasing",
           "rereleasing", "sleeping", "dlqAdd", "dlqAck"}

Calls == [by : Workers, id : Ids, n : Nat, at : Points]

(* What becomes of the reply of a blocking read or a claim: it arrives, or *)
(* the connection drops and the command fails or is sent again.            *)
Replies == {"arrives", "lost", "resent"}

KeyOf(c) == stream[c.id]

(* A call that has won the dedup key and not yet answered or released it. *)
Holds(c) == c.at \in {"handling", "reserving", "releasing"}

CallsOf(w)  == {c \in calls : c.by = w}
InFlight(w) == Cardinality(CallsOf(w))

-----------------------------------------------------------------------------
Init ==
  /\ stream = << >> /\ origin = 0 /\ group = "absent" /\ cursor = 0
  /\ pel = {} /\ stale = {} /\ delivered = [i \in Ids |-> 0]
  /\ locks = {} /\ used = 0 /\ dlq = [i \in Ids |-> 0]
  /\ status = [w \in Workers |-> "down"] /\ asked = [w \in Workers |-> 0]
  /\ calls = {}
  /\ handled = {} /\ effects = [k \in Keys |-> 0] /\ resent = {}
  /\ overrun = {} /\ stolen = {}
  /\ crashes = 0 /\ stops = 0 /\ faults = 0 /\ retries = 0

(* QueueClient.publish: XADD.  Nothing stops a producer from publishing a  *)
(* dedup key again.                                                        *)
Publish(body) ==
  /\ Len(stream) < MaxLen
  /\ stream' = Append(stream, body)
  /\ UNCHANGED <<origin, group, cursor, pel, stale, delivered, locks, used,
                 dlq, status, asked, calls, ghosts, bounds>>

(* start: ensureGroup creates the group at $ unless it exists, then both   *)
(* loops run.                                                              *)
Start(w) ==
  /\ status[w] = "down"
  /\ status' = [status EXCEPT ![w] = "up"]
  /\ group' = "present"
  /\ IF group = "present" THEN UNCHANGED <<origin, cursor>>
     ELSE origin' = Len(stream) /\ cursor' = Len(stream)
  /\ UNCHANGED <<stream, pel, stale, delivered, locks, used, dlq, asked,
                 calls, ghosts, bounds>>

(* The process dies, or the shutdown harness's hard timeout ends it: what  *)
(* it keeps is gone, what Redis keeps stays.                               *)
Crash(w) ==
  /\ status[w] # "down" /\ crashes < MaxCrashes
  /\ crashes' = crashes + 1
  /\ status' = [status EXCEPT ![w] = "down"]
  /\ asked' = [asked EXCEPT ![w] = 0]
  /\ calls' = calls \ CallsOf(w)
  /\ UNCHANGED <<redisVars, ghosts, stops, faults, retries>>

(* stop: no loop iteration starts any more ... *)
Stop(w) ==
  /\ status[w] = "up" /\ stops < MaxStops
  /\ stops' = stops + 1
  /\ status' = [status EXCEPT ![w] = "stopping"]
  /\ UNCHANGED <<redisVars, asked, calls, ghosts, crashes, faults, retries>>

(* ... and it returns, and the process exits, once nothing is in flight.   *)
Stopped(w) ==
  /\ status[w] = "stopping" /\ InFlight(w) = 0
  /\ status' = [status EXCEPT ![w] = "down"]
  /\ asked' = [asked EXCEPT ![w] = 0]
  /\ UNCHANGED <<redisVars, calls, ghosts, bounds>>

-----------------------------------------------------------------------------
(* loopReadGroup *)

(* max(0, effectiveConcurrency() - inFlight): the adaptive ceiling is some *)
(* number from 1 to the configured one.                                    *)
Slots(w) == {s \in 1..Concurrency : s + InFlight(w) \in 1..Concurrency}

(* XREADGROUP is sent with the slots free at this moment and blocks.       *)
AskRead(w) ==
  /\ status[w] = "up" /\ asked[w] = 0
  /\ \E s \in Slots(w) : asked' = [asked EXCEPT ![w] = s]
  /\ UNCHANGED <<redisVars, status, calls, ghosts, bounds>>

(* process() up to its first await, for each id of a batch: a body the     *)
(* schema rejects goes straight to the dead-letter pipeline.               *)
NewCalls(w, ids) ==
  {[by |-> w, id |-> i, n |-> delivered[i] + 1,
    at |-> IF stream[i] = Malformed THEN "dlqAdd" ELSE "dedup"] : i \in ids}

(* Redis hands ids to a consumer: they are pending, with idle time zero.   *)
Deliver(ids) ==
  /\ pel' = pel \union ids
  /\ stale' = stale \ ids
  /\ delivered' = [i \in Ids |-> delivered[i] + (IF i \in ids THEN 1 ELSE 0)]

(* XREADGROUP '>' COUNT count returns the ids after cursor, up to this one. *)
LastId(count) == IF cursor + count <= Len(stream) THEN cursor + count ELSE Len(stream)
NextIds(count) == (cursor + 1)..LastId(count)

(* The reply reaches the worker, which starts a call per entry; or it is   *)
(* lost after Redis moved the entries to the pending list, and the read    *)
(* fails or is sent again as it was.                                       *)
Read(w, reply) ==
  /\ asked[w] > 0 /\ cursor < Len(stream)
  /\ Deliver(NextIds(asked[w]))
  /\ cursor' = LastId(asked[w])
  /\ asked' = [asked EXCEPT ![w] = IF reply = "resent" THEN @ ELSE 0]
  /\ IF reply = "arrives"
       THEN calls' = calls \union NewCalls(w, NextIds(asked[w])) /\ UNCHANGED faults
       ELSE faults < MaxFaults /\ faults' = faults + 1 /\ UNCHANGED calls
  /\ UNCHANGED <<stream, origin, group, locks, used, dlq, status, ghosts,
                 crashes, stops, retries>>

(* BLOCK runs out with no entry to return. *)
ReadTimeout(w) ==
  /\ asked[w] > 0 /\ cursor = Len(stream)
  /\ asked' = [asked EXCEPT ![w] = 0]
  /\ UNCHANGED <<redisVars, status, calls, ghosts, bounds>>

-----------------------------------------------------------------------------
(* loopReclaim *)

(* A pending entry's idle time reaches idleReclaimMs: its consumer is dead *)
(* or its handler slow, Redis cannot tell.  A Redis command answers or     *)
(* fails long before that.                                                 *)
GrowIdle(i) ==
  /\ i \in pel \ stale /\ delivered[i] < MaxDeliveries
  /\ \A c \in calls : c.id = i => c.at \in {"handling", "sleeping"}
  /\ stale' = stale \union {i}
  /\ UNCHANGED <<stream, origin, group, cursor, pel, delivered, locks, used,
                 dlq, status, asked, calls, ghosts, bounds>>

(* Mutant: an entry that was claimed before is left to its claimer. *)
ClaimIdsOnce == {i \in stale : delivered[i] = 1}

(* The first ReclaimCount idle entries; concurrency plays no part. *)
ClaimIds == {i \in stale : Cardinality({j \in stale : j < i}) < ReclaimCount}

(* Mutant: the reclaim also deletes the dedup keys, to let the redelivery in. *)
ReclaimUnlocking(w, reply) ==
  /\ status[w] = "up" /\ stale # {} /\ reply = "arrives"
  /\ Deliver(ClaimIds)
  /\ locks' = locks \ {stream[i] : i \in ClaimIds}
  /\ calls' = calls \union NewCalls(w, ClaimIds)
  /\ UNCHANGED <<stream, origin, group, cursor, used, dlq, status, asked,
                 ghosts, bounds>>

Reclaim(w, reply) ==
  /\ status[w] = "up" /\ stale # {}
  /\ Deliver(ClaimIds)
  /\ IF reply = "arrives"
       THEN calls' = calls \union NewCalls(w, ClaimIds) /\ UNCHANGED faults
       ELSE faults < MaxFaults /\ faults' = faults + 1 /\ UNCHANGED calls
  /\ UNCHANGED <<stream, origin, group, cursor, locks, used, dlq, status,
                 asked, ghosts, crashes, stops, retries>>

-----------------------------------------------------------------------------
(* process *)

MoveTo(c, point) == calls' = (calls \ {c}) \union {[c EXCEPT !.at = point]}
End(c)           == calls' = calls \ {c}

Ack(i) == pel' = pel \ {i} /\ stale' = stale \ {i}

(* DEDUP_AND_ACK_LUA, one atomic script: SET NX, or XACK if the key exists. *)
DedupLua(c) ==
  IF KeyOf(c) \in locks
    THEN Ack(c.id) /\ UNCHANGED locks
    ELSE locks' = locks \union {KeyOf(c)} /\ UNCHANGED <<pel, stale>>

Dedup(c) ==
  /\ c.at = "dedup"
  /\ DedupLua(c)
  /\ IF KeyOf(c) \in locks THEN End(c) ELSE MoveTo(c, "handling")
  /\ UNCHANGED <<stream, origin, group, cursor, delivered, used, dlq, status,
                 asked, ghosts, bounds>>

(* handle() answers ack: its effect is done. *)
AnswerAck(c) ==
  /\ c.at = "handling"
  /\ MoveTo(c, "acking")
  /\ handled' = handled \union {KeyOf(c)}
  /\ effects' = [effects EXCEPT ![KeyOf(c)] = @ + 1]
  /\ UNCHANGED <<redisVars, status, asked, resent, overrun, stolen, bounds>>

(* Mutant: an entry acknowledged gives its dedup key back. *)
XAckUnlocking(c) ==
  /\ c.at = "acking"
  /\ Ack(c.id) /\ End(c) /\ locks' = locks \ {KeyOf(c)}
  /\ UNCHANGED <<stream, origin, group, cursor, delivered, used, dlq, status,
                 asked, ghosts, bounds>>

XAck(c) ==
  /\ c.at = "acking"
  /\ Ack(c.id) /\ End(c)
  /\ UNCHANGED <<stream, origin, group, cursor, delivered, locks, used, dlq,
                 status, asked, ghosts, bounds>>

AnswerRetry(c) ==
  /\ c.at = "handling" /\ retries < MaxRetryAnswers
  /\ retries' = retries + 1
  /\ MoveTo(c, IF Budgeted THEN "reserving" ELSE "releasing")
  /\ UNCHANGED <<redisVars, status, asked, ghosts, crashes, stops, faults>>

(* RetryBudget.tryReserve: INCR, and allowed iff the result is within the  *)
(* ceiling; a retry denied is dead-lettered.                               *)
Reserve(c) ==
  /\ c.at = "reserving"
  /\ used' = used + 1
  /\ MoveTo(c, IF used + 1 <= MaxPerWindow THEN "releasing" ELSE "dlqAdd")
  /\ UNCHANGED <<stream, origin, group, cursor, pel, stale, delivered, locks,
                 dlq, status, asked, ghosts, bounds>>

(* DEL of the dedup key, whoever has set it: after a first run of the same *)
(* command it can only be another call's.                                  *)
Unlock(c) ==
  /\ c.at \in {"releasing", "rereleasing"}
  /\ locks' = locks \ {KeyOf(c)}
  /\ stolen' = IF c.at = "rereleasing" THEN stolen \union (locks \intersect {KeyOf(c)})
               ELSE stolen

(* Mutant: a retry acknowledges the entry it means to see again. *)
ReleaseAcking(c) ==
  /\ Unlock(c) /\ Ack(c.id)
  /\ MoveTo(c, "sleeping")
  /\ UNCHANGED <<stream, origin, group, cursor, delivered, used, dlq, status,
                 asked, handled, effects, resent, overrun, bounds>>

(* The DEL is answered: before the delay, and the entry stays pending. *)
Release(c) ==
  /\ Unlock(c)
  /\ MoveTo(c, "sleeping")
  /\ UNCHANGED <<stream, origin, group, cursor, pel, stale, delivered, used,
                 dlq, status, asked, handled, effects, resent, overrun, bounds>>

Wake(c) ==
  /\ c.at = "sleeping"
  /\ End(c)
  /\ UNCHANGED <<redisVars, status, asked, ghosts, bounds>>

(* handle() answers dead-letter, or throws. *)
AnswerDeadLetter(c) ==
  /\ c.at = "handling"
  /\ MoveTo(c, "dlqAdd")
  /\ UNCHANGED <<redisVars, status, asked, ghosts, bounds>>

(* deadLetterAndAck: XADD to the dead-letter stream, then XACK, in one     *)
(* pipeline that is not a transaction.                                     *)
DlqAdd(c) ==
  /\ c.at = "dlqAdd"
  /\ dlq' = [dlq EXCEPT ![c.id] = @ + 1]
  /\ MoveTo(c, "dlqAck")
  /\ UNCHANGED <<stream, origin, group, cursor, pel, stale, delivered, locks,
                 used, status, asked, ghosts, bounds>>

DlqAck(c) ==
  /\ c.at = "dlqAck"
  /\ Ack(c.id) /\ End(c)
  /\ UNCHANGED <<stream, origin, group, cursor, delivered, locks, used, dlq,
                 status, asked, ghosts, bounds>>

(* The command of an await fails before Redis runs it: process() catches   *)
(* and dead-letters.                                                       *)
CommandFails(c) ==
  /\ c.at \in {"dedup", "acking", "reserving", "releasing", "rereleasing"}
  /\ faults < MaxFaults /\ faults' = faults + 1
  /\ MoveTo(c, "dlqAdd")
  /\ UNCHANGED <<redisVars, status, asked, ghosts, crashes, stops, retries>>

(* Redis runs the command, the connection drops, and maxRetriesPerRequest  *)
(* reconnections fail: the command rejects, and the same catch.            *)
ReplyLost(c) ==
  /\ faults < MaxFaults /\ faults' = faults + 1
  /\ \/ c.at = "dedup" /\ DedupLua(c) /\ UNCHANGED <<used, stolen>>
     \/ c.at = "acking" /\ Ack(c.id) /\ UNCHANGED <<locks, used, stolen>>
     \/ c.at = "reserving" /\ used' = used + 1 /\ UNCHANGED <<pel, stale, locks, stolen>>
     \/ Unlock(c) /\ UNCHANGED <<pel, stale, used>>
  /\ MoveTo(c, "dlqAdd")
  /\ UNCHANGED <<stream, origin, group, cursor, delivered, dlq, status, asked,
                 handled, effects, resent, overrun, crashes, stops, retries>>

(* Redis runs the command, the connection drops, and the client sends the  *)
(* command, or the whole pipeline, again once it is back: the call still   *)
(* awaits the reply of a command that has run.  Sent again, the XACK alone *)
(* is without effect.                                                      *)
Resend(c) ==
  /\ faults < MaxFaults /\ faults' = faults + 1
  /\ \/ /\ c.at = "dedup" /\ DedupLua(c) /\ resent' = resent \union {c.id}
        /\ UNCHANGED <<used, stolen, calls>>
     \/ /\ c.at = "acking" /\ Ack(c.id) /\ UNCHANGED <<locks, used, resent, stolen, calls>>
     \/ /\ c.at = "reserving" /\ used' = used + 1
        /\ UNCHANGED <<pel, stale, locks, resent, stolen, calls>>
     \/ /\ Unlock(c) /\ MoveTo(c, "rereleasing") /\ UNCHANGED <<pel, stale, used, resent>>
     \/ /\ c.at = "dlqAck" /\ Ack(c.id) /\ MoveTo(c, "dlqAdd")
        /\ UNCHANGED <<locks, used, resent, stolen>>
  /\ UNCHANGED <<stream, origin, group, cursor, delivered, dlq, status, asked,
                 handled, effects, overrun, crashes, stops, retries>>

(* The connection drops before, or half way through, the pipeline: exec()  *)
(* resolves with an error per command, which nothing reads, so the call    *)
(* ends and the entry stays pending.                                       *)
PipelineFails(c) ==
  /\ c.at \in {"dlqAdd", "dlqAck"}
  /\ faults < MaxFaults /\ faults' = faults + 1
  /\ End(c)
  /\ UNCHANGED <<redisVars, status, asked, ghosts, crashes, stops, retries>>

-----------------------------------------------------------------------------
(* The 24 h TTL of a dedup key runs out.  Up to its delay, a call of most  *)
(* workers never lasts that long; worker-conac-sftp waits 7 days for an    *)
(* acknowledgement.                                                        *)
Expire(k) ==
  /\ k \in locks
  /\ LET busy == {c \in calls : KeyOf(c) = k /\ c.at # "sleeping"}
     IN  /\ busy # {} => LongHandlers
         /\ overrun' = IF busy = {} THEN overrun ELSE overrun \union {k}
  /\ locks' = locks \ {k}
  /\ effects' = [effects EXCEPT ![k] = 0]
  /\ UNCHANGED <<stream, origin, group, cursor, pel, stale, delivered, used,
                 dlq, status, asked, calls, handled, resent, stolen, bounds>>

(* The budget's window number changes: a fresh counter. *)
NewWindow ==
  /\ used > 0 /\ used' = 0
  /\ UNCHANGED <<stream, origin, group, cursor, pel, stale, delivered, locks,
                 dlq, status, asked, calls, ghosts, bounds>>

CallStep(c) ==
  \/ Dedup(c) \/ AnswerAck(c) \/ XAck(c) \/ AnswerRetry(c) \/ Reserve(c)
  \/ Release(c) \/ Wake(c) \/ AnswerDeadLetter(c) \/ DlqAdd(c) \/ DlqAck(c)

CallFault(c) == CommandFails(c) \/ ReplyLost(c) \/ Resend(c) \/ PipelineFails(c)

WorkerStep(w) ==
  \/ Start(w) \/ Crash(w) \/ Stop(w) \/ Stopped(w) \/ AskRead(w) \/ ReadTimeout(w)
  \/ \E reply \in Replies : Read(w, reply) \/ Reclaim(w, reply)

Next ==
  \/ \E body \in Bodies : Publish(body)
  \/ \E w \in Workers : WorkerStep(w)
  \/ \E i \in Ids : GrowIdle(i)
  \/ \E c \in calls : CallStep(c) \/ CallFault(c)
  \/ \E k \in Keys : Expire(k)
  \/ NewWindow

Spec == Init /\ [][Next]_vars

(* The orchestrator restarts a worker, its loops run, time passes, Redis   *)
(* answers and every handle() settles.                                     *)
Fairness ==
  /\ \A w \in Workers :
       /\ WF_vars(Start(w)) /\ WF_vars(Stopped(w)) /\ WF_vars(AskRead(w))
       /\ WF_vars(Read(w, "arrives")) /\ WF_vars(Reclaim(w, "arrives"))
  /\ \A i \in Ids : WF_vars(GrowIdle(i))
  /\ WF_vars(\E c \in calls : CallStep(c))

FairSpec == Spec /\ Fairness

-----------------------------------------------------------------------------
(* Types; the order of the ids the group was created at, has delivered and *)
(* has; and a body the schema rejects never comes near a dedup key.        *)
TypeOK ==
  /\ stream \in Seq(Bodies) /\ Len(stream) <= MaxLen
  /\ group \in {"absent", "present"} /\ origin \in Nat /\ cursor \in Nat
  /\ origin <= cursor /\ cursor <= Len(stream)
  /\ pel \subseteq 1..cursor /\ stale \subseteq pel
  /\ delivered \in [Ids -> Nat] /\ dlq \in [Ids -> Nat]
  /\ locks \subseteq Keys /\ used \in Nat
  /\ status \in [Workers -> {"down", "up", "stopping"}]
  /\ asked \in [Workers -> 0..Concurrency]
  /\ calls \subseteq Calls
  /\ \A c \in calls : c.id <= cursor /\ (KeyOf(c) \in Keys \/ c.at \in {"dlqAdd", "dlqAck"})
  /\ handled \subseteq Keys /\ effects \in [Keys -> Nat] /\ resent \subseteq Ids
  /\ overrun \subseteq Keys /\ stolen \subseteq Keys
  /\ crashes \in Nat /\ stops \in Nat /\ faults \in Nat /\ retries \in Nat

(* Keys that went away early: the 24 hours ran out under a running call,   *)
(* or a call that was answered retry had its DEL sent again and deleted    *)
(* the key another call had set in between.                                *)
Bared == overrun \union stolen

(* "MUST be idempotent at dedup_key": no two handlers run for one dedup    *)
(* key, on any workers, whatever is reclaimed, released, sent again or     *)
(* expires, unless the key once went away early.                           *)
OneHandlerPerKey ==
  \A c, d \in calls :
    Holds(c) /\ Holds(d) /\ KeyOf(c) = KeyOf(d) /\ KeyOf(c) \notin Bared => c = d

(* What makes OneHandlerPerKey inductive: a handler's dedup key is set. *)
HoldersLock ==
  /\ \A c \in calls : Holds(c) => KeyOf(c) \in locks \union Bared
  /\ OneHandlerPerKey

(* Until its dedup key expires, the work of a key is done at most once,    *)
(* however often its entries are published, redelivered or retried, unless *)
(* the key once went away early.                                           *)
DoneAtMostOnce == \A k \in Keys \ Bared : effects[k] <= 1

(* What makes DoneAtMostOnce inductive: a key whose work is done stays set *)
(* and has no handler.                                                     *)
DoneIsLocked ==
  \A k \in Keys \ Bared :
    /\ effects[k] <= 1
    /\ effects[k] = 1 => k \in locks /\ \A c \in calls : Holds(c) => KeyOf(c) # k

(* An entry that was handed out and is no longer pending. *)
Settled(i) == origin < i /\ i <= cursor /\ i \notin pel

EntriesOf(k) == {i \in (origin + 1)..Len(stream) : stream[i] = k}

(* All entries of the key are acknowledged, its work was never done, none  *)
(* is on the dead-letter stream and no call is left to see to it.          *)
Lost(k) ==
  /\ EntriesOf(k) # {} /\ k \notin handled
  /\ \A i \in EntriesOf(k) : Settled(i) /\ dlq[i] = 0
  /\ \A c \in calls : KeyOf(c) # k \/ c.at = "sleeping"

(* Work disappears only by a redelivery, or a repeated dedup script, that  *)
(* runs into the dedup key an earlier run left behind.                     *)
LossNeedsRedelivery ==
  \A k \in Keys :
    Lost(k) => \E i \in EntriesOf(k) : delivered[i] > 1 \/ i \in resent

(* Every entry published after the group exists is eventually acknowledged. *)
EventuallySettled ==
  \A i \in Ids : (origin < i /\ i <= Len(stream) /\ group = "present") ~> Settled(i)
=============================================================================
