-------------------------- MODULE WorkerQueueProofs --------------------------
(* What WorkerQueue promises for any workers, keys, bounds and concurrency. *)
EXTENDS WorkerQueue, TLAPS

USE QueueAssumption DEF QueueAssumption

(***************************************************************************)
(* Type correctness.                                                       *)
(***************************************************************************)
LEMMA InitType == Init => TypeOK
  BY DEF Init, TypeOK, Ids

(* Only a delivery adds ids to the pending list or calls to a worker: it   *)
(* takes published ids and starts well-formed calls.                       *)
LEMMA NewCallsType ==
  ASSUME TypeOK, NEW w \in Workers, NEW ids \in SUBSET (1..Len(stream)),
         NEW c \in NewCalls(w, ids)
  PROVE  /\ c \in Calls /\ c.id \in ids /\ c.by = w
         /\ ~Holds(c)
         /\ KeyOf(c) \in Keys \/ c.at = "dlqAdd"
<1>1. PICK i \in ids : c = [by |-> w, id |-> i, n |-> delivered[i] + 1,
                            at |-> IF stream[i] = Malformed THEN "dlqAdd" ELSE "dedup"]
  BY DEF NewCalls
<1>2. i \in Ids /\ i \in 1..Len(stream) /\ delivered[i] + 1 \in Nat
  BY DEF TypeOK, Ids
<1>3. stream[i] \in Keys \union {Malformed}
  BY <1>2 DEF TypeOK
<1> QED BY <1>1, <1>2, <1>3 DEF Calls, Points, Holds, KeyOf

LEMMA NextIdsType ==
  ASSUME TypeOK, NEW count \in Nat
  PROVE  NextIds(count) \subseteq (cursor + 1)..LastId(count) /\ LastId(count) \in cursor..Len(stream)
  BY DEF TypeOK, NextIds, LastId

(* A call that moves on keeps its worker, its entry and so its key. *)
LEMMA MoveToType ==
  ASSUME TypeOK, NEW c \in calls, NEW point \in Points,
         KeyOf(c) \in Keys \/ point \in {"dlqAdd", "dlqAck"}
  PROVE  LET d == [c EXCEPT !.at = point]
         IN d \in Calls /\ d.id = c.id /\ d.by = c.by /\ d.n = c.n /\ d.at = point
            /\ KeyOf(d) = KeyOf(c)
  BY DEF TypeOK, Calls, KeyOf

(* XADD leaves every entry, and so every running call's key, as it was. *)
LEMMA PublishKeeps ==
  ASSUME TypeOK, NEW body \in Bodies, Publish(body)
  PROVE  /\ stream' \in Seq(Bodies) /\ Len(stream') = Len(stream) + 1
         /\ \A c \in calls : KeyOf(c)' = KeyOf(c)
<1>1. stream \in Seq(Bodies) /\ stream' = Append(stream, body)
  BY DEF Publish, TypeOK
<1>2. /\ stream' \in Seq(Bodies) /\ Len(stream') = Len(stream) + 1
      /\ \A i \in 1..Len(stream) : stream'[i] = stream[i]
  BY <1>1
<1>3. \A c \in calls : c.id \in 1..Len(stream)
  BY DEF TypeOK, Calls, Ids
<1> QED BY <1>2, <1>3 DEF KeyOf

(* Every variable of the queue and of its workers keeps to its type, and   *)
(* the group never delivers what was not published.                        *)
THEOREM TypeCorrect == Spec => []TypeOK
<1>1. TypeOK /\ [Next]_vars => TypeOK'
  <2> SUFFICES ASSUME TypeOK, [Next]_vars PROVE TypeOK'
    OBVIOUS
  <2> USE DEF redisVars, ghosts, bounds
  <2>1. ASSUME NEW body \in Bodies, Publish(body) PROVE TypeOK'
    BY <2>1, PublishKeeps DEF Publish, TypeOK
  <2>2. ASSUME NEW w \in Workers, WorkerStep(w) PROVE TypeOK'
    <3>1. CASE Start(w)
      <4>1. cursor' \in Nat /\ cursor <= cursor' /\ cursor' <= Len(stream) /\ origin' <= cursor'
        BY <3>1 DEF Start, TypeOK
      <4>2. pel \subseteq 1..cursor'
        BY <4>1 DEF TypeOK
      <4>3. \A c \in calls : c.id <= cursor'
        BY <4>1 DEF TypeOK, Calls, Ids
      <4>4. origin' \in Nat /\ group' \in {"absent", "present"}
            /\ status' \in [Workers -> {"down", "up", "stopping"}]
        BY <3>1 DEF Start, TypeOK
      <4> QED BY <3>1, <4>1, <4>2, <4>3, <4>4 DEF Start, TypeOK, KeyOf
    <3>2. CASE Crash(w)
      BY <3>2 DEF Crash, TypeOK, KeyOf, CallsOf
    <3>3. CASE Stop(w)
      BY <3>3 DEF Stop, TypeOK, KeyOf
    <3>4. CASE Stopped(w)
      BY <3>4 DEF Stopped, TypeOK, KeyOf
    <3>5. CASE AskRead(w)
      BY <3>5 DEF AskRead, Slots, TypeOK, KeyOf
    <3>6. CASE ReadTimeout(w)
      BY <3>6 DEF ReadTimeout, TypeOK, KeyOf
    <3>7. ASSUME NEW reply \in Replies, Read(w, reply) PROVE TypeOK'
      <4> DEFINE ids == NextIds(asked[w])
      <4>1. asked[w] \in Nat
        BY DEF TypeOK
      <4>2. ids \subseteq (cursor + 1)..cursor' /\ cursor' \in cursor..Len(stream)
        BY <3>7, <4>1, NextIdsType DEF Read
      <4>3. ids \in SUBSET (1..Len(stream))
        BY <4>2 DEF TypeOK
      <4>4. \A c \in calls' : /\ c \in Calls /\ c.id <= cursor'
                              /\ KeyOf(c) \in Keys \/ c.at \in {"dlqAdd", "dlqAck"}
        <5> SUFFICES ASSUME NEW c \in calls'
                     PROVE  /\ c \in Calls /\ c.id <= cursor'
                            /\ KeyOf(c) \in Keys \/ c.at \in {"dlqAdd", "dlqAck"}
          OBVIOUS
        <5>1. CASE c \in calls
          BY <4>2, <5>1 DEF TypeOK, Calls, Ids
        <5>2. CASE c \in NewCalls(w, ids)
          <6> HIDE DEF ids
          <6>1. /\ c \in Calls /\ c.id \in ids
                /\ KeyOf(c) \in Keys \/ c.at \in {"dlqAdd", "dlqAck"}
            BY <4>3, <5>2, NewCallsType
          <6>2. c.id \in (cursor + 1)..cursor'
            BY <4>2, <6>1
          <6> QED BY <6>1, <6>2
        <5> QED BY <3>7, <5>1, <5>2 DEF Read
      <4>5. pel' \subseteq 1..cursor' /\ stale' \subseteq pel'
        <5>1. pel' = pel \union ids /\ stale' = stale \ ids
          BY <3>7 DEF Read, Deliver
        <5>2. 1..cursor \subseteq 1..cursor' /\ (cursor + 1)..cursor' \subseteq 1..cursor'
          BY <4>2 DEF TypeOK
        <5>3. pel \subseteq 1..cursor /\ stale \subseteq pel
          BY DEF TypeOK
        <5> QED BY <4>2, <5>1, <5>2, <5>3
      <4>6. cursor' \in Nat /\ cursor' <= Len(stream) /\ origin <= cursor'
        BY <4>2 DEF TypeOK
      <4>7. delivered' \in [Ids -> Nat] /\ asked' \in [Workers -> 0..Concurrency] /\ faults' \in Nat
        BY <3>7 DEF Read, Deliver, TypeOK
      <4>8. UNCHANGED <<stream, origin, group, locks, used, dlq, status, handled, effects,
                        resent, overrun, stolen, crashes, stops, retries>>
        BY <3>7 DEF Read
      <4>9. calls' \subseteq Calls
        BY <4>4
      <4> QED BY <4>4, <4>5, <4>6, <4>7, <4>8, <4>9 DEF TypeOK, KeyOf
    <3>8. ASSUME NEW reply \in Replies, Reclaim(w, reply) PROVE TypeOK'
      <4>1. ClaimIds \subseteq stale
        BY DEF ClaimIds
      <4>2. ClaimIds \in SUBSET (1..Len(stream)) /\ ClaimIds \subseteq 1..cursor
        BY <4>1 DEF TypeOK
      <4>3. \A c \in calls' : /\ c \in Calls /\ c.id <= cursor'
                              /\ KeyOf(c) \in Keys \/ c.at \in {"dlqAdd", "dlqAck"}
        <5> SUFFICES ASSUME NEW c \in calls'
                     PROVE  /\ c \in Calls /\ c.id <= cursor'
                            /\ KeyOf(c) \in Keys \/ c.at \in {"dlqAdd", "dlqAck"}
          OBVIOUS
        <5>1. CASE c \in calls
          BY <3>8, <5>1 DEF Reclaim, TypeOK
        <5>2. CASE c \in NewCalls(w, ClaimIds)
          <6>1. c \in Calls /\ c.id \in ClaimIds /\ (KeyOf(c) \in Keys \/ c.at = "dlqAdd")
            BY <4>2, <5>2, NewCallsType
          <6>2. c.id \in 1..cursor
            BY <4>2, <6>1
          <6>3. cursor' = cursor
            BY <3>8 DEF Reclaim
          <6> QED BY <6>1, <6>2, <6>3
        <5> QED BY <3>8, <5>1, <5>2 DEF Reclaim
      <4>4. pel' \subseteq 1..cursor' /\ stale' \subseteq pel'
        BY <3>8, <4>1, <4>2 DEF Reclaim, Deliver, TypeOK
      <4>5. delivered' \in [Ids -> Nat] /\ faults' \in Nat
        BY <3>8 DEF Reclaim, Deliver, TypeOK
      <4>6. UNCHANGED <<stream, origin, group, cursor, locks, used, dlq, status, asked, handled,
                        effects, resent, overrun, stolen, crashes, stops, retries>>
        BY <3>8 DEF Reclaim
      <4>7. calls' \subseteq Calls
        BY <4>3
      <4> QED BY <4>3, <4>4, <4>5, <4>6, <4>7 DEF TypeOK, KeyOf
    <3> QED BY <2>2, <3>1, <3>2, <3>3, <3>4, <3>5, <3>6, <3>7, <3>8 DEF WorkerStep
  <2>3. ASSUME NEW i \in Ids, GrowIdle(i) PROVE TypeOK'
    BY <2>3 DEF GrowIdle, TypeOK, KeyOf
  <2>4. ASSUME NEW c \in calls, CallStep(c) \/ CallFault(c) PROVE TypeOK'
    <3>1. c \in Calls /\ c.id \in Ids /\ c.id <= cursor
      BY DEF TypeOK, Calls
    <3>2. ASSUME NEW point \in Points, MoveTo(c, point), UNCHANGED <<stream, cursor>>,
                 KeyOf(c) \in Keys \/ point \in {"dlqAdd", "dlqAck"}
          PROVE  /\ calls' \subseteq Calls
                 /\ \A d \in calls' : /\ d.id <= cursor'
                                      /\ KeyOf(d)' \in Keys \/ d.at \in {"dlqAdd", "dlqAck"}
      <4> DEFINE d == [c EXCEPT !.at = point]
      <4>1. d \in Calls /\ d.id = c.id /\ d.at = point /\ KeyOf(d) = KeyOf(c)
        BY <3>2, MoveToType
      <4>2. calls' = (calls \ {c}) \union {d} /\ stream' = stream /\ cursor' = cursor
        BY <3>2 DEF MoveTo
      <4> HIDE DEF d
      <4>3. \A e \in calls : /\ e \in Calls /\ e.id <= cursor
                             /\ KeyOf(e) \in Keys \/ e.at \in {"dlqAdd", "dlqAck"}
        BY DEF TypeOK
      <4> QED BY <3>1, <3>2, <4>1, <4>2, <4>3 DEF KeyOf
    <3>3. ASSUME End(c), UNCHANGED <<stream, cursor>>
          PROVE  /\ calls' \subseteq Calls
                 /\ \A d \in calls' : /\ d.id <= cursor'
                                      /\ KeyOf(d)' \in Keys \/ d.at \in {"dlqAdd", "dlqAck"}
      BY <3>3 DEF End, TypeOK, KeyOf
    <3>4. c.at \notin {"dlqAdd", "dlqAck"} => KeyOf(c) \in Keys
      BY DEF TypeOK
    <3> USE DEF Points
    <3>5. CASE Dedup(c)
      BY <3>2, <3>3, <3>4, <3>5 DEF Dedup, DedupLua, Ack, TypeOK
    <3>6. CASE AnswerAck(c)
      BY <3>2, <3>4, <3>6 DEF AnswerAck, TypeOK
    <3>7. CASE XAck(c)
      BY <3>3, <3>7 DEF XAck, Ack, TypeOK
    <3>8. CASE AnswerRetry(c)
      BY <3>2, <3>4, <3>8 DEF AnswerRetry, TypeOK
    <3>9. CASE Reserve(c)
      BY <3>2, <3>4, <3>9 DEF Reserve, TypeOK
    <3>10. CASE Release(c)
      BY <3>2, <3>4, <3>10 DEF Release, Unlock, TypeOK
    <3>11. CASE Wake(c)
      BY <3>3, <3>11 DEF Wake, TypeOK
    <3>12. CASE AnswerDeadLetter(c)
      BY <3>2, <3>12 DEF AnswerDeadLetter, TypeOK
    <3>13. CASE DlqAdd(c)
      BY <3>1, <3>2, <3>13 DEF DlqAdd, TypeOK
    <3>14. CASE DlqAck(c)
      BY <3>3, <3>14 DEF DlqAck, Ack, TypeOK
    <3>15. CASE CommandFails(c)
      BY <3>2, <3>15 DEF CommandFails, TypeOK
    <3>16. CASE ReplyLost(c)
      <4>1. c.at \in {"dedup", "acking", "reserving", "releasing", "rereleasing"}
            /\ KeyOf(c) \in Keys
        BY <3>4, <3>16 DEF ReplyLost, Unlock
      <4>2. /\ calls' \subseteq Calls
            /\ \A d \in calls' : /\ d.id <= cursor'
                                 /\ KeyOf(d)' \in Keys \/ d.at \in {"dlqAdd", "dlqAck"}
        BY <3>2, <3>16 DEF ReplyLost
      <4>3. pel' \subseteq pel /\ stale' \subseteq pel'
        BY <3>16 DEF ReplyLost, DedupLua, Ack, TypeOK
      <4>4. locks' \subseteq Keys /\ used' \in Nat /\ stolen' \subseteq Keys
        BY <3>16, <4>1 DEF ReplyLost, DedupLua, Unlock, TypeOK
      <4> QED BY <3>16, <4>2, <4>3, <4>4 DEF ReplyLost, TypeOK
    <3>17. CASE PipelineFails(c)
      BY <3>3, <3>17 DEF PipelineFails, TypeOK
    <3>18. CASE Resend(c)
      <4>1. c.at \in {"dedup", "acking", "reserving", "releasing", "rereleasing", "dlqAck"}
        BY <3>18 DEF Resend, Unlock
      <4>2. /\ calls' \subseteq Calls
            /\ \A d \in calls' : /\ d.id <= cursor'
                                 /\ KeyOf(d)' \in Keys \/ d.at \in {"dlqAdd", "dlqAck"}
        <5>1. CASE c.at \in {"dlqAck", "releasing", "rereleasing"}
          <6>1. UNCHANGED <<stream, cursor>> /\ (c.at # "dlqAck" => KeyOf(c) \in Keys)
            BY <3>4, <3>18, <5>1 DEF Resend
          <6>2. \/ c.at = "dlqAck" /\ MoveTo(c, "dlqAdd")
                \/ c.at # "dlqAck" /\ MoveTo(c, "rereleasing")
            BY <3>18, <5>1 DEF Resend, Unlock
          <6> QED BY <3>2, <6>1, <6>2
        <5>2. CASE c.at \in {"dedup", "acking", "reserving"}
          <6>1. calls' = calls /\ stream' = stream /\ cursor' = cursor
            BY <3>18, <5>2 DEF Resend, Unlock
          <6> QED BY <6>1 DEF TypeOK, KeyOf
        <5> QED BY <4>1, <5>1, <5>2
      <4>3. pel' \subseteq pel /\ stale' \subseteq pel'
        BY <3>18 DEF Resend, DedupLua, Ack, TypeOK
      <4>4. /\ locks' \subseteq Keys /\ used' \in Nat
            /\ resent' \subseteq Ids /\ stolen' \subseteq Keys
        BY <3>1, <3>4, <3>18 DEF Resend, DedupLua, Unlock, TypeOK
      <4> QED BY <3>18, <4>2, <4>3, <4>4 DEF Resend, TypeOK
    <3> QED BY <2>4, <3>5, <3>6, <3>7, <3>8, <3>9, <3>10, <3>11, <3>12, <3>13,
               <3>14, <3>15, <3>16, <3>17, <3>18 DEF CallStep, CallFault
  <2>5. ASSUME NEW k \in Keys, Expire(k) PROVE TypeOK'
    BY <2>5 DEF Expire, TypeOK, KeyOf
  <2>6. CASE NewWindow
    BY <2>6 DEF NewWindow, TypeOK, KeyOf
  <2>7. CASE UNCHANGED vars
    BY <2>7 DEF vars, TypeOK, KeyOf
  <2> QED BY <2>1, <2>2, <2>3, <2>4, <2>5, <2>6, <2>7 DEF Next
<1> QED BY <1>1, InitType, PTL DEF Spec

(***************************************************************************)
(* One handler per dedup key, and its work done at most once.              *)
(***************************************************************************)
QueueInv == HoldersLock /\ DoneIsLocked

(* Without a call becoming a holder or a lock being given up, all stays. *)
LEMMA FewerHolders ==
  ASSUME TypeOK, QueueInv, locks \subseteq locks', effects' = effects, Bared' = Bared,
         \A c \in calls' : Holds(c) => c \in calls /\ KeyOf(c)' = KeyOf(c)
  PROVE  QueueInv'
<1>1. \A c \in calls' : Holds(c)' = Holds(c)
  BY DEF Holds
<1> QED BY <1>1 DEF QueueInv, HoldersLock, OneHandlerPerKey, DoneIsLocked

(* A call of TypeOK's queue that moves to a point where it holds no key. *)
LEMMA MoveAway ==
  ASSUME TypeOK, NEW c \in calls, NEW point \in Points \ {"handling", "reserving", "releasing"},
         MoveTo(c, point), stream' = stream
  PROVE  \A d \in calls' : Holds(d) => d \in calls \ {c} /\ KeyOf(d)' = KeyOf(d)
  BY DEF MoveTo, Holds, KeyOf, TypeOK, Calls

(* A call that moves from one holding point to another. *)
LEMMA MoveHolding ==
  ASSUME TypeOK, QueueInv, NEW c \in calls, Holds(c),
         NEW point \in {"handling", "reserving", "releasing"},
         MoveTo(c, point), stream' = stream, locks' = locks, effects' = effects, Bared' = Bared
  PROVE  QueueInv'
<1> DEFINE e == [c EXCEPT !.at = point]
<1>1. calls' = (calls \ {c}) \union {e} /\ Holds(e) /\ KeyOf(e) = KeyOf(c)
  BY DEF MoveTo, Holds, KeyOf, TypeOK, Calls
<1>2. \A d \in calls' : KeyOf(d)' = KeyOf(d) /\ Holds(d)' = Holds(d)
  BY DEF KeyOf, Holds
<1> HIDE DEF e
<1>3. OneHandlerPerKey'
  BY <1>1, <1>2 DEF QueueInv, HoldersLock, OneHandlerPerKey
<1> QED BY <1>1, <1>2, <1>3 DEF QueueInv, HoldersLock, DoneIsLocked

LEMMA QueueStep == TypeOK /\ TypeOK' /\ QueueInv /\ [Next]_vars => QueueInv'
<1> SUFFICES ASSUME TypeOK, TypeOK', QueueInv, [Next]_vars PROVE QueueInv'
  OBVIOUS
<1> USE DEF redisVars, ghosts, bounds, Bared
<1>1. ASSUME NEW body \in Bodies, Publish(body) PROVE QueueInv'
  <2>1. \A c \in calls : KeyOf(c)' = KeyOf(c)
    BY <1>1, PublishKeeps
  <2> QED BY <1>1, <2>1, FewerHolders DEF Publish
<1>2. ASSUME NEW w \in Workers, WorkerStep(w) PROVE QueueInv'
  <2>1. CASE Start(w) \/ Crash(w) \/ Stop(w) \/ Stopped(w) \/ AskRead(w) \/ ReadTimeout(w)
    <3>1. calls' \subseteq calls /\ stream' = stream /\ locks' = locks /\ effects' = effects /\ Bared' = Bared
      BY <2>1 DEF Start, Crash, Stop, Stopped, AskRead, ReadTimeout
    <3> QED BY <3>1, FewerHolders DEF KeyOf
  <2>2. ASSUME NEW reply \in Replies, Read(w, reply) PROVE QueueInv'
    <3> DEFINE ids == NextIds(asked[w])
    <3>1. asked[w] \in Nat
      BY DEF TypeOK
    <3>2. ids \in SUBSET (1..Len(stream))
      <4>1. ids \subseteq (cursor + 1)..LastId(asked[w]) /\ LastId(asked[w]) \in cursor..Len(stream)
        BY <3>1, NextIdsType
      <4>2. cursor \in Nat /\ Len(stream) \in Nat
        BY DEF TypeOK
      <4>3. (cursor + 1)..LastId(asked[w]) \subseteq 1..Len(stream)
        BY <4>1, <4>2
      <4> QED BY <4>1, <4>3
    <3>3. \A c \in NewCalls(w, ids) : ~Holds(c)
      BY <3>2, NewCallsType
    <3>4. calls' \subseteq calls \union NewCalls(w, ids)
          /\ stream' = stream /\ locks' = locks /\ effects' = effects /\ Bared' = Bared
      BY <2>2 DEF Read
    <3> QED BY <3>3, <3>4, FewerHolders DEF KeyOf
  <2>3. ASSUME NEW reply \in Replies, Reclaim(w, reply) PROVE QueueInv'
    <3>1. ClaimIds \in SUBSET (1..Len(stream))
      <4>1. ClaimIds \subseteq stale
        BY DEF ClaimIds
      <4>2. /\ stale \subseteq pel /\ pel \subseteq 1..cursor
            /\ cursor \in Nat /\ stream \in Seq(Bodies) /\ cursor <= Len(stream)
        BY Zenon DEF TypeOK
      <4>3. 1..cursor \subseteq 1..Len(stream)
        BY <4>2
      <4> QED BY <4>1, <4>2, <4>3
    <3>2. \A c \in NewCalls(w, ClaimIds) : ~Holds(c)
      BY <3>1, NewCallsType
    <3>3. calls' \subseteq calls \union NewCalls(w, ClaimIds)
          /\ stream' = stream /\ locks' = locks /\ effects' = effects /\ Bared' = Bared
      BY <2>3 DEF Reclaim
    <3> QED BY <3>2, <3>3, FewerHolders DEF KeyOf
  <2> QED BY <1>2, <2>1, <2>2, <2>3 DEF WorkerStep
<1>3. ASSUME NEW i \in Ids, GrowIdle(i) PROVE QueueInv'
  BY <1>3, FewerHolders DEF GrowIdle, KeyOf
<1>4. ASSUME NEW c \in calls, CallStep(c) \/ CallFault(c) PROVE QueueInv'
  <2> USE DEF Points
  <2>1. ASSUME NEW point \in Points \ {"handling", "reserving", "releasing"},
               MoveTo(c, point) \/ End(c), stream' = stream,
               locks \subseteq locks', effects' = effects, Bared' = Bared
        PROVE  QueueInv'
    BY <2>1, MoveAway, FewerHolders DEF End, KeyOf
  <2>2. ASSUME NEW point \in {"dlqAdd", "sleeping", "rereleasing"}, MoveTo(c, point),
               stream' = stream, Unlock(c), effects' = effects, overrun' = overrun
        PROVE  QueueInv'
    <3>1. \A d \in calls' : Holds(d) => d \in calls \ {c} /\ KeyOf(d)' = KeyOf(d)
      BY <2>2, MoveAway
    <3>2. \A d \in calls' : Holds(d)' = Holds(d)
      BY DEF Holds
    <3>3. locks' = locks \ {KeyOf(c)} /\ Bared \subseteq Bared'
      BY <2>2 DEF Unlock
    <3>4. \A d \in calls' : Holds(d) /\ KeyOf(c) \notin Bared' /\ KeyOf(c) \in locks
                           => KeyOf(d) # KeyOf(c)
      <4>1. CASE c.at = "releasing"
        BY <2>2, <3>1, <3>3, <4>1 DEF Holds, QueueInv, HoldersLock, OneHandlerPerKey
      <4>2. CASE c.at = "rereleasing"
        BY <2>2, <4>2 DEF Unlock
      <4> QED BY <2>2, <4>1, <4>2 DEF Unlock
    <3>5. KeyOf(c) \in locks /\ KeyOf(c) \in Keys \ Bared' => effects[KeyOf(c)] # 1
      <4>1. CASE c.at = "releasing"
        BY <3>3, <4>1 DEF Holds, QueueInv, DoneIsLocked
      <4>2. CASE c.at = "rereleasing"
        BY <2>2, <4>2 DEF Unlock
      <4> QED BY <2>2, <4>1, <4>2 DEF Unlock
    <3> HIDE DEF Bared
    <3>6. HoldersLock'
      BY <3>1, <3>2, <3>3, <3>4 DEF QueueInv, HoldersLock, OneHandlerPerKey
    <3>7. DoneIsLocked'
      BY <2>2, <3>1, <3>2, <3>3, <3>5 DEF QueueInv, DoneIsLocked
    <3> QED BY <3>6, <3>7 DEF QueueInv
  <2>3. CASE Dedup(c)
    <3>1. CASE KeyOf(c) \in locks
      BY <2>1, <2>3, <3>1 DEF Dedup, DedupLua
    <3>2. CASE KeyOf(c) \notin locks
      <4> DEFINE e == [c EXCEPT !.at = "handling"]
      <4>1. e.at = "handling" /\ e.id = c.id
        BY DEF TypeOK, Calls
      <4>2. Holds(e) /\ KeyOf(e) = KeyOf(c) /\ KeyOf(e)' = KeyOf(c) /\ Holds(e)'
        BY <2>3, <4>1 DEF Dedup, KeyOf, Holds
      <4>3. calls' = (calls \ {c}) \union {e} /\ locks' = locks \union {KeyOf(c)}
            /\ stream' = stream /\ effects' = effects /\ Bared' = Bared
        BY <2>3, <3>2 DEF Dedup, DedupLua, MoveTo
      <4>4. \A d \in calls : KeyOf(d)' = KeyOf(d) /\ Holds(d)' = Holds(d)
        BY <4>3 DEF KeyOf, Holds
      <4> HIDE DEF e
      <4>5. \A d \in calls : Holds(d) /\ KeyOf(c) \notin Bared => KeyOf(d) # KeyOf(c)
        BY <3>2 DEF QueueInv, HoldersLock
      <4>6. HoldersLock'
        BY <4>2, <4>3, <4>4, <4>5 DEF QueueInv, HoldersLock, OneHandlerPerKey
      <4>7. DoneIsLocked'
        BY <3>2, <4>2, <4>3, <4>4 DEF QueueInv, DoneIsLocked
      <4> QED BY <4>6, <4>7 DEF QueueInv
    <3> QED BY <3>1, <3>2
  <2>4. CASE AnswerAck(c)
    <3>1. /\ Holds(c) /\ KeyOf(c) \in Keys
          /\ KeyOf(c) \in locks \union Bared
          /\ KeyOf(c) \notin Bared => effects[KeyOf(c)] = 0
      BY <2>4 DEF AnswerAck, Holds, TypeOK, QueueInv, HoldersLock, DoneIsLocked
    <3>2. \A d \in calls' : Holds(d) => d \in calls \ {c} /\ KeyOf(d)' = KeyOf(d)
      BY <2>4, MoveAway DEF AnswerAck
    <3>3. \A d \in calls' : Holds(d)' = Holds(d)
      BY DEF Holds
    <3>4. \A d \in calls' : Holds(d) /\ KeyOf(c) \notin Bared => KeyOf(d) # KeyOf(c)
      BY <3>1, <3>2 DEF QueueInv, HoldersLock, OneHandlerPerKey
    <3>5. locks' = locks /\ Bared' = Bared /\ effects' = [effects EXCEPT ![KeyOf(c)] = @ + 1]
      BY <2>4 DEF AnswerAck
    <3>6. HoldersLock'
      BY <3>2, <3>3, <3>5 DEF QueueInv, HoldersLock, OneHandlerPerKey
    <3>7. DoneIsLocked'
      <4> SUFFICES ASSUME NEW k \in Keys \ Bared
                   PROVE  /\ effects'[k] <= 1
                          /\ effects'[k] = 1 => /\ k \in locks'
                                                /\ \A d \in calls' : Holds(d)' => KeyOf(d)' # k
        BY <3>5 DEF DoneIsLocked
      <4>1. CASE k = KeyOf(c)
        BY <3>1, <3>2, <3>3, <3>4, <3>5, <4>1 DEF TypeOK
      <4>2. CASE k # KeyOf(c)
        BY <3>2, <3>3, <3>5, <4>2 DEF QueueInv, DoneIsLocked, TypeOK
      <4> QED BY <4>1, <4>2
    <3> QED BY <3>6, <3>7 DEF QueueInv
  <2>5. CASE XAck(c)
    BY <2>1, <2>5 DEF XAck
  <2>6. CASE AnswerRetry(c)
    BY <2>6, MoveHolding DEF AnswerRetry, Holds
  <2>7. CASE Reserve(c)
    <3>1. CASE used + 1 <= MaxPerWindow
      BY <2>7, <3>1, MoveHolding DEF Reserve, Holds
    <3>2. CASE ~(used + 1 <= MaxPerWindow)
      BY <2>1, <2>7, <3>2 DEF Reserve
    <3> QED BY <3>1, <3>2
  <2>8. CASE Release(c)
    BY <2>2, <2>8 DEF Release
  <2>9. CASE Wake(c)
    BY <2>1, <2>9 DEF Wake
  <2>10. CASE AnswerDeadLetter(c)
    BY <2>1, <2>10 DEF AnswerDeadLetter
  <2>11. CASE DlqAdd(c)
    BY <2>1, <2>11 DEF DlqAdd
  <2>12. CASE DlqAck(c)
    BY <2>1, <2>12 DEF DlqAck
  <2>13. CASE CommandFails(c)
    BY <2>1, <2>13 DEF CommandFails
  <2>14. CASE ReplyLost(c)
    <3>1. MoveTo(c, "dlqAdd") /\ stream' = stream /\ effects' = effects /\ overrun' = overrun
      BY <2>14 DEF ReplyLost
    <3>2. CASE Unlock(c)
      BY <2>2, <3>1, <3>2
    <3>3. CASE ~Unlock(c)
      <4>1. locks \subseteq locks' /\ stolen' = stolen
        BY <2>14, <3>3 DEF ReplyLost, DedupLua
      <4> QED BY <2>1, <3>1, <4>1
    <3> QED BY <3>2, <3>3
  <2>15. CASE PipelineFails(c)
    BY <2>1, <2>15 DEF PipelineFails
  <2>16. CASE Resend(c)
    <3>1. CASE c.at = "dlqAck"
      BY <2>1, <2>16, <3>1 DEF Resend, Unlock
    <3>2. CASE Unlock(c)
      BY <2>2, <2>16, <3>2 DEF Resend, Unlock
    <3>3. CASE c.at # "dlqAck" /\ ~Unlock(c)
      <4>1. /\ calls' = calls /\ stream' = stream /\ effects' = effects
            /\ overrun' = overrun /\ stolen' = stolen
        BY <2>16, <3>3 DEF Resend
      <4>2. locks \subseteq locks'
        BY <2>16, <3>3 DEF Resend, DedupLua
      <4> QED BY <4>1, <4>2 DEF QueueInv, HoldersLock, OneHandlerPerKey, DoneIsLocked, KeyOf
    <3> QED BY <3>1, <3>2, <3>3
  <2> QED BY <1>4, <2>3, <2>4, <2>5, <2>6, <2>7, <2>8, <2>9, <2>10, <2>11, <2>12,
             <2>13, <2>14, <2>15, <2>16 DEF CallStep, CallFault
<1>5. ASSUME NEW k \in Keys, Expire(k) PROVE QueueInv'
  <2>1. calls' = calls /\ stream' = stream /\ locks' = locks \ {k}
        /\ effects' = [effects EXCEPT ![k] = 0]
    BY <1>5 DEF Expire
  <2>2. \A c \in calls : KeyOf(c)' = KeyOf(c) /\ Holds(c)' = Holds(c)
    BY <2>1 DEF KeyOf, Holds
  <2>6. Bared \subseteq Bared' /\ \A c \in calls : Holds(c) /\ KeyOf(c) = k => k \in Bared'
    BY <1>5 DEF Expire, Holds
  <2>3. HoldersLock'
    BY <2>1, <2>2, <2>6 DEF QueueInv, HoldersLock, OneHandlerPerKey
  <2>4. effects \in [Keys -> Nat]
    BY DEF TypeOK
  <2>5. DoneIsLocked'
    BY <2>1, <2>2, <2>4, <2>6 DEF QueueInv, DoneIsLocked
  <2> QED BY <2>3, <2>5 DEF QueueInv
<1>6. CASE NewWindow
  BY <1>6, FewerHolders DEF NewWindow, KeyOf
<1>7. CASE UNCHANGED vars
  BY <1>7, FewerHolders DEF vars, KeyOf
<1> QED BY <1>1, <1>2, <1>3, <1>4, <1>5, <1>6, <1>7 DEF Next

(* QueueInv is an invariant of the queue. *)
LEMMA QueueInvariant == Spec => []QueueInv
<1>1. Init => QueueInv
  BY DEF Init, QueueInv, HoldersLock, OneHandlerPerKey, DoneIsLocked
<1> QED BY <1>1, QueueStep, TypeCorrect, PTL DEF Spec

(* No two handlers ever run for one dedup key: the atomic SET NX of the    *)
(* dedup script holds across workers, redeliveries, retries, lost replies, *)
(* crashes and expiries, for any number of each, as long as no handler of  *)
(* that key outlasts its 24 hours and no DEL of a retry, sent again after  *)
(* its reply was lost, deletes the key once another call has set it.       *)
THEOREM Exclusion == Spec => []OneHandlerPerKey
<1>1. QueueInv => OneHandlerPerKey
  BY DEF QueueInv, HoldersLock
<1> QED BY <1>1, QueueInvariant, PTL

(* Until its dedup key expires, the work of a key is done at most once,    *)
(* with the same two exceptions.                                           *)
THEOREM AtMostOnce == Spec => []DoneAtMostOnce
<1>1. QueueInv => DoneAtMostOnce
  BY DEF QueueInv, DoneIsLocked, DoneAtMostOnce
<1> QED BY <1>1, QueueInvariant, PTL


(***************************************************************************)
(* No work is lost without a redelivery.                                   *)
(***************************************************************************)

(* Nothing is handed out before the group exists, and only what came after *)
(* its origin; each delivery of an entry starts at most one call.          *)
OncePerDelivery ==
  /\ group = "absent" =>
       /\ origin = 0 /\ cursor = 0 /\ locks = {}
       /\ \A w \in Workers : status[w] = "down" /\ asked[w] = 0
  /\ \A i \in pel : origin < i
  /\ \A c \in calls : origin < c.id /\ 1 <= c.n /\ c.n <= delivered[c.id]
  /\ \A c, d \in calls : c.id = d.id /\ c.n = d.n => c = d

(* Who acknowledges has done the work or dead-lettered the entry; the only *)
(* call an entry ever had finds it pending when it runs the dedup script.  *)
CallsAccountFor ==
  \A c \in calls :
    /\ c.at = "acking" => KeyOf(c) \in handled
    /\ c.at = "dlqAck" => dlq[c.id] > 0
    /\ c.at = "dedup" /\ delivered[c.id] <= 1 /\ c.id \notin resent => c.id \in pel

(* No entry of the key was redelivered, and none sent its dedup script twice. *)
Undisturbed(k) == \A i \in EntriesOf(k) : delivered[i] <= 1 /\ i \notin resent

(* An entry that keeps the work from being lost: it is dead-lettered, or   *)
(* pending with its dedup script behind it.                                *)
Vouches(j) ==
  \/ dlq[j] > 0
  \/ j \in pel /\ delivered[j] >= 1 /\ \A c \in calls : c.id = j => c.at # "dedup"

(* Once an undone key is set, or an entry of it settled, an entry vouches  *)
(* for the work.                                                           *)
Vouched(k) ==
  (k \in locks \/ \E i \in EntriesOf(k) : Settled(i)) => \E j \in EntriesOf(k) : Vouches(j)

LossInv ==
  /\ OncePerDelivery
  /\ CallsAccountFor
  /\ \A k \in Keys \ handled : Undisturbed(k) => Vouched(k)

(* What a delivery leaves behind: each id counts one more, and a new call  *)
(* bears the new count.                                                    *)
LEMMA DeliverCounts ==
  ASSUME TypeOK, OncePerDelivery, NEW w \in Workers, NEW ids \in SUBSET (1..Len(stream)),
         \A i \in ids : origin < i, Deliver(ids), origin' = origin, stream' = stream,
         calls' \subseteq calls \union NewCalls(w, ids)
  PROVE  /\ \A i \in Ids : delivered'[i] = IF i \in ids THEN delivered[i] + 1 ELSE delivered[i]
         /\ \A i \in pel' : origin' < i
         /\ \A c \in calls' : origin' < c.id /\ 1 <= c.n /\ c.n <= delivered'[c.id]
         /\ \A c, d \in calls' : c.id = d.id /\ c.n = d.n => c = d
<1>1. ids \subseteq Ids
  BY DEF TypeOK, Ids
<1>2. \A i \in Ids : /\ delivered[i] \in Nat
                     /\ delivered'[i] = IF i \in ids THEN delivered[i] + 1 ELSE delivered[i]
  BY DEF Deliver, TypeOK
<1>3. \A c \in calls : c.id \in Ids /\ c.n \in Nat /\ origin < c.id /\ 1 <= c.n /\ c.n <= delivered[c.id]
  BY DEF TypeOK, Calls, OncePerDelivery
<1>4. \A c \in NewCalls(w, ids) : \E i \in ids :
        c = [by |-> w, id |-> i, n |-> delivered[i] + 1,
             at |-> IF stream[i] = Malformed THEN "dlqAdd" ELSE "dedup"]
  BY DEF NewCalls
<1>5. \A c \in NewCalls(w, ids) : c.id \in ids /\ c.n = delivered[c.id] + 1
  BY <1>4
<1>6. \A c, d \in NewCalls(w, ids) : c.id = d.id => c = d
  <2> SUFFICES ASSUME NEW c \in NewCalls(w, ids), NEW d \in NewCalls(w, ids), c.id = d.id
               PROVE  c = d
    OBVIOUS
  <2>1. PICK i \in ids : c = [by |-> w, id |-> i, n |-> delivered[i] + 1,
                            at |-> IF stream[i] = Malformed THEN "dlqAdd" ELSE "dedup"]
    BY <1>4
  <2>2. PICK j \in ids : d = [by |-> w, id |-> j, n |-> delivered[j] + 1,
                            at |-> IF stream[j] = Malformed THEN "dlqAdd" ELSE "dedup"]
    BY <1>4
  <2>3. i = j
    BY <2>1, <2>2
  <2> QED BY <2>1, <2>2, <2>3
<1>7. \A c \in calls' : origin' < c.id /\ 1 <= c.n /\ c.n <= delivered'[c.id]
  <2> SUFFICES ASSUME NEW c \in calls' PROVE origin' < c.id /\ 1 <= c.n /\ c.n <= delivered'[c.id]
    OBVIOUS
  <2>1. CASE c \in calls
    BY <1>2, <1>3, <2>1
  <2>2. CASE c \in NewCalls(w, ids)
    <3>1. c.id \in ids /\ c.id \in Ids /\ c.n = delivered[c.id] + 1
      BY <1>1, <1>5, <2>2
    <3>2. delivered[c.id] \in Nat /\ delivered'[c.id] = delivered[c.id] + 1
      BY <1>2, <3>1
    <3>3. origin < c.id /\ origin' = origin
      BY <3>1
    <3> QED BY <3>1, <3>2, <3>3
  <2> QED BY <2>1, <2>2
<1>8. \A c, d \in calls' : c.id = d.id /\ c.n = d.n => c = d
  <2> SUFFICES ASSUME NEW c \in calls', NEW d \in calls', c.id = d.id, c.n = d.n PROVE c = d
    OBVIOUS
  <2>1. CASE c \in calls /\ d \in calls
    BY <2>1 DEF OncePerDelivery
  <2>2. CASE c \in NewCalls(w, ids) /\ d \in NewCalls(w, ids)
    BY <1>6, <2>2
  <2>3. ASSUME NEW e \in calls, NEW f \in NewCalls(w, ids), e.id = f.id PROVE e.n # f.n
    <3>1. f.n = delivered[f.id] + 1 /\ e.n <= delivered[e.id] /\ e.n \in Nat
      BY <1>3, <1>5
    <3>2. delivered[e.id] \in Nat
      BY <1>2, <1>3
    <3> QED BY <2>3, <3>1, <3>2
  <2> QED BY <2>1, <2>2, <2>3
<1>9. \A i \in pel' : origin' < i
  BY DEF Deliver, OncePerDelivery
<1> QED BY <1>2, <1>7, <1>8, <1>9

(* A step that delivers nothing, starts no call and leaves the group alone. *)
LEMMA OnceKept ==
  ASSUME TypeOK, OncePerDelivery, origin' = origin, group' = group, cursor' = cursor,
         delivered' = delivered, pel' \subseteq pel, status' = status, asked' = asked,
         group = "absent" => locks' = {},
         \/ calls' \subseteq calls
         \/ \E c \in calls, point \in Points : MoveTo(c, point)
  PROVE  OncePerDelivery'
<1>1. CASE calls' \subseteq calls
  BY <1>1 DEF OncePerDelivery
<1>2. ASSUME NEW c \in calls, NEW point \in Points, MoveTo(c, point) PROVE OncePerDelivery'
  <2> DEFINE e == [c EXCEPT !.at = point]
  <2>1. e.id = c.id /\ e.n = c.n
    BY DEF TypeOK, Calls
  <2>2. calls' = (calls \ {c}) \union {e}
    BY <1>2 DEF MoveTo
  <2> HIDE DEF e
  <2> QED BY <2>1, <2>2 DEF OncePerDelivery
<1> QED BY <1>1, <1>2

LEMMA OnceStep == TypeOK /\ TypeOK' /\ OncePerDelivery /\ [Next]_vars => OncePerDelivery'
<1> SUFFICES ASSUME TypeOK, TypeOK', OncePerDelivery, [Next]_vars PROVE OncePerDelivery'
  OBVIOUS
<1> USE DEF redisVars, ghosts, bounds
<1>0. group = "absent" => calls = {}
  <2>1. \A c \in calls : c.id \in 1..MaxLen /\ c.id <= cursor
    BY DEF TypeOK, Calls, Ids
  <2> QED BY <2>1 DEF OncePerDelivery
<1>1. ASSUME NEW body \in Bodies, Publish(body) PROVE OncePerDelivery'
  BY <1>1 DEF Publish, OncePerDelivery
<1>2. ASSUME NEW w \in Workers, WorkerStep(w) PROVE OncePerDelivery'
  <2>1. CASE Start(w)
    <3>1. CASE group = "present"
      BY <2>1, <3>1 DEF Start, OncePerDelivery
    <3>2. CASE group = "absent"
      <4>1. calls = {}
        BY <1>0, <3>2
      <4>2. pel = {}
        <5>1. pel \subseteq 1..0
          BY <3>2 DEF OncePerDelivery, TypeOK
        <5> QED BY <5>1
      <4> QED BY <2>1, <4>1, <4>2 DEF Start, OncePerDelivery
    <3> QED BY <3>1, <3>2 DEF TypeOK
  <2>2. CASE Crash(w)
    BY <2>2 DEF Crash, OncePerDelivery, TypeOK
  <2>3. CASE Stop(w)
    BY <2>3 DEF Stop, OncePerDelivery, TypeOK
  <2>4. CASE Stopped(w)
    BY <2>4 DEF Stopped, OncePerDelivery, TypeOK
  <2>5. CASE AskRead(w)
    BY <2>5 DEF AskRead, OncePerDelivery, TypeOK
  <2>6. CASE ReadTimeout(w)
    BY <2>6 DEF ReadTimeout, OncePerDelivery, TypeOK
  <2>7. ASSUME NEW reply \in Replies, Read(w, reply) PROVE OncePerDelivery'
    <3> DEFINE ids == NextIds(asked[w])
    <3>1. asked[w] \in Nat /\ asked[w] > 0
      BY <2>7 DEF TypeOK, Read
    <3>2. ids \subseteq (cursor + 1)..LastId(asked[w]) /\ LastId(asked[w]) \in cursor..Len(stream)
      BY <3>1, NextIdsType
    <3>3. cursor \in Nat /\ origin \in Nat /\ origin <= cursor /\ Len(stream) \in Nat
      BY DEF TypeOK
    <3>4. ids \in SUBSET (1..Len(stream)) /\ \A i \in ids : origin < i
      BY <3>2, <3>3
    <3>5. /\ Deliver(ids) /\ origin' = origin /\ stream' = stream /\ group' = group
          /\ calls' \subseteq calls \union NewCalls(w, ids)
      BY <2>7 DEF Read
    <3>6. group # "absent"
      BY <3>1 DEF OncePerDelivery
    <3> HIDE DEF ids
    <3> QED BY <3>4, <3>5, <3>6, DeliverCounts DEF OncePerDelivery
  <2>8. ASSUME NEW reply \in Replies, Reclaim(w, reply) PROVE OncePerDelivery'
    <3>1. ClaimIds \subseteq pel
      BY DEF ClaimIds, TypeOK
    <3>2. pel \subseteq 1..Len(stream)
      <4>1. pel \subseteq 1..cursor /\ cursor \in Nat /\ cursor <= Len(stream)
        BY DEF TypeOK
      <4>2. stream \in Seq(Bodies)
        BY DEF TypeOK
      <4> QED BY <4>1, <4>2
    <3>3. ClaimIds \in SUBSET (1..Len(stream)) /\ \A i \in ClaimIds : origin < i
      BY <3>1, <3>2 DEF OncePerDelivery
    <3>4. /\ Deliver(ClaimIds) /\ origin' = origin /\ stream' = stream /\ group' = group
          /\ calls' \subseteq calls \union NewCalls(w, ClaimIds)
      BY <2>8 DEF Reclaim
    <3>5. group # "absent"
      BY <2>8 DEF OncePerDelivery, Reclaim
    <3> QED BY <3>3, <3>4, <3>5, DeliverCounts DEF OncePerDelivery
  <2> QED BY <1>2, <2>1, <2>2, <2>3, <2>4, <2>5, <2>6, <2>7, <2>8 DEF WorkerStep
<1>3. ASSUME NEW i \in Ids, GrowIdle(i) PROVE OncePerDelivery'
  BY <1>3, OnceKept DEF GrowIdle, OncePerDelivery
<1>4. ASSUME NEW c \in calls, CallStep(c) \/ CallFault(c) PROVE OncePerDelivery'
  <2>1. group # "absent"
    BY <1>0
  <2>2. /\ origin' = origin /\ group' = group /\ cursor' = cursor /\ delivered' = delivered
        /\ status' = status /\ asked' = asked
    BY <1>4 DEF CallStep, CallFault, Dedup, AnswerAck, XAck, AnswerRetry, Reserve, Release, Wake,
       AnswerDeadLetter, DlqAdd, DlqAck, CommandFails, ReplyLost, Resend, PipelineFails
  <2>3. pel' \subseteq pel
    BY <1>4 DEF CallStep, CallFault, Dedup, AnswerAck, XAck, AnswerRetry, Reserve, Release, Wake,
       AnswerDeadLetter, DlqAdd, DlqAck, CommandFails, ReplyLost, Resend, PipelineFails, DedupLua, Ack
  <2>4. calls' \subseteq calls \/ \E point \in Points : MoveTo(c, point)
    BY <1>4 DEF CallStep, CallFault, Dedup, AnswerAck, XAck, AnswerRetry, Reserve, Release, Wake,
       AnswerDeadLetter, DlqAdd, DlqAck, CommandFails, ReplyLost, Resend, PipelineFails, End, Points
  <2> QED BY <2>1, <2>2, <2>3, <2>4, OnceKept
<1>5. ASSUME NEW k \in Keys, Expire(k) PROVE OncePerDelivery'
  BY <1>5, OnceKept DEF Expire, OncePerDelivery
<1>6. CASE NewWindow
  BY <1>6, OnceKept DEF NewWindow, OncePerDelivery
<1>7. CASE UNCHANGED vars
  BY <1>7, OnceKept DEF vars, OncePerDelivery
<1> QED BY <1>1, <1>2, <1>3, <1>4, <1>5, <1>6, <1>7 DEF Next


(* An entry delivered once has one call. *)
LEMMA OnlyCall ==
  ASSUME TypeOK, OncePerDelivery, NEW c \in calls, NEW d \in calls, c.id = d.id,
         delivered[c.id] <= 1
  PROVE  c = d
<1>1. c.n \in Nat /\ d.n \in Nat /\ c.id \in Ids /\ delivered[c.id] \in Nat
  BY DEF TypeOK, Calls
<1>2. 1 <= c.n /\ c.n <= delivered[c.id] /\ 1 <= d.n /\ d.n <= delivered[c.id]
  BY DEF OncePerDelivery
<1>3. c.n = d.n
  BY <1>1, <1>2
<1> QED BY <1>3 DEF OncePerDelivery

(* A step of one call keeps the invariant: the other calls stay, only its  *)
(* own entry may leave the pending list, and only its own key may be set.  *)
LEMMA CallKept ==
  ASSUME TypeOK, LossInv, NEW c \in calls,
         UNCHANGED <<stream, origin, cursor, delivered>>,
         handled \subseteq handled', resent \subseteq resent', \A i \in Ids : dlq[i] > 0 => dlq'[i] > 0,
         \A d \in calls' : \/ d \in calls \ {c}
                           \/ /\ d.id = c.id
                              /\ d.at = "acking" => KeyOf(c) \in handled'
                              /\ d.at = "dlqAck" => dlq'[c.id] > 0
                              /\ d.at = "dedup" => c.id \in resent',
         pel' \subseteq pel, pel \ {c.id} \subseteq pel',
         pel' = pel \/ KeyOf(c) \in handled' \/ dlq'[c.id] > 0 \/ c.id \in resent'
           \/ (c.at = "dedup" /\ KeyOf(c) \in locks),
         locks' \subseteq locks \union {KeyOf(c)},
         KeyOf(c) \in locks' \ locks => c.at = "dedup" /\ pel' = pel
  PROVE  CallsAccountFor' /\ \A k \in Keys \ handled' : Undisturbed(k)' => Vouched(k)'
<1>1. \A k \in Keys : EntriesOf(k)' = EntriesOf(k)
  BY DEF EntriesOf
<1>2. /\ c.id \in Ids /\ c.id \in 1..Len(stream) /\ origin < c.id /\ origin \in Nat
      /\ delivered[c.id] >= 1 /\ delivered[c.id] \in Nat
  <2>1. c.id \in Ids /\ c.n \in Nat /\ c.id <= cursor /\ cursor <= Len(stream) /\ origin \in Nat
        /\ cursor \in Nat /\ delivered \in [Ids -> Nat]
    BY DEF TypeOK, Calls
  <2>2. 1 <= c.n /\ c.n <= delivered[c.id] /\ origin < c.id
    BY DEF LossInv, OncePerDelivery
  <2>3. Len(stream) \in Nat
    BY DEF TypeOK
  <2> QED BY <2>1, <2>2, <2>3 DEF Ids
<1>3. c.id \in EntriesOf(KeyOf(c))
  BY <1>2 DEF EntriesOf, KeyOf
<1>4. OncePerDelivery
  BY DEF LossInv
<1>5. CallsAccountFor'
  <2> SUFFICES ASSUME NEW d \in calls'
               PROVE  /\ d.at = "acking" => KeyOf(d) \in handled'
                      /\ d.at = "dlqAck" => dlq'[d.id] > 0
                      /\ d.at = "dedup" /\ delivered[d.id] <= 1 /\ d.id \notin resent' => d.id \in pel'
    BY DEF CallsAccountFor, KeyOf
  <2>1. CASE d \in calls \ {c}
    <3>1. d.id \in Ids
      BY <2>1 DEF TypeOK, Calls
    <3>2. delivered[d.id] <= 1 => d.id # c.id
      BY <1>4, <2>1, OnlyCall
    <3> QED BY <2>1, <3>1, <3>2 DEF LossInv, CallsAccountFor
  <2>2. CASE d \notin calls \ {c}
    BY <2>2 DEF KeyOf
  <2> QED BY <2>1, <2>2
<1>6. ASSUME NEW k \in Keys \ handled', Undisturbed(k)' PROVE Vouched(k)'
  <2>1. Undisturbed(k)
    BY <1>1, <1>6 DEF Undisturbed
  <2>2. Vouched(k)
    BY <2>1, <1>6 DEF LossInv
  <2>3. \A j \in EntriesOf(k) : delivered[j] <= 1 /\ j \notin resent'
    BY <1>1, <1>6 DEF Undisturbed
  <2>4. \A j \in EntriesOf(k) : j \in Ids /\ stream[j] = k
    BY DEF EntriesOf, TypeOK, Ids
  <2>5. ASSUME NEW j \in EntriesOf(k), Vouches(j) PROVE Vouches(j)'
    <3>1. CASE dlq[j] > 0
      BY <2>4, <3>1 DEF Vouches
    <3>2. CASE ~(dlq[j] > 0)
      <4>1. j \in pel /\ delivered[j] >= 1 /\ \A d \in calls : d.id = j => d.at # "dedup"
        BY <2>5, <3>2 DEF Vouches
      <4>2. \A d \in calls' : d.id = j => d.at # "dedup"
        BY <2>3, <4>1
      <4>3. j \in pel' \/ dlq'[j] > 0
        <5>1. CASE j # c.id
          BY <4>1, <5>1
        <5>2. CASE j = c.id
          <6>1. KeyOf(c) = k /\ c.at # "dedup"
            BY <2>4, <4>1, <5>2 DEF KeyOf
          <6> QED BY <1>6, <2>3, <4>1, <5>2, <6>1
        <5> QED BY <5>1, <5>2
      <4> QED BY <4>1, <4>2, <4>3 DEF Vouches
    <3> QED BY <3>1, <3>2
  <2>6. ASSUME k \in locks \/ \E i \in EntriesOf(k) : Settled(i) PROVE Vouched(k)'
    BY <1>1, <2>2, <2>5, <2>6 DEF Vouched
  <2>7. ASSUME k = KeyOf(c), c.at = "dedup", pel' = pel PROVE Vouched(k)'
    <3>1. c.id \in EntriesOf(k) /\ delivered[c.id] <= 1 /\ c.id \notin resent'
      BY <1>3, <2>3, <2>7
    <3>2. c.id \in pel'
      BY <2>7, <3>1 DEF LossInv, CallsAccountFor
    <3>3. \A d \in calls' : d.id = c.id => d.at # "dedup"
      BY <1>4, <3>1, OnlyCall
    <3>4. Vouches(c.id)'
      BY <1>2, <3>2, <3>3 DEF Vouches
    <3> QED BY <1>1, <3>1, <3>4 DEF Vouched
  <2>8. ASSUME NEW i \in EntriesOf(k), Settled(i)', ~Settled(i) PROVE Vouched(k)'
    <3>1. i = c.id
      BY <2>8 DEF Settled
    <3>2. i \in pel \ pel' /\ KeyOf(c) = k
      BY <2>4, <2>8, <3>1 DEF Settled, KeyOf
    <3>3. dlq'[i] > 0 \/ k \in locks
      BY <1>6, <2>3, <3>1, <3>2
    <3>4. dlq'[i] > 0 => Vouches(i)'
      BY DEF Vouches
    <3> QED BY <1>1, <2>6, <3>3, <3>4 DEF Vouched
  <2> QED BY <1>1, <2>6, <2>7, <2>8 DEF Vouched
<1> QED BY <1>5, <1>6

(* A step that only takes locks or calls away keeps the invariant. *)
LEMMA FewerCallsKept ==
  ASSUME TypeOK, LossInv, calls' \subseteq calls, locks' \subseteq locks,
         UNCHANGED <<stream, origin, cursor, delivered, pel, dlq, handled, resent>>
  PROVE  CallsAccountFor' /\ \A k \in Keys \ handled' : Undisturbed(k)' => Vouched(k)'
<1>1. CallsAccountFor'
  BY DEF LossInv, CallsAccountFor, KeyOf
<1>2. ASSUME NEW k \in Keys \ handled', Undisturbed(k)' PROVE Vouched(k)'
  <2>1. EntriesOf(k)' = EntriesOf(k) /\ \A i \in EntriesOf(k) : Settled(i)' = Settled(i)
    BY DEF EntriesOf, Settled
  <2>2. Undisturbed(k)
    BY <1>2, <2>1 DEF Undisturbed
  <2>3. Vouched(k)
    BY <1>2, <2>2 DEF LossInv
  <2>4. \A j \in EntriesOf(k) : Vouches(j) => Vouches(j)'
    BY DEF Vouches
  <2> QED BY <2>1, <2>3, <2>4 DEF Vouched
<1> QED BY <1>1, <1>2

(* So does a delivery: the entries it hands out are pending, and one it    *)
(* hands out again is no longer delivered once.                            *)
LEMMA DeliverKept ==
  ASSUME TypeOK, LossInv, NEW w \in Workers, NEW ids \in SUBSET (1..Len(stream)),
         Deliver(ids), UNCHANGED <<stream, origin, locks, dlq, handled, resent>>,
         calls' \subseteq calls \union NewCalls(w, ids),
         cursor' \in Nat, cursor <= cursor', (cursor + 1)..cursor' \subseteq ids
  PROVE  CallsAccountFor' /\ \A k \in Keys \ handled' : Undisturbed(k)' => Vouched(k)'
<1>1. ids \subseteq Ids
  BY DEF TypeOK, Ids
<1>2. \A i \in Ids : /\ delivered[i] \in Nat
                     /\ delivered'[i] = IF i \in ids THEN delivered[i] + 1 ELSE delivered[i]
  BY DEF Deliver, TypeOK
<1>3. \A c \in NewCalls(w, ids) : c.id \in ids /\ c.at \in {"dedup", "dlqAdd"}
  BY DEF NewCalls
<1>4. pel \subseteq pel' /\ ids \subseteq pel' /\ pel' \subseteq pel \union ids
  BY DEF Deliver
<1>5. CallsAccountFor'
  <2> SUFFICES ASSUME NEW c \in calls'
               PROVE  /\ c.at = "acking" => KeyOf(c) \in handled
                      /\ c.at = "dlqAck" => dlq[c.id] > 0
                      /\ c.at = "dedup" /\ delivered'[c.id] <= 1 /\ c.id \notin resent => c.id \in pel'
    BY DEF CallsAccountFor, KeyOf
  <2>1. CASE c \in calls
    <3>1. c.id \in Ids
      BY <2>1 DEF TypeOK, Calls
    <3>2. delivered'[c.id] <= 1 => delivered[c.id] <= 1
      BY <1>2, <3>1
    <3> QED BY <1>4, <2>1, <3>2 DEF LossInv, CallsAccountFor
  <2>2. CASE c \in NewCalls(w, ids)
    BY <1>3, <1>4, <2>2
  <2> QED BY <2>1, <2>2
<1>6. ASSUME NEW k \in Keys \ handled', Undisturbed(k)' PROVE Vouched(k)'
  <2>1. EntriesOf(k)' = EntriesOf(k) /\ \A j \in EntriesOf(k) : j \in Ids
    BY DEF EntriesOf, TypeOK, Ids
  <2>2. \A j \in EntriesOf(k) : delivered'[j] <= 1 /\ j \notin resent
    BY <1>6, <2>1 DEF Undisturbed
  <2>3. \A j \in EntriesOf(k) : delivered[j] <= 1
    BY <1>2, <2>1, <2>2
  <2>4. Vouched(k)
    BY <1>6, <2>2, <2>3 DEF LossInv, Undisturbed
  <2>5. ASSUME NEW j \in EntriesOf(k), Vouches(j) PROVE Vouches(j)'
    <3>1. CASE dlq[j] > 0
      BY <3>1 DEF Vouches
    <3>2. CASE ~(dlq[j] > 0)
      <4>1. j \in pel /\ delivered[j] >= 1 /\ \A d \in calls : d.id = j => d.at # "dedup"
        BY <2>5, <3>2 DEF Vouches
      <4>2. j \notin ids /\ delivered'[j] >= 1
        BY <1>2, <2>1, <2>2, <4>1
      <4>3. \A d \in calls' : d.id = j => d.at # "dedup"
        BY <1>3, <4>1, <4>2
      <4> QED BY <1>4, <4>1, <4>2, <4>3 DEF Vouches
    <3> QED BY <3>1, <3>2
  <2>6. ASSUME NEW i \in EntriesOf(k), Settled(i)' PROVE Settled(i)
    <3>1. origin < i /\ i <= cursor' /\ i \notin pel' /\ i \in Nat
      BY <2>1, <2>6 DEF Settled, Ids
    <3>2. i \notin ids /\ i \notin pel
      BY <1>4, <3>1
    <3>3. i \notin (cursor + 1)..cursor'
      BY <3>2
    <3>4. i <= cursor
      BY <3>1, <3>3 DEF TypeOK
    <3> QED BY <3>1, <3>2, <3>4 DEF Settled
  <2> QED BY <2>1, <2>4, <2>5, <2>6 DEF Vouched
<1> QED BY <1>5, <1>6


LEMMA PublishLoss ==
  ASSUME TypeOK, LossInv, NEW body \in Bodies, Publish(body)
  PROVE  CallsAccountFor' /\ \A k \in Keys \ handled' : Undisturbed(k)' => Vouched(k)'
<1>1. UNCHANGED <<origin, cursor, pel, delivered, locks, dlq, calls, handled, resent>>
  BY DEF Publish, ghosts
<1>2. /\ Len(stream') = Len(stream) + 1 /\ Len(stream) \in Nat
      /\ \A i \in 1..Len(stream) : stream'[i] = stream[i]
  BY DEF Publish, TypeOK
<1>3. CallsAccountFor'
  BY <1>1, PublishKeeps DEF LossInv, CallsAccountFor
<1>4. ASSUME NEW k \in Keys \ handled', Undisturbed(k)' PROVE Vouched(k)'
  <2>1. origin \in Nat /\ cursor \in Nat /\ cursor <= Len(stream)
    BY DEF TypeOK
  <2>2. EntriesOf(k) \subseteq EntriesOf(k)'
    BY <1>1, <1>2, <2>1 DEF EntriesOf
  <2>3. Undisturbed(k)
    BY <1>1, <1>4, <2>2 DEF Undisturbed
  <2>4. Vouched(k)
    BY <1>1, <1>4, <2>3 DEF LossInv
  <2>5. \A j \in EntriesOf(k) : Vouches(j) => Vouches(j)'
    BY <1>1 DEF Vouches
  <2>6. ASSUME NEW i \in EntriesOf(k)', Settled(i)' PROVE i \in EntriesOf(k) /\ Settled(i)
    <3>1. i \in (origin + 1)..Len(stream') /\ stream'[i] = k /\ i <= cursor /\ Settled(i)
      BY <1>1, <2>6 DEF EntriesOf, Settled
    <3>2. i \in (origin + 1)..Len(stream) /\ i \in 1..Len(stream)
      BY <1>2, <2>1, <3>1
    <3> QED BY <1>2, <3>1, <3>2 DEF EntriesOf
  <2> QED BY <1>1, <2>2, <2>4, <2>5, <2>6 DEF Vouched
<1> QED BY <1>3, <1>4

(* A group is created with no entry of its own. *)
LEMMA StartLoss ==
  ASSUME TypeOK, LossInv, NEW w \in Workers, Start(w)
  PROVE  CallsAccountFor' /\ \A k \in Keys \ handled' : Undisturbed(k)' => Vouched(k)'
<1> USE DEF ghosts, bounds
<1>1. CASE group = "present"
  BY <1>1, FewerCallsKept DEF Start
<1>2. CASE group = "absent"
  <2>1. cursor = 0 /\ locks = {}
    BY <1>2 DEF LossInv, OncePerDelivery
  <2>2. \A c \in calls : c.id \in 1..MaxLen /\ c.id <= cursor
    BY DEF TypeOK, Calls, Ids
  <2>3. calls = {} /\ calls' = {} /\ locks' = {}
    BY <1>2, <2>1, <2>2 DEF Start
  <2>4. origin' = Len(stream) /\ stream' = stream /\ Len(stream) \in Nat
    BY <1>2 DEF Start, TypeOK
  <2>5. \A k \in Keys : EntriesOf(k)' = {}
    BY <2>4 DEF EntriesOf
  <2> QED BY <2>3, <2>5 DEF CallsAccountFor, Vouched
<1> QED BY <1>1, <1>2 DEF TypeOK

(* A call that moves on or ends, seen from CallKept. *)
LEMMA MovedOrEnded ==
  ASSUME TypeOK, NEW c \in calls, NEW point \in Points, MoveTo(c, point) \/ End(c)
  PROVE  \A d \in calls' : d \in calls \ {c} \/ (d.id = c.id /\ d.at = point)
<1> DEFINE e == [c EXCEPT !.at = point]
<1>1. e.id = c.id /\ e.at = point
  BY DEF TypeOK, Calls
<1>2. calls' \subseteq (calls \ {c}) \union {e}
  BY DEF MoveTo, End
<1> QED BY <1>1, <1>2

LEMMA CallLoss ==
  ASSUME TypeOK, LossInv, NEW c \in calls, CallStep(c) \/ CallFault(c)
  PROVE  CallsAccountFor' /\ \A k \in Keys \ handled' : Undisturbed(k)' => Vouched(k)'
<1> USE DEF redisVars, ghosts, bounds
<1>0. c.id \in Ids /\ dlq \in [Ids -> Nat]
  BY DEF TypeOK, Calls
<1>1. CASE Dedup(c)
  <2>1. CASE KeyOf(c) \in locks
    BY <1>1, <2>1, MovedOrEnded, CallKept DEF Dedup, DedupLua, Ack, Points
  <2>2. CASE KeyOf(c) \notin locks
    BY <1>1, <2>2, MovedOrEnded, CallKept DEF Dedup, DedupLua, Points
  <2> QED BY <2>1, <2>2
<1>2. CASE AnswerAck(c)
  BY <1>2, MovedOrEnded, CallKept DEF AnswerAck, Points
<1>3. CASE XAck(c)
  <2>1. KeyOf(c) \in handled
    BY <1>3 DEF XAck, LossInv, CallsAccountFor
  <2> QED BY <1>3, <2>1, CallKept DEF XAck, Ack, End
<1>4. CASE AnswerRetry(c) \/ Reserve(c) \/ AnswerDeadLetter(c) \/ CommandFails(c)
  <2>1. \E point \in {"reserving", "releasing", "dlqAdd"} : MoveTo(c, point)
    BY <1>4 DEF AnswerRetry, Reserve, AnswerDeadLetter, CommandFails
  <2>2. \A d \in calls' : d \in calls \ {c} \/ (d.id = c.id /\ d.at \in {"reserving", "releasing", "dlqAdd"})
    BY <2>1, MovedOrEnded DEF Points
  <2>3. UNCHANGED <<stream, origin, cursor, delivered, pel, dlq, locks, handled, resent>>
    BY <1>4 DEF AnswerRetry, Reserve, AnswerDeadLetter, CommandFails
  <2> QED BY <2>2, <2>3, CallKept
<1>5. CASE Release(c)
  BY <1>5, MovedOrEnded, CallKept DEF Release, Unlock, Points
<1>6. CASE Wake(c) \/ PipelineFails(c)
  <2>1. UNCHANGED <<stream, origin, cursor, delivered, pel, dlq, locks, handled, resent>> /\ calls' \subseteq calls
    BY <1>6 DEF Wake, PipelineFails, End
  <2> QED BY <2>1, FewerCallsKept
<1>7. CASE DlqAdd(c)
  <2>1. /\ \A i \in Ids : dlq[i] > 0 => dlq'[i] > 0
        /\ dlq'[c.id] > 0
    BY <1>0, <1>7 DEF DlqAdd
  <2> QED BY <1>7, <2>1, MovedOrEnded, CallKept DEF DlqAdd, Points
<1>8. CASE DlqAck(c)
  <2>1. dlq[c.id] > 0
    BY <1>8 DEF DlqAck, LossInv, CallsAccountFor
  <2> QED BY <1>8, <2>1, CallKept DEF DlqAck, Ack, End
<1>9. CASE ReplyLost(c)
  <2>1. \A d \in calls' : d \in calls \ {c} \/ (d.id = c.id /\ d.at = "dlqAdd")
    BY <1>9, MovedOrEnded DEF ReplyLost, Points
  <2>2. UNCHANGED <<stream, origin, cursor, delivered, dlq, handled, resent>>
    BY <1>9 DEF ReplyLost
  <2>3. c.at = "acking" => KeyOf(c) \in handled
    BY DEF LossInv, CallsAccountFor
  <2>4. /\ pel' \subseteq pel /\ pel \ {c.id} \subseteq pel'
        /\ pel' = pel \/ KeyOf(c) \in handled \/ (c.at = "dedup" /\ KeyOf(c) \in locks)
        /\ locks' \subseteq locks \union {KeyOf(c)}
        /\ KeyOf(c) \in locks' \ locks => c.at = "dedup" /\ pel' = pel
    BY <1>9, <2>3 DEF ReplyLost, DedupLua, Unlock, Ack
  <2> QED BY <2>1, <2>2, <2>4, CallKept
<1>10. CASE Resend(c)
  <2>1. c.at = "dlqAck" => dlq[c.id] > 0
    BY DEF LossInv, CallsAccountFor
  <2>2. c.at = "acking" => KeyOf(c) \in handled
    BY DEF LossInv, CallsAccountFor
  <2>3. UNCHANGED <<stream, origin, cursor, delivered, dlq, handled>> /\ resent \subseteq resent'
    BY <1>10 DEF Resend
  <2>4. \A d \in calls' : \/ d \in calls \ {c}
                         \/ /\ d.id = c.id
                            /\ d.at = "acking" => KeyOf(c) \in handled
                            /\ d.at # "dlqAck"
                            /\ d.at = "dedup" => c.id \in resent'
    <3>1. CASE c.at \in {"dlqAck", "releasing", "rereleasing"}
      <4>1. MoveTo(c, "dlqAdd") \/ MoveTo(c, "rereleasing")
        BY <1>10, <3>1 DEF Resend
      <4>2. \A d \in calls' : d \in calls \ {c} \/ (d.id = c.id /\ d.at \in {"dlqAdd", "rereleasing"})
        BY <4>1, MovedOrEnded DEF Points
      <4> QED BY <4>2
    <3>2. CASE c.at \notin {"dlqAck", "releasing", "rereleasing"}
      BY <1>10, <2>2, <3>2 DEF Resend, Unlock
    <3> QED BY <3>1, <3>2
  <2>5. /\ pel' \subseteq pel /\ pel \ {c.id} \subseteq pel'
        /\ pel' = pel \/ dlq[c.id] > 0 \/ KeyOf(c) \in handled \/ (c.at = "dedup" /\ KeyOf(c) \in locks)
        /\ locks' \subseteq locks \union {KeyOf(c)}
        /\ KeyOf(c) \in locks' \ locks => c.at = "dedup" /\ pel' = pel
    BY <1>10, <2>1, <2>2 DEF Resend, DedupLua, Unlock, Ack
  <2> QED BY <2>3, <2>4, <2>5, CallKept
<1> QED BY <1>1, <1>2, <1>3, <1>4, <1>5, <1>6, <1>7, <1>8, <1>9, <1>10 DEF CallStep, CallFault

LEMMA LossStep == TypeOK /\ TypeOK' /\ LossInv /\ [Next]_vars => LossInv'
<1> SUFFICES ASSUME TypeOK, TypeOK', LossInv, [Next]_vars PROVE LossInv'
  OBVIOUS
<1> USE DEF redisVars, ghosts, bounds
<1>0. OncePerDelivery'
  BY OnceStep DEF LossInv
<1> DEFINE Kept == CallsAccountFor' /\ \A k \in Keys \ handled' : Undisturbed(k)' => Vouched(k)'
<1>1. ASSUME NEW body \in Bodies, Publish(body) PROVE Kept
  BY <1>1, PublishLoss
<1>2. ASSUME NEW w \in Workers, WorkerStep(w) PROVE Kept
  <2>1. CASE Start(w)
    BY <2>1, StartLoss
  <2>2. CASE Crash(w) \/ Stop(w) \/ Stopped(w) \/ AskRead(w) \/ ReadTimeout(w)
    <3>1. UNCHANGED <<stream, origin, cursor, delivered, pel, locks, dlq, handled, resent>>
          /\ calls' \subseteq calls
      BY <2>2 DEF Crash, Stop, Stopped, AskRead, ReadTimeout
    <3> QED BY <3>1, FewerCallsKept
  <2>3. ASSUME NEW reply \in Replies, Read(w, reply) PROVE Kept
    <3> DEFINE ids == NextIds(asked[w])
    <3>1. asked[w] \in Nat
      BY DEF TypeOK
    <3>2. ids = (cursor + 1)..LastId(asked[w]) /\ LastId(asked[w]) \in cursor..Len(stream)
      BY <3>1, NextIdsType DEF NextIds
    <3>3. cursor \in Nat /\ Len(stream) \in Nat
      BY DEF TypeOK
    <3>4. ids \in SUBSET (1..Len(stream))
      BY <3>2, <3>3
    <3>5. /\ Deliver(ids) /\ UNCHANGED <<stream, origin, locks, dlq, handled, resent>>
          /\ calls' \subseteq calls \union NewCalls(w, ids) /\ cursor' = LastId(asked[w])
      BY <2>3 DEF Read
    <3>6. cursor' \in Nat /\ cursor <= cursor' /\ (cursor + 1)..cursor' \subseteq ids
      BY <3>2, <3>3, <3>5
    <3> HIDE DEF ids
    <3> QED BY <3>4, <3>5, <3>6, DeliverKept
  <2>4. ASSUME NEW reply \in Replies, Reclaim(w, reply) PROVE Kept
    <3>1. cursor \in Nat /\ Len(stream) \in Nat /\ cursor <= Len(stream)
      BY DEF TypeOK
    <3>2. ClaimIds \subseteq pel /\ pel \subseteq 1..cursor
      BY DEF ClaimIds, TypeOK
    <3>3. ClaimIds \in SUBSET (1..Len(stream))
      BY <3>1, <3>2
    <3>4. /\ Deliver(ClaimIds) /\ UNCHANGED <<stream, origin, locks, dlq, handled, resent, cursor>>
          /\ calls' \subseteq calls \union NewCalls(w, ClaimIds)
      BY <2>4 DEF Reclaim
    <3>5. (cursor + 1)..cursor' \subseteq ClaimIds
      BY <3>1, <3>4
    <3> QED BY <3>1, <3>3, <3>4, <3>5, DeliverKept
  <2> QED BY <1>2, <2>1, <2>2, <2>3, <2>4 DEF WorkerStep
<1>3. ASSUME NEW i \in Ids, GrowIdle(i) PROVE Kept
  BY <1>3, FewerCallsKept DEF GrowIdle
<1>4. ASSUME NEW c \in calls, CallStep(c) \/ CallFault(c) PROVE Kept
  BY <1>4, CallLoss
<1>5. ASSUME NEW k \in Keys, Expire(k) PROVE Kept
  BY <1>5, FewerCallsKept DEF Expire
<1>6. ASSUME NewWindow PROVE Kept
  <2>1. UNCHANGED <<stream, origin, cursor, delivered, pel, dlq, handled, resent, calls, locks>>
    BY <1>6 DEF NewWindow
  <2> QED BY <2>1, FewerCallsKept
<1>7. ASSUME UNCHANGED vars PROVE Kept
  <2>1. UNCHANGED <<stream, origin, cursor, delivered, pel, dlq, handled, resent, calls, locks>>
    BY <1>7 DEF vars
  <2> QED BY <2>1, FewerCallsKept
<1> HIDE DEF Kept
<1>8. Kept
  BY <1>1, <1>2, <1>3, <1>4, <1>5, <1>6, <1>7 DEF Next
<1> QED BY <1>0, <1>8 DEF LossInv, Kept

(* Work disappears only by a redelivery, or a repeated dedup script, that  *)
(* runs into the dedup key an earlier run left behind: whatever crashes,   *)
(* expires, is published twice, or fails, a key whose entries were each    *)
(* handed out once is done, dead-lettered or still pending.                *)
THEOREM NoSilentLoss == Spec => []LossNeedsRedelivery
<1>1. Init => LossInv
  BY DEF Init, LossInv, OncePerDelivery, CallsAccountFor, Vouched, Undisturbed, EntriesOf
<1>2. TypeOK /\ LossInv => LossNeedsRedelivery
  <2> SUFFICES ASSUME TypeOK, LossInv, NEW k \in Keys, Lost(k), Undisturbed(k) PROVE FALSE
    <3>1. ASSUME TypeOK, NEW k \in Keys
          PROVE  (\E i \in EntriesOf(k) : delivered[i] > 1 \/ i \in resent) \/ Undisturbed(k)
      <4>1. \A i \in EntriesOf(k) : i \in Ids /\ delivered[i] \in Nat
        BY <3>1 DEF EntriesOf, TypeOK, Ids
      <4> QED BY <4>1 DEF Undisturbed
    <3> QED BY <3>1 DEF LossNeedsRedelivery
  <2>1. PICK j \in EntriesOf(k) : Vouches(j)
    BY DEF LossInv, Vouched, Lost
  <2>2. Settled(j) /\ dlq[j] = 0
    BY DEF Lost
  <2> QED BY <2>1, <2>2 DEF Vouches, Settled
<1> QED BY <1>1, <1>2, LossStep, TypeCorrect, PTL DEF Spec
==============================================================================
