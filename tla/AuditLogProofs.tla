---------------------------- MODULE AuditLogProofs ----------------------------
(***************************************************************************)
(* Proofs about AuditLog, for any number of events, actors and faults: the *)
(* hash chain is linked, an event has one row and no more but for answers  *)
(* that were lost, two events of an actor never share a prior event, and   *)
(* no operation is performed in the dark; where no two emissions begin one *)
(* actor's chain, the emitter implements ActorHistories.  And about        *)
(* ChainVerify, for any batch size and any damage: a chain no one damaged  *)
(* raises no alarm, and the rows a sweep vouches for are sound.            *)
(***************************************************************************)
EXTENDS AuditLog, ChainVerify, FiniteSetTheorems, WellFoundedInduction, TLAPS

USE AuditAssumption DEF AuditAssumption

(***************************************************************************)
(* Type correctness.                                                       *)
(***************************************************************************)

(* A call that fails an attempt goes on or gives up. *)
LEMMA NextAttemptType ==
  ASSUME TypeOK, NEW e \in Events, NextAttempt(e), pc[e] \in {"append", "insert"},
         attempt[e] < MaxAttempts
  PROVE  attempt' \in [Events -> 0..MaxAttempts] /\ pc' \in [Events -> Steps]
  BY DEF TypeOK, NextAttempt, Goto, Steps

(* A row built from the tail an append read. *)
LEMMA RowOfType ==
  ASSUME TypeOK, NEW e \in Events
  PROVE  RowOf(e) \in Rows /\ RowOf(e).event = e
<1>1. seen[e].hash \in Hashes
  BY DEF TypeOK
<1>2. Append(seen[e].hash, e) \in Hashes
  BY <1>1 DEF Hashes
<1> QED BY <1>1, <1>2 DEF RowOf, Rows, RowHash

(* A call still appending has attempts left. *)
AttemptsLeft == \A e \in Events : pc[e] \in {"start", "append", "insert"} => attempt[e] < MaxAttempts

(* Both tables and every emission keep to their types, and an append that  *)
(* is still at work has an attempt left.                                   *)
THEOREM TypeCorrect == Spec => [](TypeOK /\ AttemptsLeft)
<1>1. Init => TypeOK /\ AttemptsLeft
  BY DEF Init, TypeOK, AttemptsLeft, Steps, Rows, Hashes, Null
<1>2. TypeOK /\ AttemptsLeft /\ [Next]_vars => TypeOK' /\ AttemptsLeft'
  <2> SUFFICES ASSUME TypeOK, AttemptsLeft, [Next]_vars PROVE TypeOK' /\ AttemptsLeft'
    OBVIOUS
  <2>1. ASSUME NEW e \in Events, ReadHead(e) PROVE TypeOK' /\ AttemptsLeft'
    BY <2>1 DEF ReadHead, Goto, TypeOK, AttemptsLeft, Steps
  <2>2. ASSUME NEW e \in Events, ReadTail(e) PROVE TypeOK' /\ AttemptsLeft'
    <3>1. TailHash(Len(chain)) \in Hashes
      <4>1. CASE Len(chain) = 0
        BY <4>1 DEF TailHash, Null, Hashes
      <4>2. CASE Len(chain) # 0
        <5>1. chain[Len(chain)] \in Rows
          BY <4>2 DEF TypeOK
        <5> QED BY <4>2, <5>1 DEF TailHash, Rows
      <4> QED BY <4>1, <4>2
    <3>2. [seq |-> Len(chain), hash |-> TailHash(Len(chain))] \in [seq : Nat, hash : Hashes]
      BY <3>1 DEF TypeOK
    <3> QED BY <2>2, <3>2 DEF ReadTail, Goto, TypeOK, AttemptsLeft, Steps
  <2>3. ASSUME NEW e \in Events, InsertCommits(e) PROVE TypeOK' /\ AttemptsLeft'
    <3>1. chain' \in Seq(Rows)
      BY <2>3, RowOfType DEF InsertCommits, TypeOK
    <3> QED BY <2>3, <3>1 DEF InsertCommits, Goto, TypeOK, AttemptsLeft, Steps
  <2>4. ASSUME NEW e \in Events, InsertConflicts(e) \/ AppendFails(e) PROVE TypeOK' /\ AttemptsLeft'
    <3>1. attempt[e] < MaxAttempts /\ pc[e] \in {"append", "insert"} /\ NextAttempt(e)
      BY <2>4 DEF InsertConflicts, AppendFails, AttemptsLeft
    <3>2. AttemptsLeft'
      BY <2>4, <3>1 DEF InsertConflicts, AppendFails, NextAttempt, Goto, AttemptsLeft, TypeOK, Steps
    <3>3. attempt' \in [Events -> 0..MaxAttempts] /\ pc' \in [Events -> Steps]
      BY <3>1, NextAttemptType
    <3>4. faults' \in Nat /\ UNCHANGED <<chain, log, head, prior, seen, lost, performed>>
      BY <2>4 DEF InsertConflicts, AppendFails, Fault, TypeOK
    <3> QED BY <3>2, <3>3, <3>4 DEF TypeOK
  <2>5. ASSUME NEW e \in Events, InsertAnswerLost(e) PROVE TypeOK' /\ AttemptsLeft'
    <3>1. attempt[e] < MaxAttempts /\ pc[e] = "insert" /\ NextAttempt(e)
      BY <2>5 DEF InsertAnswerLost, AttemptsLeft
    <3>2. AttemptsLeft'
      BY <2>5, <3>1 DEF InsertAnswerLost, NextAttempt, Goto, AttemptsLeft, TypeOK, Steps
    <3>3. chain' \in Seq(Rows) /\ lost' \in [Events -> Nat]
      <4>1. RowOf(e) \in Rows /\ chain \in Seq(Rows) /\ chain' = Append(chain, RowOf(e))
        BY <2>5, RowOfType DEF InsertAnswerLost, TypeOK
      <4>2. lost' \in [Events -> Nat]
        BY <2>5 DEF InsertAnswerLost, TypeOK
      <4> QED BY <4>1, <4>2
    <3>4. attempt' \in [Events -> 0..MaxAttempts] /\ pc' \in [Events -> Steps]
      BY <3>1, NextAttemptType
    <3>5. faults' \in Nat /\ UNCHANGED <<log, head, prior, seen, performed>>
      BY <2>5 DEF InsertAnswerLost, Fault, TypeOK
    <3> QED BY <3>2, <3>3, <3>4, <3>5 DEF TypeOK
  <2>6. ASSUME NEW e \in Events, Advance(e) \/ Upsert(e) \/ AdvanceAnswerLost(e)
        PROVE  TypeOK' /\ AttemptsLeft'
    <3>1. log' \subseteq [id : Events, prior : Events \union {Earlier, None}]
          /\ head' \in [Actors -> Events \union {Earlier, None}]
      <4>1. /\ log' = log \union {[id |-> e, prior |-> prior[e]]}
            /\ head' = [head EXCEPT ![ActorOf[e]] = e]
        BY <2>6 DEF Advance, Upsert, AdvanceAnswerLost, WriteEvent
      <4>2. [id |-> e, prior |-> prior[e]] \in [id : Events, prior : Events \union {Earlier, None}]
        BY DEF TypeOK
      <4> QED BY <4>1, <4>2 DEF TypeOK
    <3>2. pc' \in [Events -> Steps] /\ AttemptsLeft'
      BY <2>6 DEF Advance, Upsert, AdvanceAnswerLost, Goto, TypeOK, AttemptsLeft, Steps
    <3>3. faults' \in Nat /\ UNCHANGED <<chain, prior, seen, attempt, lost, performed>>
      BY <2>6 DEF Advance, Upsert, AdvanceAnswerLost, Fault, TypeOK
    <3> QED BY <3>1, <3>2, <3>3 DEF TypeOK
  <2>7. ASSUME NEW e \in Events,
               CasFails(e) \/ FindNoHead(e) \/ AdvanceFails(e) \/ Crash(e)
        PROVE  TypeOK' /\ AttemptsLeft'
    <3>1. pc' \in [Events -> Steps] /\ AttemptsLeft'
      BY <2>7 DEF CasFails, FindNoHead, AdvanceFails, Crash, Goto, TypeOK, AttemptsLeft, Steps
    <3>2. /\ faults' \in Nat
          /\ UNCHANGED <<chain, log, head, prior, seen, attempt, lost, performed>>
      BY <2>7 DEF CasFails, FindNoHead, AdvanceFails, Crash, Fault, TypeOK
    <3> QED BY <3>1, <3>2 DEF TypeOK
  <2>8. ASSUME NEW e \in Events, Perform(e) PROVE TypeOK' /\ AttemptsLeft'
    BY <2>8 DEF Perform, TypeOK, AttemptsLeft
  <2>9. CASE UNCHANGED vars
    BY <2>9 DEF vars, TypeOK, AttemptsLeft
  <2> QED BY <2>1, <2>2, <2>3, <2>4, <2>5, <2>6, <2>7, <2>8, <2>9 DEF Next
<1> QED BY <1>1, <1>2, PTL DEF Spec

(***************************************************************************)
(* The hash chain.  An append commits only if no row was added since it    *)
(* read the tail, so the hash it read is the hash of the last row.         *)
(***************************************************************************)

(* The chain only grows at its end. *)
LEMMA GrowKeeps ==
  ASSUME TypeOK, NEW e \in Events, chain' = Append(chain, RowOf(e))
  PROVE  /\ Len(chain') = Len(chain) + 1 /\ chain'[Len(chain) + 1] = RowOf(e)
         /\ \A i \in 1..Len(chain) : chain'[i] = chain[i]
         /\ \A n \in 0..Len(chain) : TailHash(n)' = TailHash(n)
<1>1. chain \in Seq(Rows) /\ RowOf(e) \in Rows
  BY RowOfType DEF TypeOK
<1>2. /\ Len(chain') = Len(chain) + 1 /\ chain'[Len(chain) + 1] = RowOf(e)
      /\ \A i \in 1..Len(chain) : chain'[i] = chain[i]
  BY <1>1
<1>3. \A n \in 0..Len(chain) : n = 0 \/ n \in 1..Len(chain)
  BY <1>1
<1> QED BY <1>2, <1>3 DEF TailHash

LEMMA AppendLinks ==
  ASSUME TypeOK, ChainLinked, TailSeen, NEW e \in Events, pc[e] = "insert",
         Serializable(e), chain' = Append(chain, RowOf(e)), UNCHANGED seen,
         \A f \in Events : pc'[f] = "insert" => pc[f] = "insert"
  PROVE  ChainLinked' /\ TailSeen'
<1>1. Len(chain) \in Nat
  BY DEF TypeOK
<1>2. ASSUME NEW i \in 1..Len(chain')
      PROVE  chain'[i].prev = TailHash(i - 1)' /\ chain'[i].hash = RowHash(chain'[i].prev, chain'[i].event)
  <2>1. i - 1 \in 0..Len(chain)
    BY <1>1, GrowKeeps
  <2>2. CASE i \in 1..Len(chain)
    BY <2>1, <2>2, GrowKeeps DEF ChainLinked
  <2>3. CASE i = Len(chain) + 1
    <3>1. seen[e].hash = TailHash(i - 1) /\ chain'[i] = RowOf(e)
      BY <1>1, <2>3, GrowKeeps DEF TailSeen, Serializable
    <3> QED BY <2>1, <3>1, GrowKeeps DEF RowOf
  <2> QED BY <1>1, <2>2, <2>3, GrowKeeps
<1>3. ASSUME NEW f \in Events, pc'[f] = "insert"
      PROVE  (seen[f].seq <= Len(chain) /\ seen[f].hash = TailHash(seen[f].seq))'
  <2>1. seen[f].seq \in Nat /\ seen[f].seq <= Len(chain) /\ seen[f].hash = TailHash(seen[f].seq)
    BY <1>3 DEF TypeOK, TailSeen
  <2>2. seen[f].seq \in 0..Len(chain)
    BY <1>1, <2>1
  <2> QED BY <1>1, <2>1, <2>2, GrowKeeps
<1> QED BY <1>2, <1>3 DEF ChainLinked, TailSeen

(* HashChain.append: whatever the interleaving of appends, conflicts, lost *)
(* answers and crashes, every row links to the one before it.              *)
THEOREM Linked == Spec => []ChainLinked
<1>1. Init => ChainLinked /\ TailSeen
  BY DEF Init, ChainLinked, TailSeen
<1>2. TypeOK /\ ChainLinked /\ TailSeen /\ [Next]_vars => ChainLinked' /\ TailSeen'
  <2> SUFFICES ASSUME TypeOK, ChainLinked, TailSeen, [Next]_vars
               PROVE  ChainLinked' /\ TailSeen'
    OBVIOUS
  <2>1. ASSUME UNCHANGED <<chain, seen>>,
               \A f \in Events : pc'[f] = "insert" => pc[f] = "insert"
        PROVE  ChainLinked' /\ TailSeen'
    BY <2>1 DEF ChainLinked, TailSeen, TailHash
  <2>2. ASSUME NEW e \in Events, ReadTail(e) PROVE ChainLinked' /\ TailSeen'
    <3>1. Len(chain) \in Nat /\ chain' = chain
      BY <2>2 DEF TypeOK, ReadTail
    <3>2. ASSUME NEW f \in Events, pc'[f] = "insert"
          PROVE  (seen[f].seq <= Len(chain) /\ seen[f].hash = TailHash(seen[f].seq))'
      <4>1. CASE f = e
        BY <2>2, <3>1, <4>1 DEF ReadTail, TypeOK, TailHash
      <4>2. CASE f # e
        BY <2>2, <3>1, <3>2, <4>2 DEF ReadTail, Goto, TypeOK, TailSeen, TailHash
      <4> QED BY <4>1, <4>2
    <3> QED BY <3>1, <3>2 DEF ChainLinked, TailSeen, TailHash
  <2>3. ASSUME NEW e \in Events, InsertCommits(e) \/ InsertAnswerLost(e)
        PROVE  ChainLinked' /\ TailSeen'
    <3>1. \A f \in Events : pc'[f] = "insert" => pc[f] = "insert"
      BY <2>3 DEF InsertCommits, InsertAnswerLost, NextAttempt, Goto, TypeOK
    <3>2. /\ pc[e] = "insert" /\ Serializable(e)
          /\ chain' = Append(chain, RowOf(e)) /\ UNCHANGED seen
      BY <2>3 DEF InsertCommits, InsertAnswerLost
    <3> QED BY <3>1, <3>2, AppendLinks
  <2>4. ASSUME NEW e \in Events, InsertConflicts(e) \/ AppendFails(e)
        PROVE  ChainLinked' /\ TailSeen'
    BY <2>1, <2>4 DEF InsertConflicts, AppendFails, NextAttempt, Goto, TypeOK
  <2>5. ASSUME NEW e \in Events,
               ReadHead(e) \/ Advance(e) \/ CasFails(e) \/ FindNoHead(e) \/ Upsert(e)
        PROVE  ChainLinked' /\ TailSeen'
    BY <2>1, <2>5 DEF ReadHead, Advance, CasFails, FindNoHead, Upsert, Goto, TypeOK
  <2>6. ASSUME NEW e \in Events,
               AdvanceFails(e) \/ AdvanceAnswerLost(e) \/ Perform(e) \/ Crash(e)
        PROVE  ChainLinked' /\ TailSeen'
    BY <2>1, <2>6 DEF AdvanceFails, AdvanceAnswerLost, Perform, Crash, Goto, TypeOK
  <2>7. CASE UNCHANGED vars
    BY <2>1, <2>7 DEF vars
  <2> QED BY <2>2, <2>3, <2>4, <2>5, <2>6, <2>7 DEF Next
<1> QED BY <1>1, <1>2, TypeCorrect, PTL DEF Spec

(***************************************************************************)
(* The actors' chains.  An event is written once, over a head that no      *)
(* event names as its prior yet; so no two events share a prior event.     *)
(***************************************************************************)
Open(e) == pc[e] \notin {"done", "failed"}

Familiar(x) == x \in {None, Earlier} \/ Logged(x)

LogInv ==
  /\ \A e \in Events : Open(e) => ~Logged(e)
  /\ \A e \in Events : pc[e] = "upsert" => prior[e] = None
  /\ \A e \in Events : Familiar(prior[e])
  /\ \A a \in Actors : Familiar(head[a])
  /\ \A r \in log : /\ Familiar(r.prior)
                    /\ head[ActorOf[r.id]] # None /\ r.prior # head[ActorOf[r.id]]
  /\ NoFork

(* Steps that write no event: no call that is over starts again. *)
LEMMA LogUntouched ==
  ASSUME TypeOK, LogInv, UNCHANGED <<log, head>>,
         \A e \in Events : Open(e)' => Open(e),
         \A e \in Events : pc'[e] = "upsert" => prior'[e] = None,
         \A e \in Events : prior'[e] = prior[e] \/ prior'[e] = head[ActorOf[e]]
  PROVE  LogInv'
<1>1. \A x : Logged(x)' = Logged(x) /\ Familiar(x)' = Familiar(x)
  BY DEF Logged, Familiar
<1>2. \A e \in Events : Familiar(prior'[e])
  BY DEF LogInv, TypeOK
<1>3. \A e \in Events : Familiar(prior[e])'
  BY <1>1, <1>2 DEF Familiar, Logged
<1>4. \A e \in Events : (Open(e) => ~Logged(e))'
  BY <1>1 DEF LogInv
<1>5. /\ \A a \in Actors : Familiar(head[a])'
      /\ \A r \in log : /\ Familiar(r.prior)'
                        /\ head[ActorOf[r.id]] # None /\ r.prior # head[ActorOf[r.id]]
  BY DEF LogInv, Familiar, Logged
<1>6. NoFork'
  BY DEF LogInv, NoFork
<1> QED BY <1>3, <1>4, <1>5, <1>6 DEF LogInv

(* The step that writes an event, over its prior event or over no head. *)
LEMMA WriteKeeps ==
  ASSUME TypeOK, LogInv, NEW e \in Events, Open(e), WriteEvent(e), UNCHANGED prior,
         prior[e] = head[ActorOf[e]] \/ prior[e] = None,
         NEW step \in {"done", "failed"}, Goto(e, step)
  PROVE  LogInv'
<1> DEFINE new == [id |-> e, prior |-> prior[e]]
<1>1. /\ log' = log \union {new} /\ new.id = e /\ new.prior = prior[e]
      /\ head' = [head EXCEPT ![ActorOf[e]] = e]
  BY DEF WriteEvent
<1>2. ~Logged(e) /\ Familiar(prior[e]) /\ prior[e] # e /\ e # None /\ e # Earlier
  BY DEF LogInv, Familiar
<1> HIDE DEF new
<1>3. \A x : Logged(x)' <=> (Logged(x) \/ x = e)
  BY <1>1 DEF Logged
<1>4. \A f \in Events : /\ pc'[f] = IF f = e THEN step ELSE pc[f]
  BY DEF Goto, TypeOK
<1>5. \A a \in Actors : head'[a] = IF a = ActorOf[e] THEN e ELSE head[a]
  BY <1>1 DEF TypeOK
<1>6. \A f \in Events : (Open(f) => ~Logged(f))'
  BY <1>3, <1>4 DEF LogInv, Open
<1>7. \A f \in Events : (pc[f] = "upsert" => prior[f] = None)'
  BY <1>4 DEF LogInv
<1>8. /\ \A f \in Events : Familiar(prior[f])'
      /\ \A a \in Actors : Familiar(head[a])'
  BY <1>3, <1>5 DEF LogInv, Familiar
<1>9. \A r \in log' : /\ Familiar(r.prior)'
                      /\ head'[ActorOf[r.id]] # None /\ r.prior # head'[ActorOf[r.id]]
  <2>1. ASSUME NEW r \in log
        PROVE  /\ Familiar(r.prior)'
               /\ head'[ActorOf[r.id]] # None /\ r.prior # head'[ActorOf[r.id]]
    <3>1. /\ r.id \in Events /\ ActorOf[r.id] \in Actors /\ Familiar(r.prior)
          /\ head[ActorOf[r.id]] # None /\ r.prior # head[ActorOf[r.id]]
      BY DEF TypeOK, LogInv
    <3>2. r.prior # e
      BY <1>2, <3>1 DEF Familiar
    <3> QED BY <1>2, <1>3, <1>5, <3>1, <3>2 DEF Familiar
  <2>2. ASSUME NEW r \in {new}
        PROVE  /\ Familiar(r.prior)'
               /\ head'[ActorOf[r.id]] # None /\ r.prior # head'[ActorOf[r.id]]
    <3>1. r.id = e /\ r.prior = prior[e] /\ head'[ActorOf[e]] = e
      BY <1>1, <1>5
    <3>2. r.prior \in {None, Earlier} \/ Logged(r.prior)'
      BY <1>2, <1>3, <3>1 DEF Familiar
    <3> QED BY <1>2, <3>1, <3>2 DEF Familiar
  <2> QED BY <1>1, <2>1, <2>2
<1>10. NoFork'
  <2>1. \A r \in log : ActorOf[r.id] = ActorOf[e] /\ r.prior = prior[e] => prior[e] = None
    BY DEF LogInv
  <2>2. \A r, s \in log : ActorOf[r.id] = ActorOf[s.id] /\ r.prior = s.prior /\ r.prior # None => r = s
    BY DEF LogInv, NoFork
  <2> QED BY <1>1, <2>1, <2>2 DEF NoFork
<1> QED BY <1>6, <1>7, <1>8, <1>9, <1>10 DEF LogInv

LEMMA LogKept == Spec => []LogInv
<1>1. Init => LogInv
  BY DEF Init, LogInv, Logged, Familiar, NoFork, Open
<1>2. TypeOK /\ LogInv /\ [Next]_vars => LogInv'
  <2> SUFFICES ASSUME TypeOK, LogInv, [Next]_vars PROVE LogInv'
    OBVIOUS
  <2>1. ASSUME NEW e \in Events, ReadHead(e) PROVE LogInv'
    <3>1. /\ UNCHANGED <<log, head>>
          /\ \A f \in Events : Open(f)' => Open(f)
          /\ \A f \in Events : pc'[f] = "upsert" => prior'[f] = None
          /\ \A f \in Events : prior'[f] = prior[f] \/ prior'[f] = head[ActorOf[f]]
      BY <2>1 DEF ReadHead, Goto, TypeOK, Open, LogInv
    <3> QED BY <3>1, LogUntouched
  <2>2. ASSUME NEW e \in Events, ReadTail(e) \/ InsertCommits(e) \/ CasFails(e) \/ FindNoHead(e)
        PROVE  LogInv'
    <3>1. /\ UNCHANGED <<log, head, prior>>
          /\ \A f \in Events : Open(f)' => Open(f)
          /\ \A f \in Events : pc'[f] = "upsert" => prior'[f] = None
      BY <2>2 DEF ReadTail, InsertCommits, CasFails, FindNoHead, Goto, TypeOK, Open, LogInv
    <3> QED BY <3>1, LogUntouched
  <2>3. ASSUME NEW e \in Events,
               InsertConflicts(e) \/ AppendFails(e) \/ InsertAnswerLost(e)
        PROVE  LogInv'
    <3>1. /\ UNCHANGED <<log, head, prior>>
          /\ \A f \in Events : Open(f)' => Open(f)
          /\ \A f \in Events : pc'[f] = "upsert" => prior'[f] = None
      BY <2>3 DEF InsertConflicts, AppendFails, InsertAnswerLost, NextAttempt, Goto,
                  TypeOK, Open, LogInv
    <3> QED BY <3>1, LogUntouched
  <2>4. ASSUME NEW e \in Events, AdvanceFails(e) \/ Crash(e) \/ Perform(e) PROVE LogInv'
    <3>1. /\ UNCHANGED <<log, head, prior>>
          /\ \A f \in Events : Open(f)' => Open(f)
          /\ \A f \in Events : pc'[f] = "upsert" => prior'[f] = None
      BY <2>4 DEF AdvanceFails, Crash, Perform, Ended, Goto, TypeOK, Open, LogInv
    <3> QED BY <3>1, LogUntouched
  <2>5. ASSUME NEW e \in Events, Advance(e) PROVE LogInv'
    BY <2>5, WriteKeeps DEF Advance, Open
  <2>6. ASSUME NEW e \in Events, Upsert(e) PROVE LogInv'
    <3>1. prior[e] = None
      BY <2>6 DEF Upsert, LogInv
    <3> QED BY <2>6, <3>1, WriteKeeps DEF Upsert, Open
  <2>7. ASSUME NEW e \in Events, AdvanceAnswerLost(e) PROVE LogInv'
    <3>1. /\ Open(e) /\ WriteEvent(e) /\ Goto(e, "failed") /\ UNCHANGED prior
          /\ prior[e] = head[ActorOf[e]] \/ prior[e] = None
      BY <2>7 DEF AdvanceAnswerLost, LogInv, Open
    <3> QED BY <3>1, WriteKeeps
  <2>8. CASE UNCHANGED vars
    BY <2>8, LogUntouched DEF vars, Open, LogInv
  <2> QED BY <2>1, <2>2, <2>3, <2>4, <2>5, <2>6, <2>7, <2>8 DEF Next
<1> QED BY <1>1, <1>2, TypeCorrect, PTL DEF Spec

(* insertAndAdvanceChain: the compare-and-set on the head lets no two      *)
(* events of an actor follow the same event.                               *)
THEOREM ForkFree == Spec => []NoFork
  BY LogKept, PTL DEF LogInv

(***************************************************************************)
(* Halt on failure.  emitAudit resolves only after both rows are there.    *)
(***************************************************************************)
DarkInv ==
  /\ \A e \in Events : pc[e] \in {"advance", "upsert"} => RowsOf(e) # {}
  /\ \A e \in Events \ Direct : pc[e] = "done" => RowsOf(e) # {} /\ Logged(e)
  /\ NoDarkPeriod

(* Rows and events, once there, stay. *)
LEMMA NothingVanishes ==
  ASSUME TypeOK, [Next]_vars
  PROVE  \A e \in Events : /\ RowsOf(e) # {} => RowsOf(e)' # {}
                           /\ Logged(e) => Logged(e)'
<1>1. log \subseteq log'
  BY DEF Next, vars, ReadHead, ReadTail, InsertCommits, InsertConflicts, AppendFails,
         InsertAnswerLost, Advance, CasFails, FindNoHead, Upsert, AdvanceFails,
         AdvanceAnswerLost, Perform, Crash, WriteEvent
<1>2. chain' = chain \/ \E e \in Events : chain' = Append(chain, RowOf(e))
  BY DEF Next, vars, ReadHead, ReadTail, InsertCommits, InsertConflicts, AppendFails,
         InsertAnswerLost, Advance, CasFails, FindNoHead, Upsert, AdvanceFails,
         AdvanceAnswerLost, Perform, Crash
<1>3. Len(chain) \in Nat
  BY DEF TypeOK
<1>4. \A i \in 1..Len(chain) : i \in 1..Len(chain') /\ chain'[i] = chain[i]
  <2>1. CASE chain' = chain
    BY <2>1
  <2>2. ASSUME NEW e \in Events, chain' = Append(chain, RowOf(e))
        PROVE  \A i \in 1..Len(chain) : i \in 1..Len(chain') /\ chain'[i] = chain[i]
    BY <1>3, <2>2, GrowKeeps
  <2> QED BY <1>2, <2>1, <2>2
<1> QED BY <1>1, <1>4 DEF RowsOf, Logged

LEMMA DarkKept == Spec => []DarkInv
<1>1. Init => DarkInv
  BY DEF Init, DarkInv, NoDarkPeriod
<1>2. TypeOK /\ DarkInv /\ [Next]_vars => DarkInv'
  <2> SUFFICES ASSUME TypeOK, DarkInv, [Next]_vars PROVE DarkInv'
    OBVIOUS
  <2>1. ASSUME \A f \in Events : /\ pc'[f] \in {"advance", "upsert"} => pc[f] \in {"advance", "upsert"}
                                 /\ pc'[f] = "done" => pc[f] = "done" \/ f \in Direct,
               performed' \subseteq Events,
               \A f \in performed' : f \in performed \/ (pc[f] = "done" /\ f \notin Direct)
        PROVE  DarkInv'
    <3>1. \A f \in Events : pc'[f] \in {"advance", "upsert"} => RowsOf(f)' # {}
      BY <2>1, NothingVanishes DEF DarkInv
    <3>2. \A f \in Events \ Direct : pc'[f] = "done" => RowsOf(f)' # {} /\ Logged(f)'
      BY <2>1, NothingVanishes DEF DarkInv
    <3>3. \A f \in performed' : RowsOf(f)' # {} /\ Logged(f)'
      BY <2>1, NothingVanishes DEF DarkInv, NoDarkPeriod, TypeOK
    <3> QED BY <3>1, <3>2, <3>3 DEF DarkInv, NoDarkPeriod
  <2>2. ASSUME NEW e \in Events, InsertCommits(e) PROVE DarkInv'
    <3>1. RowsOf(e)' # {}
      <4>0. chain \in Seq(Rows) /\ chain' = Append(chain, RowOf(e)) /\ RowOf(e) \in Rows
        BY <2>2, RowOfType DEF InsertCommits, TypeOK
      <4>2. /\ Len(chain) \in Nat /\ Len(chain') = Len(chain) + 1
            /\ chain'[Len(chain) + 1] = RowOf(e)
        BY <4>0
      <4>1. Len(chain) + 1 \in 1..Len(chain') /\ chain'[Len(chain) + 1].event = e
        BY <4>2 DEF RowOf
      <4> QED BY <4>1 DEF RowsOf
    <3>2. /\ performed' = performed
          /\ \A f \in Events : f # e => pc'[f] = pc[f]
          /\ pc'[e] = IF e \in Direct THEN "done" ELSE "advance"
      BY <2>2 DEF InsertCommits, Goto, TypeOK
    <3>3. \A f \in Events : pc'[f] \in {"advance", "upsert"} => RowsOf(f)' # {}
      BY <3>1, <3>2, NothingVanishes DEF DarkInv
    <3>4. \A f \in Events \ Direct : pc'[f] = "done" => RowsOf(f)' # {} /\ Logged(f)'
      BY <3>2, NothingVanishes DEF DarkInv
    <3>5. \A f \in performed' : RowsOf(f)' # {} /\ Logged(f)'
      BY <3>2, NothingVanishes DEF DarkInv, NoDarkPeriod, TypeOK
    <3> QED BY <3>3, <3>4, <3>5 DEF DarkInv, NoDarkPeriod
  <2>3. ASSUME NEW e \in Events, Advance(e) \/ Upsert(e) PROVE DarkInv'
    <3>1. /\ performed' = performed /\ pc[e] \in {"advance", "upsert"} /\ pc'[e] = "done"
          /\ \A f \in Events : f # e => pc'[f] = pc[f]
      BY <2>3 DEF Advance, Upsert, Goto, TypeOK
    <3>2. Logged(e)'
      <4>1. [id |-> e, prior |-> prior[e]] \in log'
        BY <2>3 DEF Advance, Upsert, WriteEvent
      <4>2. [id |-> e, prior |-> prior[e]].id = e
        OBVIOUS
      <4> QED BY <4>1, <4>2 DEF Logged
    <3>3. \A f \in Events : pc'[f] \in {"advance", "upsert"} => RowsOf(f)' # {}
      BY <3>1, NothingVanishes DEF DarkInv
    <3>4. \A f \in Events \ Direct : pc'[f] = "done" => RowsOf(f)' # {} /\ Logged(f)'
      BY <3>1, <3>2, NothingVanishes DEF DarkInv
    <3>5. \A f \in performed' : RowsOf(f)' # {} /\ Logged(f)'
      BY <3>1, NothingVanishes DEF DarkInv, NoDarkPeriod, TypeOK
    <3> QED BY <3>3, <3>4, <3>5 DEF DarkInv, NoDarkPeriod
  <2>4. ASSUME NEW e \in Events, ReadHead(e) \/ ReadTail(e) \/ CasFails(e) \/ FindNoHead(e)
        PROVE  DarkInv'
    BY <2>1, <2>4 DEF ReadHead, ReadTail, CasFails, FindNoHead, Goto, TypeOK
  <2>5. ASSUME NEW e \in Events,
               InsertConflicts(e) \/ AppendFails(e) \/ InsertAnswerLost(e)
        PROVE  DarkInv'
    BY <2>1, <2>5 DEF InsertConflicts, AppendFails, InsertAnswerLost, NextAttempt, Goto, TypeOK
  <2>6. ASSUME NEW e \in Events, AdvanceFails(e) \/ AdvanceAnswerLost(e) \/ Crash(e)
        PROVE  DarkInv'
    BY <2>1, <2>6 DEF AdvanceFails, AdvanceAnswerLost, Crash, Goto, TypeOK
  <2>7. ASSUME NEW e \in Events, Perform(e) PROVE DarkInv'
    BY <2>1, <2>7 DEF Perform, TypeOK
  <2>8. CASE UNCHANGED vars
    BY <2>1, <2>8 DEF vars, TypeOK
  <2> QED BY <2>2, <2>3, <2>4, <2>5, <2>6, <2>7, <2>8 DEF Next
<1> QED BY <1>1, <1>2, TypeCorrect, PTL DEF Spec

(* withHaltOnFailure over emitAudit: whatever fails or crashes, an         *)
(* operation performed has its event in the global chain and in its        *)
(* actor's chain.                                                          *)
THEOREM NoDarkPeriods == Spec => []NoDarkPeriod
  BY DarkKept, PTL DEF DarkInv

(***************************************************************************)
(* Rows and commits.  A row of an event is a commit of its append; of all  *)
(* but the last the call never heard.                                      *)
(***************************************************************************)
Count(e) == Cardinality(RowsOf(e))

RowsInv ==
  \A e \in Events :
    /\ IsFiniteSet(RowsOf(e)) /\ Count(e) \in {lost[e], lost[e] + 1}
    /\ pc[e] \in {"start", "append", "insert"} => Count(e) = lost[e]
    /\ pc[e] \in {"advance", "upsert"} \/ Logged(e) => Count(e) = lost[e] + 1

(* An append adds a row to its event and to no other.                      *)
LEMMA RowAdded ==
  ASSUME TypeOK, NEW e \in Events, chain' = Append(chain, RowOf(e)),
         NEW f \in Events, IsFiniteSet(RowsOf(f))
  PROVE  /\ IsFiniteSet(RowsOf(f)')
         /\ Count(f)' = IF f = e THEN Count(f) + 1 ELSE Count(f)
<1>1. /\ Len(chain) \in Nat /\ Len(chain') = Len(chain) + 1
      /\ chain'[Len(chain) + 1].event = e
      /\ \A i \in 1..Len(chain) : chain'[i] = chain[i]
  <2>1. Len(chain) \in Nat
    BY DEF TypeOK
  <2>2. RowOf(e).event = e
    BY RowOfType
  <2> QED BY <2>1, <2>2, GrowKeeps
<1>2. PICK n \in Nat : n = Len(chain) + 1
  BY <1>1
<1>3. \A i : i \in 1..Len(chain') <=> i \in 1..Len(chain) \/ i = n
  BY <1>1, <1>2
<1>4. n \notin 1..Len(chain)
  BY <1>1, <1>2
<1>5. CASE f = e
  <2>1. RowsOf(f)' = RowsOf(f) \union {n} /\ n \notin RowsOf(f)
    BY <1>1, <1>2, <1>3, <1>4, <1>5 DEF RowsOf
  <2> QED BY <1>5, <2>1, FS_AddElement DEF Count
<1>6. CASE f # e
  <2>1. RowsOf(f)' = RowsOf(f)
    BY <1>1, <1>2, <1>3, <1>4, <1>6 DEF RowsOf
  <2> QED BY <1>6, <2>1 DEF Count
<1> QED BY <1>5, <1>6

(* A step that adds no row, and moves the calls no further back than to    *)
(* another attempt.                                                        *)
LEMMA RowsUntouched ==
  ASSUME TypeOK, RowsInv, UNCHANGED <<chain, lost>>,
         \A f \in Events :
           /\ pc'[f] \in {"start", "append", "insert"} => pc[f] \in {"start", "append", "insert"}
           /\ pc'[f] \in {"advance", "upsert"} \/ Logged(f)'
                => pc[f] \in {"advance", "upsert"} \/ Logged(f)
  PROVE  RowsInv'
<1>1. \A f \in Events : RowsOf(f)' = RowsOf(f) /\ Count(f)' = Count(f)
  BY DEF RowsOf, Count
<1> QED BY <1>1 DEF RowsInv

(* The steps of a call that commit its row.                                *)
LEMMA CommitRows ==
  ASSUME TypeOK, LogInv, RowsInv, NEW e \in Events, InsertCommits(e) \/ InsertAnswerLost(e)
  PROVE  RowsInv'
<1>1. pc[e] = "insert" /\ chain' = Append(chain, RowOf(e)) /\ log' = log
  BY DEF InsertCommits, InsertAnswerLost
<1>2. /\ \A f \in Events \ {e} : pc'[f] = pc[f] /\ lost'[f] = lost[f]
      /\ lost[e] \in Nat
      /\ \/ pc'[e] \in {"done", "advance"} /\ lost'[e] = lost[e]
         \/ pc'[e] \in {"append", "failed"} /\ lost'[e] = lost[e] + 1
  <2>1. CASE InsertCommits(e)
    BY <2>1 DEF InsertCommits, Goto, TypeOK
  <2>2. CASE InsertAnswerLost(e)
    BY <2>2 DEF InsertAnswerLost, NextAttempt, Goto, TypeOK
  <2> QED BY <2>1, <2>2
<1>3. \A f \in Events : Logged(f)' = Logged(f)
  BY <1>1 DEF Logged
<1>4. ~Logged(e) /\ Count(e) = lost[e]
  BY <1>1 DEF LogInv, Open, RowsInv
<1>5. ASSUME NEW f \in Events
      PROVE  /\ IsFiniteSet(RowsOf(f)') /\ Count(f)' \in {lost'[f], lost'[f] + 1}
             /\ pc'[f] \in {"start", "append", "insert"} => Count(f)' = lost'[f]
             /\ pc'[f] \in {"advance", "upsert"} \/ Logged(f)' => Count(f)' = lost'[f] + 1
  <2>1. /\ IsFiniteSet(RowsOf(f)') /\ Count(f)' = IF f = e THEN Count(f) + 1 ELSE Count(f)
    BY <1>1, RowAdded DEF RowsInv
  <2>2. CASE f = e
    BY <1>2, <1>3, <1>4, <2>1, <2>2
  <2>3. CASE f # e
    BY <1>2, <1>3, <2>1, <2>3 DEF RowsInv
  <2> QED BY <2>2, <2>3
<1> QED BY <1>5 DEF RowsInv

(* The steps of a call that write its event: it has its row.               *)
LEMMA WriteRows ==
  ASSUME TypeOK, RowsInv, NEW e \in Events, Advance(e) \/ Upsert(e) \/ AdvanceAnswerLost(e)
  PROVE  RowsInv'
<1>1. /\ pc[e] \in {"advance", "upsert"} /\ UNCHANGED <<chain, lost>>
      /\ log' = log \union {[id |-> e, prior |-> prior[e]]}
      /\ \A f \in Events : pc'[f] = IF f = e THEN pc'[e] ELSE pc[f]
      /\ pc'[e] \in {"done", "failed"}
  BY DEF Advance, Upsert, AdvanceAnswerLost, WriteEvent, Goto, TypeOK
<1>2. \A f \in Events : Logged(f)' => Logged(f) \/ f = e
  BY <1>1 DEF Logged
<1> QED BY <1>1, <1>2, RowsUntouched

(* HashChain.append, retried: an event has a row for every commit whose    *)
(* answer was lost, and one more at most; one that reached its actor's     *)
(* chain has exactly one more.                                             *)
THEOREM RowsCounted == Spec => []RowPerCommit
<1>1. Init => RowsInv
  <2> SUFFICES ASSUME Init, NEW e \in Events
               PROVE  /\ RowsOf(e) = {} /\ lost[e] = 0 /\ ~Logged(e)
                      /\ pc[e] \notin {"advance", "upsert"}
    BY FS_EmptySet DEF RowsInv, Count
  <2> QED BY DEF Init, RowsOf, Logged
<1>2. TypeOK /\ LogInv /\ RowsInv /\ [Next]_vars => RowsInv'
  <2> SUFFICES ASSUME TypeOK, LogInv, RowsInv, [Next]_vars PROVE RowsInv'
    OBVIOUS
  <2>1. ASSUME NEW e \in Events,
               ReadHead(e) \/ ReadTail(e) \/ CasFails(e) \/ FindNoHead(e)
        PROVE  RowsInv'
    BY <2>1, RowsUntouched DEF ReadHead, ReadTail, CasFails, FindNoHead, Goto, TypeOK, Logged
  <2>2. ASSUME NEW e \in Events, InsertConflicts(e) \/ AppendFails(e) PROVE RowsInv'
    BY <2>2, RowsUntouched DEF InsertConflicts, AppendFails, NextAttempt, Goto, TypeOK, Logged
  <2>3. ASSUME NEW e \in Events, AdvanceFails(e) \/ Perform(e) \/ Crash(e) PROVE RowsInv'
    BY <2>3, RowsUntouched DEF AdvanceFails, Perform, Crash, Goto, TypeOK, Logged
  <2>4. CASE UNCHANGED vars
    BY <2>4, RowsUntouched DEF vars, Logged
  <2> QED BY <2>1, <2>2, <2>3, <2>4, CommitRows, WriteRows DEF Next
<1>3. TypeOK /\ RowsInv => RowPerCommit
  <2> SUFFICES ASSUME TypeOK, RowsInv, NEW e \in Events
               PROVE  /\ Count(e) \in lost[e]..(lost[e] + 1)
                      /\ pc[e] \in {"start", "append", "insert"} => Count(e) = lost[e]
                      /\ Logged(e) => Count(e) = lost[e] + 1
    BY DEF RowPerCommit, Count
  <2>1. lost[e] \in Nat
    BY DEF TypeOK
  <2> QED BY <2>1 DEF RowsInv
<1> QED BY <1>1, <1>2, <1>3, TypeCorrect, LogKept, PTL DEF Spec

(***************************************************************************)
(* The actors' histories.  Walking back from an actor's head is a          *)
(* recursion over the rows of the log; that one function solves it, and    *)
(* what it returns, is kept from one write to the next: a new event is     *)
(* named by no row, so only its own walk is added.                         *)
(***************************************************************************)
Nodes == LoggedIds \union {Earlier, None}

Walks(f) == f = [x \in Nodes |-> IF x \in LoggedIds THEN Append(f[PriorOf(x)], x) ELSE << >>]

Walk == CHOOSE f : Walks(f)

LEMMA RecordedWalks ==
  ASSUME NEW a
  PROVE  Recorded(a) = Walk[head[a]]
  BY DEF Recorded, Walk, Walks, Nodes

(* No two rows record one event, one function and no other walks the log,  *)
(* and it meets every event of an actor from the actor's head.             *)
WalkInv ==
  /\ \A r, s \in log : r.id = s.id => r = s
  /\ Walks(Walk)
  /\ \A f : Walks(f) => f = Walk
  /\ \A x \in Nodes : Walk[x] \in Seq(LoggedIds)
  /\ \A x \in LoggedIds : \E i \in 1..Len(Walk[head[ActorOf[x]]]) : Walk[head[ActorOf[x]]][i] = x

LEMMA WalksAt ==
  ASSUME NEW f
  PROVE  /\ Walks(f) => \A x \in Nodes : f[x] = IF x \in LoggedIds THEN Append(f[PriorOf(x)], x) ELSE << >>
         /\ Walks(f) => f = [x \in Nodes |-> f[x]]
         /\ /\ f = [x \in Nodes |-> f[x]]
            /\ \A x \in Nodes : f[x] = IF x \in LoggedIds THEN Append(f[PriorOf(x)], x) ELSE << >>
            => Walks(f)
  BY DEF Walks

LEMMA PriorIs ==
  ASSUME WalkInv, NEW r \in log
  PROVE  PriorOf(r.id) = r.prior
<1>1. (CHOOSE s \in log : s.id = r.id) \in log /\ (CHOOSE s \in log : s.id = r.id).id = r.id
  OBVIOUS
<1> QED BY <1>1 DEF PriorOf, WalkInv

(* Every event's prior event is in the log, or before it.                  *)
LEMMA PriorNode ==
  ASSUME LogInv, WalkInv, NEW x \in LoggedIds
  PROVE  PriorOf(x) \in Nodes
<1>1. PICK r \in log : r.id = x
  BY DEF LoggedIds
<1>2. PriorOf(x) = r.prior /\ Familiar(r.prior)
  BY <1>1, PriorIs DEF LogInv
<1> QED BY <1>2 DEF Familiar, Logged, Nodes, LoggedIds

LEMMA HeadNode ==
  ASSUME LogInv, NEW a \in Actors
  PROVE  head[a] \in Nodes
  BY DEF LogInv, Familiar, Logged, Nodes, LoggedIds

(* Writing an event over the head it names appends it to its actor's       *)
(* history and leaves every other walk as it was.                          *)
LEMMA WriteGrows ==
  ASSUME TypeOK, LogInv, WalkInv, NEW e \in Events, ~Logged(e), WriteEvent(e),
         prior[e] = head[ActorOf[e]]
  PROVE  /\ WalkInv'
         /\ \A a \in Actors : Recorded(a)' = IF a = ActorOf[e] THEN Append(Recorded(a), e) ELSE Recorded(a)
<1> DEFINE new == [id |-> e, prior |-> prior[e]]
<1>1. /\ log' = log \union {new} /\ new.id = e /\ new.prior = prior[e]
      /\ head' = [head EXCEPT ![ActorOf[e]] = e] /\ \A r \in log : r.id # e
  BY DEF WriteEvent, Logged
<1> HIDE DEF new
<1>2. PICK p : p = prior[e]
  OBVIOUS
<1>3. p \in Nodes /\ p = head[ActorOf[e]]
  BY <1>2, HeadNode
<1>4. LoggedIds' = LoggedIds \union {e} /\ e \notin LoggedIds
  BY <1>1 DEF LoggedIds
<1>5. e \notin Nodes /\ Nodes' = Nodes \union {e} /\ LoggedIds \subseteq Nodes
  BY <1>4 DEF Nodes
<1>6. \A r, s \in log' : r.id = s.id => r = s
  BY <1>1 DEF WalkInv
<1>7. \A x \in LoggedIds : PriorOf(x)' = PriorOf(x) /\ PriorOf(x) \in Nodes
  <2> SUFFICES ASSUME NEW x \in LoggedIds PROVE PriorOf(x)' = PriorOf(x)
    BY PriorNode
  <2>1. PICK r \in log : r.id = x
    BY DEF LoggedIds
  <2>2. \A s \in log' : s.id = x => s = r
    BY <1>1, <1>6, <2>1
  <2>3. (CHOOSE s \in log' : s.id = x) = r
    BY <1>1, <2>1, <2>2
  <2>4. (CHOOSE s \in log : s.id = x) = r
    BY <1>1, <2>1, <2>2
  <2> QED BY <2>3, <2>4 DEF PriorOf
<1>8. PriorOf(e)' = p
  <2>1. \A s \in log' : s.id = e => s = new
    BY <1>1
  <2>2. (CHOOSE s \in log' : s.id = e) = new
    BY <1>1, <2>1
  <2> QED BY <1>1, <1>2, <2>2 DEF PriorOf
<1>9. PICK h : h = [x \in Nodes' |-> IF x = e THEN Append(Walk[p], e) ELSE Walk[x]]
  OBVIOUS
<1>10. /\ h = [x \in Nodes' |-> h[x]] /\ h[e] = Append(Walk[p], e)
       /\ \A x \in Nodes : h[x] = Walk[x]
  BY <1>5, <1>9
<1>11. \A x \in Nodes : Walk[x] = IF x \in LoggedIds THEN Append(Walk[PriorOf(x)], x) ELSE << >>
  BY WalksAt DEF WalkInv
<1>12. \A x \in Nodes' : h[x] = IF x \in LoggedIds' THEN Append(h[PriorOf(x)'], x) ELSE << >>
  BY <1>3, <1>4, <1>5, <1>7, <1>8, <1>10, <1>11
<1>13. Walks(h)'
  BY <1>10, <1>12 DEF Walks
<1>14. ASSUME NEW g, Walks(g)' PROVE g = h
  <2>1. g = [x \in Nodes' |-> g[x]]
    BY <1>14 DEF Walks
  <2>2. \A x \in Nodes' : g[x] = IF x \in LoggedIds' THEN Append(g[PriorOf(x)'], x) ELSE << >>
    BY <1>14 DEF Walks
  <2>3. PICK k : k = [x \in Nodes |-> g[x]]
    OBVIOUS
  <2>4. k = [x \in Nodes |-> k[x]] /\ \A x \in Nodes : k[x] = g[x]
    BY <2>3
  <2>5. \A x \in Nodes : k[x] = IF x \in LoggedIds THEN Append(k[PriorOf(x)], x) ELSE << >>
    BY <1>4, <1>5, <1>7, <2>2, <2>4
  <2>6. k = Walk
    BY <2>4, <2>5, WalksAt DEF WalkInv
  <2>7. \A x \in Nodes' : g[x] = h[x]
    <3>1. \A x \in Nodes : g[x] = h[x]
      BY <1>10, <2>4, <2>6
    <3>2. g[e] = Append(g[p], e)
      BY <1>4, <1>5, <1>8, <2>2
    <3> QED BY <1>3, <1>5, <1>10, <3>1, <3>2
  <2> QED BY <1>10, <2>1, <2>7
<1>15. Walk' = h
  BY <1>13, <1>14 DEF Walk
<1>16. \A a \in Actors : head'[a] = IF a = ActorOf[e] THEN e ELSE head[a]
  BY <1>1 DEF TypeOK
<1>17. \A x \in Nodes : Walk[x] \in Seq(LoggedIds) /\ Walk[x] \in Seq(LoggedIds')
  BY <1>4 DEF WalkInv
<1>18. \A x \in Nodes' : h[x] \in Seq(LoggedIds')
  BY <1>3, <1>4, <1>5, <1>10, <1>17
<1>19. \A a \in Actors : head[a] \in Nodes
  BY HeadNode
<1>20. ASSUME NEW x \in LoggedIds'
       PROVE  \E i \in 1..Len(h[head'[ActorOf[x]]]) : h[head'[ActorOf[x]]][i] = x
  <2>0. x \in Events /\ ActorOf[x] \in Actors
    <3>1. LoggedIds \subseteq Events
      BY DEF LoggedIds, TypeOK
    <3> QED BY <1>4, <3>1
  <2>1. Walk[p] \in Seq(LoggedIds)
    BY <1>3, <1>17
  <2>2. /\ Len(Append(Walk[p], e)) = Len(Walk[p]) + 1 /\ Len(Walk[p]) \in Nat
        /\ Append(Walk[p], e)[Len(Walk[p]) + 1] = e
        /\ \A i \in 1..Len(Walk[p]) : Append(Walk[p], e)[i] = Walk[p][i]
    BY <2>1, <1>4
  <2>3. CASE x = e
    <3>1. h[head'[ActorOf[x]]] = Append(Walk[p], e)
      BY <1>10, <1>16, <2>0, <2>3
    <3>2. Len(Walk[p]) + 1 \in 1..Len(h[head'[ActorOf[x]]])
      BY <2>2, <3>1
    <3> QED BY <2>2, <2>3, <3>1, <3>2
  <2>4. CASE x # e /\ ActorOf[x] = ActorOf[e]
    <3>1. h[head'[ActorOf[x]]] = Append(Walk[p], e)
      BY <1>10, <1>16, <2>0, <2>4
    <3>2. PICK i \in 1..Len(Walk[p]) : Walk[p][i] = x
      BY <1>3, <1>4, <2>4 DEF WalkInv
    <3>3. i \in 1..Len(h[head'[ActorOf[x]]])
      BY <2>2, <3>1
    <3> QED BY <2>2, <3>1, <3>2, <3>3
  <2>5. CASE ActorOf[x] # ActorOf[e]
    <3>1. h[head'[ActorOf[x]]] = Walk[head[ActorOf[x]]]
      BY <1>10, <1>16, <1>19, <2>0, <2>5
    <3>2. x \in LoggedIds
      BY <1>4, <2>5
    <3> QED BY <3>1, <3>2 DEF WalkInv
  <2> QED BY <2>3, <2>4, <2>5
<1>21. WalkInv'
  BY <1>6, <1>13, <1>14, <1>15, <1>18, <1>20 DEF WalkInv
<1>22. ASSUME NEW a \in Actors
       PROVE  Recorded(a)' = IF a = ActorOf[e] THEN Append(Recorded(a), e) ELSE Recorded(a)
  <2>1. Recorded(a) = Walk[head[a]] /\ Recorded(a)' = Walk'[head'[a]]
    BY DEF Recorded, Walk, Walks, Nodes
  <2> QED BY <1>3, <1>10, <1>15, <1>16, <1>19, <2>1
<1> QED BY <1>21, <1>22

(* An actor's head: only an actor new to the log has none, and that until  *)
(* its first event is written.                                             *)
HeadInv ==
  /\ \A a \in Known : head[a] # None
  /\ \A a \in Actors \ Known :
       head[a] # None => head[a] \in LoggedIds \ Direct /\ ActorOf[head[a]] = a
  /\ \A e \in Events : pc[e] \in {"start", "advance", "upsert"} => e \notin Direct
  /\ \A e \in Events : pc[e] = "upsert" => ActorOf[e] \notin Known

(* One emission at most begins an actor's chain.  (Where two do, Upsert    *)
(* overwrites the one with the other: the run on FirstEvents shows it.)    *)
OneBeginsChain ==
  \A e, f \in Events \ Direct :
    ActorOf[e] = ActorOf[f] /\ ActorOf[e] \notin Known => e = f

(* Then every event is written over the head it read.                      *)
LEMMA WritesOverHead ==
  ASSUME OneBeginsChain, TypeOK, LogInv, HeadInv, NEW e \in Events,
         Advance(e) \/ Upsert(e) \/ AdvanceAnswerLost(e)
  PROVE  /\ ~Logged(e) /\ WriteEvent(e) /\ prior[e] = head[ActorOf[e]]
         /\ e \notin Direct /\ UNCHANGED performed
         /\ \A f \in Events : f # e => pc'[f] = pc[f]
         /\ pc'[e] \in {"done", "failed"}
<1>1. pc[e] \in {"advance", "upsert"} /\ WriteEvent(e) /\ UNCHANGED performed
  BY DEF Advance, Upsert, AdvanceAnswerLost
<1>2. ~Logged(e) /\ e \notin Direct
  BY <1>1 DEF LogInv, Open, HeadInv
<1>3. /\ \A f \in Events : f # e => pc'[f] = pc[f]
      /\ pc'[e] \in {"done", "failed"}
  BY DEF Advance, Upsert, AdvanceAnswerLost, Goto, TypeOK
<1>4. CASE pc[e] = "advance"
  <2>1. prior[e] = head[ActorOf[e]]
    BY <1>4 DEF Advance, Upsert, AdvanceAnswerLost
  <2> QED BY <1>1, <1>2, <1>3, <2>1
<1>5. CASE pc[e] = "upsert"
  <2>1. PICK a \in Actors : a = ActorOf[e]
    OBVIOUS
  <2>2. prior[e] = None /\ a \in Actors \ Known
    BY <1>5, <2>1 DEF LogInv, HeadInv
  <2>3. ASSUME head[a] # None PROVE FALSE
    <3>1. head[a] \in LoggedIds \ Direct /\ ActorOf[head[a]] = a
      BY <2>2, <2>3 DEF HeadInv
    <3>2. head[a] \in Events
      BY <3>1 DEF LoggedIds, TypeOK
    <3>3. head[a] = e
      BY <1>2, <2>1, <2>2, <3>1, <3>2 DEF OneBeginsChain
    <3> QED BY <1>2, <3>1, <3>3 DEF LoggedIds, Logged
  <2> QED BY <1>1, <1>2, <1>3, <2>1, <2>2, <2>3
<1> QED BY <1>1, <1>4, <1>5

LEMMA WriteHeads ==
  ASSUME TypeOK, LogInv, HeadInv, NEW e \in Events, e \notin Direct, WriteEvent(e),
         \A f \in Events : f # e => pc'[f] = pc[f],
         pc'[e] \in {"done", "failed"}
  PROVE  HeadInv'
<1>1. LoggedIds' = LoggedIds \union {e}
  <2>1. [id |-> e, prior |-> prior[e]].id = e
    OBVIOUS
  <2> QED BY <2>1 DEF WriteEvent, LoggedIds
<1>2. \A a \in Actors : head'[a] = IF a = ActorOf[e] THEN e ELSE head[a]
  BY DEF WriteEvent, TypeOK
<1>3. \A a \in Known : head'[a] # None
  BY <1>2 DEF HeadInv
<1>4. \A a \in Actors \ Known :
        head'[a] # None => head'[a] \in LoggedIds' \ Direct /\ ActorOf[head'[a]] = a
  BY <1>1, <1>2 DEF HeadInv
<1>5. /\ \A f \in Events : pc'[f] \in {"start", "advance", "upsert"} => f \notin Direct
      /\ \A f \in Events : pc'[f] = "upsert" => ActorOf[f] \notin Known
  BY DEF HeadInv
<1> QED BY <1>3, <1>4, <1>5 DEF HeadInv

(* A step that writes no event.                                            *)
LEMMA HistoriesStay ==
  ASSUME LogInv, WalkInv, HeadInv, UNCHANGED <<log, head>>,
         \A f \in Events : pc'[f] \in {"start", "advance", "upsert"} => f \notin Direct,
         \A f \in Events : pc'[f] = "upsert" => pc[f] = "upsert" \/ head[ActorOf[f]] = None
  PROVE  /\ WalkInv' /\ HeadInv'
         /\ \A a \in Actors : Recorded(a)' = Recorded(a)
<1>1. LoggedIds' = LoggedIds /\ Nodes' = Nodes /\ \A x : PriorOf(x)' = PriorOf(x)
  BY DEF LoggedIds, Nodes, PriorOf
<1>2. \A f : Walks(f)' <=> Walks(f)
  BY <1>1 DEF Walks
<1>3. Walk' = Walk
  BY <1>2 DEF Walk
<1>4. WalkInv'
  BY <1>1, <1>2, <1>3 DEF WalkInv
<1>5. HeadInv'
  BY <1>1 DEF HeadInv
<1>6. \A a \in Actors : Recorded(a)' = Recorded(a)
  BY DEF Recorded, LoggedIds, PriorOf
<1> QED BY <1>4, <1>5, <1>6

LEMMA QuietSteps ==
  ASSUME TypeOK, LogInv, WalkInv, HeadInv, NEW e \in Events,
         \/ ReadHead(e) \/ ReadTail(e) \/ InsertCommits(e) \/ InsertConflicts(e)
         \/ AppendFails(e) \/ InsertAnswerLost(e) \/ CasFails(e) \/ FindNoHead(e)
         \/ AdvanceFails(e) \/ Perform(e) \/ Crash(e)
  PROVE  /\ WalkInv' /\ HeadInv'
         /\ \A a \in Actors : Recorded(a)' = Recorded(a)
<1>1. CASE ReadHead(e) \/ ReadTail(e) \/ InsertCommits(e) \/ CasFails(e) \/ FindNoHead(e)
  <2>1. /\ UNCHANGED <<log, head>>
        /\ \A f \in Events : pc'[f] \in {"start", "advance", "upsert"} => f \notin Direct
        /\ \A f \in Events : pc'[f] = "upsert" => pc[f] = "upsert" \/ head[ActorOf[f]] = None
    BY <1>1 DEF ReadHead, ReadTail, InsertCommits, CasFails, FindNoHead, Goto, TypeOK, HeadInv
  <2> QED BY <2>1, HistoriesStay
<1>2. CASE InsertConflicts(e) \/ AppendFails(e) \/ InsertAnswerLost(e)
  <2>1. /\ UNCHANGED <<log, head>>
        /\ \A f \in Events : pc'[f] \in {"start", "advance", "upsert"} => f \notin Direct
        /\ \A f \in Events : pc'[f] = "upsert" => pc[f] = "upsert" \/ head[ActorOf[f]] = None
    BY <1>2 DEF InsertConflicts, AppendFails, InsertAnswerLost, NextAttempt, Goto, TypeOK, HeadInv
  <2> QED BY <2>1, HistoriesStay
<1>3. CASE AdvanceFails(e) \/ Perform(e) \/ Crash(e)
  <2>1. /\ UNCHANGED <<log, head>>
        /\ \A f \in Events : pc'[f] \in {"start", "advance", "upsert"} => f \notin Direct
        /\ \A f \in Events : pc'[f] = "upsert" => pc[f] = "upsert" \/ head[ActorOf[f]] = None
    BY <1>3 DEF AdvanceFails, Perform, Crash, Goto, TypeOK, HeadInv
  <2> QED BY <2>1, HistoriesStay
<1> QED BY <1>1, <1>2, <1>3

LEMMA HistoriesStart == Init => WalkInv /\ HeadInv
<1> SUFFICES ASSUME Init PROVE WalkInv /\ HeadInv
  OBVIOUS
<1>1. LoggedIds = {} /\ Nodes = {Earlier, None} /\ log = {}
  BY DEF Init, LoggedIds, Nodes
<1>2. \A f : Walks(f) <=> f = [x \in Nodes |-> << >>]
  BY <1>1 DEF Walks
<1>3. Walk = [x \in Nodes |-> << >>]
  BY <1>2 DEF Walk
<1>4. \A x \in Nodes : Walk[x] \in Seq(LoggedIds)
  BY <1>3
<1>5. WalkInv
  BY <1>1, <1>2, <1>3, <1>4 DEF WalkInv
<1>6. HeadInv
  BY DEF Init, HeadInv
<1> QED BY <1>5, <1>6

LEMMA HistoriesKept ==
  ASSUME OneBeginsChain
  PROVE  Spec => [](WalkInv /\ HeadInv)
<1>1. TypeOK /\ LogInv /\ WalkInv /\ HeadInv /\ [Next]_vars => WalkInv' /\ HeadInv'
  <2> SUFFICES ASSUME TypeOK, LogInv, WalkInv, HeadInv, [Next]_vars PROVE WalkInv' /\ HeadInv'
    OBVIOUS
  <2>1. ASSUME NEW e \in Events, Advance(e) \/ Upsert(e) \/ AdvanceAnswerLost(e)
        PROVE  WalkInv' /\ HeadInv'
    BY <2>1, WritesOverHead, WriteGrows, WriteHeads
  <2>2. CASE UNCHANGED vars
    BY <2>2, HistoriesStay DEF vars, HeadInv
  <2> QED BY <2>1, <2>2, QuietSteps DEF Next
<1> QED BY <1>1, HistoriesStart, TypeCorrect, LogKept, PTL DEF Spec

(* emitAudit with withHaltOnFailure implements the histories it promises:  *)
(* walking back from its head, each actor has one history, in which every  *)
(* emission that committed appears once, which only grows at its end, and  *)
(* which holds the emission of every operation performed.  It holds where  *)
(* no two emissions begin one actor's chain.                               *)
THEOREM HistoriesLinear ==
  ASSUME OneBeginsChain
  PROVE  Spec => LinearHistory
<1> DEFINE mapped == <<[a \in Actors |-> Recorded(a)], performed>>
<1>1. Init => Promise!Init
  <2> SUFFICES ASSUME Init PROVE Promise!Init
    OBVIOUS
  <2>1. Walks(Walk) /\ Nodes = {Earlier, None} /\ LoggedIds = {}
    BY HistoriesStart DEF WalkInv, Init, Nodes, LoggedIds
  <2>2. \A a \in Actors : Recorded(a) = << >>
    BY <2>1, RecordedWalks, WalksAt DEF Init
  <2> QED BY <2>2 DEF Init, Promise!Init
<1>2. TypeOK /\ LogInv /\ DarkInv /\ WalkInv /\ HeadInv /\ [Next]_vars => [Promise!Next]_mapped
  <2> SUFFICES ASSUME TypeOK, LogInv, DarkInv, WalkInv, HeadInv, [Next]_vars
               PROVE  [Promise!Next]_mapped
    OBVIOUS
  <2>0. \A a \in Actors : Recorded(a) \in Seq(LoggedIds)
    BY HeadNode, RecordedWalks DEF WalkInv
  <2>1. ASSUME NEW e \in Events, Advance(e) \/ Upsert(e) \/ AdvanceAnswerLost(e)
        PROVE  Promise!Record(e)
    <3>1. /\ UNCHANGED performed /\ ~Logged(e) /\ ActorOf[e] \in Actors
          /\ \A a \in Actors :
               Recorded(a)' = IF a = ActorOf[e] THEN Append(Recorded(a), e) ELSE Recorded(a)
      BY <2>1, WritesOverHead, WriteGrows
    <3>2. e \notin Promise!RecordedFor(ActorOf[e])
      <4>1. e \notin LoggedIds
        BY <3>1 DEF Logged, LoggedIds
      <4>2. PICK s \in Seq(LoggedIds) : s = Recorded(ActorOf[e])
        BY <2>0, <3>1
      <4>3. \A i \in 1..Len(s) : s[i] \in LoggedIds
        BY <4>2
      <4> QED BY <3>1, <4>1, <4>2, <4>3 DEF Promise!RecordedFor
    <3>3. [a \in Actors |-> Recorded(a)]' =
            [[a \in Actors |-> Recorded(a)] EXCEPT ![ActorOf[e]] = Append(@, e)]
      BY <3>1
    <3> QED BY <3>1, <3>2, <3>3 DEF Promise!Record
  <2>2. ASSUME \A a \in Actors : Recorded(a)' = Recorded(a), UNCHANGED performed
        PROVE  UNCHANGED mapped
    BY <2>2
  <2>3. ASSUME NEW e \in Events, Perform(e) PROVE Promise!Perform(e)
    <3>1. pc[e] = "done" /\ e \notin Direct /\ performed' = performed \union {e}
      BY <2>3 DEF Perform
    <3>2. \A a \in Actors : Recorded(a)' = Recorded(a)
      BY <2>3, QuietSteps
    <3>3. e \in Promise!RecordedFor(ActorOf[e])
      <4>1. e \in LoggedIds /\ ActorOf[e] \in Actors
        BY <3>1 DEF DarkInv, Logged, LoggedIds
      <4>2. \E i \in 1..Len(Recorded(ActorOf[e])) : Recorded(ActorOf[e])[i] = e
        BY <4>1, RecordedWalks DEF WalkInv
      <4> QED BY <4>1, <4>2 DEF Promise!RecordedFor
    <3>4. [a \in Actors |-> Recorded(a)]' = [a \in Actors |-> Recorded(a)]
      BY <3>2
    <3> QED BY <3>1, <3>3, <3>4 DEF Promise!Perform
  <2>4. ASSUME NEW e \in Events,
               \/ ReadHead(e) \/ ReadTail(e) \/ InsertCommits(e) \/ InsertConflicts(e)
               \/ AppendFails(e) \/ InsertAnswerLost(e)
        PROVE  UNCHANGED mapped
    <3>1. UNCHANGED performed
      BY <2>4 DEF ReadHead, ReadTail, InsertCommits, InsertConflicts, AppendFails, InsertAnswerLost
    <3> QED BY <2>2, <2>4, <3>1, QuietSteps
  <2>5. ASSUME NEW e \in Events, CasFails(e) \/ FindNoHead(e) \/ AdvanceFails(e) \/ Crash(e)
        PROVE  UNCHANGED mapped
    <3>1. UNCHANGED performed
      BY <2>5 DEF CasFails, FindNoHead, AdvanceFails, Crash
    <3> QED BY <2>2, <2>5, <3>1, QuietSteps
  <2>6. CASE UNCHANGED vars
    <3>1. UNCHANGED performed /\ \A a \in Actors : Recorded(a)' = Recorded(a)
      BY <2>6, HistoriesStay DEF vars, HeadInv
    <3> QED BY <2>2, <3>1
  <2> HIDE DEF mapped
  <2> QED BY <2>1, <2>3, <2>4, <2>5, <2>6 DEF Next, Promise!Next
<1> QED BY <1>1, <1>2, TypeCorrect, LogKept, DarkKept, HistoriesKept, PTL
        DEF Spec, LinearHistory, Promise!Spec

(* AuditLogRepo.insertAndAdvanceChain, as its header says: walking back    *)
(* from an actor's head meets every event of the actor, where no two       *)
(* emissions begin one actor's chain.                                      *)
THEOREM HeadsReachAll ==
  ASSUME OneBeginsChain
  PROVE  Spec => []HeadReachesAll
<1>1. TypeOK /\ WalkInv => HeadReachesAll
  <2> SUFFICES ASSUME TypeOK, WalkInv, NEW r \in log
               PROVE  \E i \in 1..Len(Recorded(ActorOf[r.id])) : Recorded(ActorOf[r.id])[i] = r.id
    BY DEF HeadReachesAll
  <2>1. r.id \in LoggedIds
    BY DEF LoggedIds
  <2> QED BY <2>1, RecordedWalks DEF WalkInv
<1> QED BY <1>1, TypeCorrect, HistoriesKept, PTL

(***************************************************************************)
(* HashChain.verify (ChainVerify).  A table of rows has a last row, and a  *)
(* row appended to it follows that one.                                    *)
(***************************************************************************)
Below == {p \in Nat \X Nat : p[1] < p[2]}

(* A bounded set of seqs has a greatest: the least of its upper bounds.    *)
LEMMA Greatest ==
  ASSUME NEW n \in Nat, NEW T \in SUBSET (1..n), T # {}
  PROVE  \E s \in T : \A t \in T : t <= s
<1> DEFINE Bounds == {u \in Nat : \A t \in T : t <= u}
<1>1. IsWellFoundedOn(Below, Nat)
  <2>1. OpToRel(<, Nat) = Below
    BY DEF OpToRel, Below
  <2> QED BY <2>1, NatLessThanWellFounded, Zenon
<1>2. n \in Bounds /\ Bounds \subseteq Nat
  OBVIOUS
<1>3. PICK u \in Bounds : \A v \in Bounds : ~ (<<v, u>> \in Below)
  BY <1>1, <1>2, WFMin
<1>4. \A v \in Bounds : u <= v
  <2>1. \A v \in Bounds : ~ (v < u)
    BY <1>2, <1>3 DEF Below
  <2> QED BY <1>2, <2>1
<1>5. u \in Nat /\ \A t \in T : t <= u /\ t \in Nat \ {0}
  BY <1>3
<1>6. u \in T
  <2>1. SUFFICES ASSUME u \notin T PROVE FALSE
    OBVIOUS
  <2>2. PICK t \in T : TRUE
    OBVIOUS
  <2>3. u - 1 \in Nat
    BY <1>5, <2>2
  <2>4. \A s \in T : s <= u - 1
    BY <1>5, <2>1
  <2> QED BY <1>4, <1>5, <2>3, <2>4
<1> QED BY <1>5, <1>6

Bodies == {"written", "rewritten", "verified", "break"}
RowHashes == Seq(Nat \X Bodies)
TableRow == [body : Bodies, prev : RowHashes, hash : RowHashes]

Table(T) == (\E n \in Nat : DOMAIN T \subseteq 1..n) /\ \A s \in DOMAIN T : T[s] \in TableRow

SoundIn(T, s) ==
  LET prev == IF s = 1 THEN NullHash ELSE T[s - 1].hash
  IN  /\ s \in DOMAIN T /\ (s = 1 \/ s - 1 \in DOMAIN T)
      /\ T[s].prev = prev /\ T[s].hash = RowHashOf(prev, s, T[s].body)

Intact(T) == \E n \in Nat : DOMAIN T = 1..n /\ \A s \in 1..n : SoundIn(T, s)

(* T has every row of S, unchanged. *)
Keeps(S, T) == \A s \in DOMAIN S : s \in DOMAIN T /\ T[s] = S[s]

LEMMA LastRow ==
  ASSUME NEW T, Table(T)
  PROVE  /\ LastOf(T) \in Nat /\ \A t \in DOMAIN T : t \in Nat \ {0} /\ t <= LastOf(T)
         /\ LastOf(T) = 0 \/ LastOf(T) \in DOMAIN T
<1>1. PICK n \in Nat : DOMAIN T \subseteq 1..n
  BY DEF Table
<1>2. CASE DOMAIN T = {}
  BY <1>2 DEF LastOf
<1>3. CASE DOMAIN T # {}
  <2>1. \E s \in DOMAIN T : \A t \in DOMAIN T : t <= s
    BY <1>1, <1>3, Greatest
  <2>2. LastOf(T) \in DOMAIN T /\ \A t \in DOMAIN T : t <= LastOf(T)
    BY <1>3, <2>1 DEF LastOf
  <2> QED BY <1>1, <2>2
<1> QED BY <1>2, <1>3

LEMMA RowAppended ==
  ASSUME NEW T, Table(T), NEW body \in Bodies
  PROVE  /\ Table(WithRow(T, body)) /\ Keeps(T, WithRow(T, body))
         /\ Intact(T) => Intact(WithRow(T, body))
<1> DEFINE prev == IF LastOf(T) = 0 THEN NullHash ELSE T[LastOf(T)].hash
<1>1. PICK s \in Nat \ {0} : s = LastOf(T) + 1
  BY LastRow
<1>2. PICK W : W = WithRow(T, body)
  OBVIOUS
<1>3. \A t \in DOMAIN T : t \in Nat \ {0} /\ t < s
  BY <1>1, LastRow
<1>4. prev \in RowHashes
  <2>1. NullHash \in RowHashes
    BY DEF NullHash, RowHashes
  <2>2. LastOf(T) # 0 => T[LastOf(T)] \in TableRow
    BY LastRow DEF Table
  <2> QED BY <2>1, <2>2 DEF TableRow
<1>5. /\ DOMAIN W = DOMAIN T \union {s}
      /\ \A t \in DOMAIN T : W[t] = T[t]
      /\ W[s] = RowAfter(prev, s, body)
  BY <1>1, <1>2, <1>3 DEF WithRow
<1>6. W[s] \in TableRow
  <2>1. <<s, body>> \in Nat \X Bodies
    OBVIOUS
  <2>2. Append(prev, <<s, body>>) \in RowHashes
    BY <1>4, <2>1 DEF RowHashes
  <2> QED BY <1>4, <1>5, <2>2 DEF RowAfter, RowHashOf, TableRow
<1>7. Table(W)
  <2>1. PICK n \in Nat : DOMAIN T \subseteq 1..n
    BY DEF Table
  <2>2. PICK m \in Nat : n <= m /\ s <= m
    BY <2>1
  <2>3. DOMAIN W \subseteq 1..m
    BY <1>5, <2>1, <2>2
  <2> QED BY <1>5, <1>6, <2>3 DEF Table
<1>8. Keeps(T, W)
  BY <1>5 DEF Keeps
<1>9. ASSUME Intact(T) PROVE Intact(W)
  <2>1. PICK n \in Nat : DOMAIN T = 1..n /\ \A t \in 1..n : SoundIn(T, t)
    BY <1>9 DEF Intact
  <2>2. LastOf(T) = n
    <3>1. n = 0 \/ n \in DOMAIN T
      BY <2>1
    <3>2. LastOf(T) \in Nat /\ (n = 0 \/ n <= LastOf(T))
      BY <3>1, LastRow
    <3>3. LastOf(T) = 0 \/ LastOf(T) \in 1..n
      BY <2>1, LastRow
    <3> QED BY <3>2, <3>3
  <2>3. s = n + 1 /\ DOMAIN W = 1..(n + 1)
    BY <1>1, <1>5, <2>1, <2>2
  <2>4. \A t \in 1..n : SoundIn(W, t)
    BY <1>5, <2>1 DEF SoundIn
  <2>5. SoundIn(W, s)
    BY <1>5, <2>1, <2>2, <2>3 DEF SoundIn, RowAfter
  <2> QED BY <2>3, <2>4, <2>5 DEF Intact
<1> QED BY <1>2, <1>7, <1>8, <1>9

(***************************************************************************)
(* The sweeps.  A chain that was not damaged is whole; a sweep under way   *)
(* from row 1 has counted sound rows and carries the hash of the last.     *)
(***************************************************************************)
SweepState ==
  [state : {"idle", "sweeping", "ok", "broken", "logged"}, from : Nat \ {0}, to : Nat,
   at : Nat, prev : RowHashes, expected : Nat, verified : Nat, clean : BOOLEAN]

VerifyTypeOK ==
  /\ Table(rows) /\ damage \in Nat /\ cursor \in Nat \ {0}
  /\ sweep \in [Loops -> SweepState]

Whole == damage = 0 => Intact(rows)

Underway(l) ==
  LET w == sweep[l] IN
  w.state = "sweeping" =>
    /\ w.at = w.expected /\ w.expected = w.from + w.verified
    /\ w.clean => damage = 0
    /\ w.from = 1 =>
         /\ \A s \in 1..w.verified : SoundIn(rows, s)
         /\ w.prev = IF w.verified = 0 THEN NullHash ELSE rows[w.verified].hash
    /\ l = "verifier" => w.from = 1 /\ (w.clean => w.at <= w.to /\ w.to \in Seqs)

VerifyInv == VerifyTypeOK /\ Whole /\ (\A l \in Loops : Underway(l)) /\ NoFalseAlarm

LEMMA VerifyStarts == VerifyInit => VerifyInv
<1> SUFFICES ASSUME VerifyInit PROVE VerifyInv
  OBVIOUS
<1>1. Table(rows) /\ Intact(rows)
  <2>1. 0 \in Nat /\ DOMAIN rows = {} /\ 1..0 = {}
    BY DEF VerifyInit
  <2> QED BY <2>1 DEF Table, Intact
<1>2. NullHash \in RowHashes
  BY DEF NullHash, RowHashes
<1>3. Idle \in SweepState /\ Idle.state = "idle"
  BY <1>2 DEF Idle, SweepState
<1>4. \A l \in Loops : sweep[l] = Idle
  BY DEF VerifyInit
<1>5. VerifyTypeOK
  BY <1>1, <1>3 DEF VerifyInit, VerifyTypeOK
<1>6. \A l \in Loops : Underway(l)
  BY <1>3, <1>4 DEF Underway
<1>7. NoFalseAlarm
  BY <1>3, <1>4 DEF NoFalseAlarm, Loops
<1> QED BY <1>1, <1>5, <1>6, <1>7 DEF Whole, VerifyInv

(* Rows appended leave every sweep where it was.                           *)
LEMMA SweepsGrow ==
  ASSUME VerifyInv, Table(rows'), Keeps(rows, rows'), NEW l \in Loops,
         sweep'[l] = sweep[l], damage' = damage
  PROVE  Underway(l)'
<1>1. \A s : SoundIn(rows, s) => SoundIn(rows', s)
  BY DEF SoundIn, Keeps
<1>2. sweep[l] \in SweepState /\ Underway(l)
  BY DEF VerifyInv, VerifyTypeOK
<1>3. ASSUME NEW s \in Nat, SoundIn(rows, s) PROVE rows'[s].hash = rows[s].hash
  BY <1>3 DEF SoundIn, Keeps
<1>4. Seqs \subseteq Seqs'
  BY DEF Keeps, Seqs
<1> SUFFICES ASSUME sweep[l].state = "sweeping" PROVE Underway(l)'
  BY DEF Underway
<1>5. sweep[l].verified \in Nat
  BY <1>2 DEF SweepState
<1>6. sweep[l].from = 1 /\ sweep[l].verified # 0 =>
        SoundIn(rows, sweep[l].verified)
  BY <1>2, <1>5 DEF Underway
<1> QED BY <1>1, <1>2, <1>3, <1>4, <1>5, <1>6 DEF Underway

LEMMA RowsGrow ==
  ASSUME VerifyInv, Table(rows'), Keeps(rows, rows'), Intact(rows) => Intact(rows'),
         UNCHANGED <<damage, sweep>>, cursor' \in Nat \ {0}
  PROVE  VerifyInv'
<1>1. \A l \in Loops : Underway(l)'
  BY SweepsGrow
<1> QED BY <1>1 DEF VerifyInv, VerifyTypeOK, Whole, NoFalseAlarm

(* A batch that is fine counts the sound rows that follow those counted.   *)
LEMMA BatchCounts ==
  ASSUME VerifyInv, NEW l \in Loops, sweep[l].state = "sweeping", BatchFine(sweep[l]),
         NEW n, n = Cardinality(Batch(sweep[l]))
  PROVE  LET w == sweep[l] IN
         /\ n \in Nat /\ n <= BatchSize /\ Batch(w) = w.expected..(w.expected + n - 1)
         /\ n # 0 => w.expected + n - 1 \in Seqs
         /\ ~LastBatch(w) => n = BatchSize /\ BatchUpper(w) = w.at + n - 1 /\ BatchUpper(w) < w.to
         /\ w.from = 1 => \A s \in 1..(w.verified + n) : SoundIn(rows, s)
<1> USE VerifyAssumption DEF VerifyAssumption
<1>1. PICK w : w = sweep[l]
  OBVIOUS
<1>2. w \in SweepState /\ w.at = w.expected /\ w.expected = w.from + w.verified
  BY <1>1 DEF VerifyInv, VerifyTypeOK, Underway
<1>3. w.at \in Nat /\ w.from \in Nat \ {0} /\ w.verified \in Nat /\ w.to \in Nat
  BY <1>2 DEF SweepState
<1>4. BatchUpper(w) \in Int /\ BatchUpper(w) <= w.at + BatchSize - 1 /\ BatchUpper(w) <= w.to
  BY <1>3 DEF BatchUpper
<1>5. Batch(w) = w.expected..(w.expected + n - 1)
  BY <1>1 DEF BatchFine
<1>6. n \in Nat /\ IsFiniteSet(Batch(w))
  <2>1. w.at \in Int /\ BatchUpper(w) \in Int
    BY <1>3, <1>4
  <2>2. IsFiniteSet(w.at..BatchUpper(w))
    BY <2>1, FS_Interval
  <2>3. Batch(w) \in SUBSET (w.at..BatchUpper(w))
    BY DEF Batch
  <2>4. IsFiniteSet(Batch(w))
    BY <2>2, <2>3, FS_Subset
  <2> QED BY <1>1, <2>4, FS_CardinalityType
<1>7. n # 0 => w.expected + n - 1 \in Batch(w)
  BY <1>2, <1>3, <1>5, <1>6
<1>8. n # 0 => w.expected + n - 1 \in Seqs /\ w.expected + n - 1 <= BatchUpper(w)
  BY <1>3, <1>4, <1>7 DEF Batch
<1>9. n <= BatchSize
  BY <1>2, <1>3, <1>4, <1>6, <1>8
<1>10. ~LastBatch(w) => n = BatchSize /\ BatchUpper(w) = w.at + n - 1 /\ BatchUpper(w) < w.to
  <2> SUFFICES ASSUME ~LastBatch(w)
               PROVE  n = BatchSize /\ BatchUpper(w) = w.at + n - 1 /\ BatchUpper(w) < w.to
    OBVIOUS
  <2>1. n >= BatchSize /\ BatchUpper(w) # w.to
    BY <1>1, <1>6 DEF LastBatch
  <2>2. n = BatchSize
    BY <1>6, <1>9, <2>1
  <2> QED BY <1>3, <1>4, <2>1, <2>2 DEF BatchUpper
<1>11. ASSUME w.from = 1, NEW s \in 1..(w.verified + n) PROVE SoundIn(rows, s)
  <2>1. CASE s <= w.verified
    BY <1>1, <1>11, <2>1, <1>3 DEF VerifyInv, Underway
  <2>2. CASE s > w.verified
    <3>0. s \in Batch(w)
      BY <1>2, <1>3, <1>5, <1>6, <1>11, <2>2
    <3>1. s \in Batch(w) /\ s \in Seqs
      BY <3>0 DEF Batch
    <3>2. rows[s].hash = RowHashOf(PrevOf(w, s), s, rows[s].body) /\ rows[s].prev = PrevOf(w, s)
      BY <1>1, <3>1 DEF BatchFine
    <3>3. CASE s = w.expected
      <4>1. s = w.verified + 1 /\ PrevOf(w, s) = w.prev
        BY <1>2, <1>3, <1>11, <3>3 DEF PrevOf
      <4>2. CASE w.verified = 0
        <5>1. s = 1 /\ w.prev = NullHash
          BY <1>1, <1>11, <4>1, <4>2 DEF VerifyInv, Underway
        <5> QED BY <3>1, <3>2, <4>1, <5>1 DEF SoundIn, Seqs
      <4>3. CASE w.verified # 0
        <5>1. w.prev = rows[s - 1].hash /\ SoundIn(rows, s - 1) /\ s # 1
          BY <1>1, <1>3, <1>11, <4>1, <4>3 DEF VerifyInv, Underway
        <5> QED BY <3>1, <3>2, <4>1, <5>1 DEF SoundIn, Seqs
      <4> QED BY <4>2, <4>3
    <3>4. CASE s # w.expected
      <4>1. s # 1 /\ s - 1 \in Batch(w)
        BY <1>2, <1>3, <1>5, <1>6, <1>11, <2>2, <3>4
      <4>2. s - 1 \in Seqs /\ PrevOf(w, s) = rows[s - 1].hash
        BY <3>4, <4>1 DEF Batch, PrevOf
      <4> QED BY <3>1, <3>2, <4>1, <4>2 DEF SoundIn, Seqs
    <3> QED BY <3>3, <3>4
  <2> QED BY <1>3, <1>6, <2>1, <2>2
<1> QED BY <1>1, <1>5, <1>6, <1>8, <1>9, <1>10, <1>11

(* Damage is done between sweeps.                                          *)
LEMMA DamageKept ==
  ASSUME VerifyInv, NEW d \in Seqs, Damage(d)
  PROVE  VerifyInv'
<1>1. Table(rows) /\ damage \in Nat /\ damage' = damage + 1 /\ UNCHANGED <<sweep, cursor>>
  BY DEF VerifyInv, VerifyTypeOK, Damage
<1>2. PICK n \in Nat : DOMAIN rows \subseteq 1..n
  BY <1>1 DEF Table
<1>3. d \in 1..n /\ d \in DOMAIN rows /\ rows[d] \in TableRow
  BY <1>1, <1>2 DEF Seqs, Table
<1>4. RowHashOf(rows[d].prev, d, "rewritten") \in RowHashes
  <2>1. <<d, "rewritten">> \in Nat \X Bodies /\ rows[d].prev \in RowHashes
    BY <1>3 DEF Bodies, TableRow
  <2> QED BY <2>1 DEF RowHashOf, RowHashes
<1>5. DOMAIN rows' \subseteq DOMAIN rows /\ \A s \in DOMAIN rows' : rows'[s] \in TableRow
  <2>1. CASE rows' = [t \in Seqs \ {d} |-> rows[t]]
    BY <1>1, <2>1 DEF Seqs, Table
  <2>2. CASE rows' = [rows EXCEPT ![d].body = "rewritten"]
    BY <1>1, <1>3, <2>2 DEF Table, TableRow, Bodies
  <2>3. CASE rows' = [rows EXCEPT ![d].prev = RowHashOf(@, d, "rewritten")]
    BY <1>1, <1>3, <1>4, <2>3 DEF Table, TableRow
  <2> QED BY <2>1, <2>2, <2>3 DEF Damage
<1>6. Table(rows')
  BY <1>2, <1>5 DEF Table
<1>7. \A l \in Loops : sweep[l].state # "sweeping"
  BY DEF Damage, Sweeping
<1>8. damage' # 0
  BY <1>1
<1> QED BY <1>1, <1>6, <1>7, <1>8 DEF VerifyInv, VerifyTypeOK, Whole, Underway, NoFalseAlarm

(* A sweep begins: at the seq it starts from, with nothing counted.        *)
LEMMA BeginKept ==
  ASSUME VerifyInv, NEW l \in Loops, NEW from \in Nat \ {0}, NEW to \in Nat, Begin(l, from, to),
         l = "verifier" => from = 1 /\ to \in Seqs,
         UNCHANGED <<rows, damage, cursor>>
  PROVE  VerifyInv'
<1>1. PICK b : b = [state |-> "sweeping", from |-> from, to |-> to, at |-> from,
                    prev |-> NullHash, expected |-> from, verified |-> 0, clean |-> damage = 0]
  OBVIOUS
<1>2. b \in SweepState
  BY <1>1 DEF SweepState, NullHash, RowHashes
<1>3. /\ sweep' = [sweep EXCEPT ![l] = b] /\ sweep \in [Loops -> SweepState]
      /\ Table(rows) /\ damage \in Nat /\ cursor \in Nat \ {0} /\ Whole
  BY <1>1 DEF Begin, VerifyInv, VerifyTypeOK
<1>4. VerifyTypeOK'
  BY <1>2, <1>3 DEF VerifyTypeOK
<1>5. \A k \in Loops \ {l} : sweep'[k] = sweep[k]
  BY <1>3
<1>6. sweep'[l] = b
  BY <1>3
<1>7. \A s \in Seqs : s \in Nat \ {0}
  BY <1>3, LastRow DEF Seqs
<1>8. Underway(l)'
  <2>1. b.at = from /\ b.expected = from /\ b.from = from /\ b.verified = 0 /\ b.to = to
        /\ b.prev = NullHash /\ b.clean = (damage = 0)
    BY <1>1
  <2>2. l = "verifier" => from <= to /\ Seqs' = Seqs
    BY <1>7 DEF Seqs
  <2>3. b.at = b.expected /\ b.expected = b.from + b.verified
    BY <2>1
  <2>4. \A s : s \notin 1..b.verified
    BY <2>1
  <2> QED BY <1>6, <2>1, <2>2, <2>3, <2>4 DEF Underway
<1>9. \A k \in Loops : Underway(k)'
  BY <1>5, <1>8 DEF VerifyInv, Underway, Seqs
<1>10. NoFalseAlarm'
  <2>1. CASE l = "verifier"
    BY <1>1, <1>6, <2>1 DEF NoFalseAlarm
  <2>2. CASE l # "verifier"
    BY <1>5, <2>2 DEF VerifyInv, NoFalseAlarm, Loops
  <2> QED BY <2>1, <2>2
<1> QED BY <1>3, <1>4, <1>9, <1>10 DEF VerifyInv, Whole, Intact, SoundIn

(* A batch of a chain that is whole is fine, and the last ends at the seq  *)
(* the sweep was asked for.                                                *)
LEMMA WholeIsFine ==
  ASSUME VerifyInv, sweep["verifier"].state = "sweeping", sweep["verifier"].clean
  PROVE  LET w == sweep["verifier"] IN
         /\ BatchFine(w)
         /\ LastBatch(w) => w.verified + Cardinality(Batch(w)) = w.to
<1> USE VerifyAssumption DEF VerifyAssumption
<1>1. PICK w : w = sweep["verifier"]
  OBVIOUS
<1>2. w \in SweepState /\ "verifier" \in Loops
  BY <1>1 DEF VerifyInv, VerifyTypeOK, Loops
<1>3. w.at \in Nat /\ w.from \in Nat \ {0} /\ w.verified \in Nat /\ w.to \in Nat /\ w.expected \in Nat
  BY <1>2 DEF SweepState
<1>4. /\ w.at = w.expected /\ w.expected = w.from + w.verified /\ w.from = 1
      /\ damage = 0 /\ w.at <= w.to /\ w.to \in Seqs
      /\ w.prev = IF w.verified = 0 THEN NullHash ELSE rows[w.verified].hash
  BY <1>1, <1>2 DEF VerifyInv, Underway
<1>5. PICK n \in Nat : Seqs = 1..n /\ \A s \in 1..n : SoundIn(rows, s)
  BY <1>4 DEF VerifyInv, Whole, Intact, Seqs
<1>6. PICK u \in Nat : u = BatchUpper(w)
  BY <1>3, <1>4 DEF BatchUpper
<1>7. w.at <= u /\ u <= w.to /\ w.to <= n /\ (u = w.to \/ u = w.at + BatchSize - 1)
  BY <1>3, <1>4, <1>5, <1>6 DEF BatchUpper
<1>8. Batch(w) = w.at..u
  BY <1>3, <1>4, <1>5, <1>6, <1>7 DEF Batch
<1>9. Cardinality(Batch(w)) = u - w.at + 1
  <2>1. w.at \in Int /\ u \in Int /\ ~(w.at > u)
    BY <1>3, <1>7
  <2> QED BY <1>8, <2>1, FS_Interval
<1>10. Batch(w) = w.expected..(w.expected + Cardinality(Batch(w)) - 1)
  BY <1>3, <1>4, <1>8, <1>9
<1>11. ASSUME NEW s \in Batch(w)
       PROVE  /\ rows[s].hash = RowHashOf(PrevOf(w, s), s, rows[s].body)
              /\ rows[s].prev = PrevOf(w, s)
  <2>1. s \in Nat /\ s >= w.at /\ s <= n
    BY <1>3, <1>7, <1>8, <1>11
  <2>2. SoundIn(rows, s)
    BY <1>3, <1>4, <1>5, <2>1
  <2>3. PrevOf(w, s) = IF s = 1 THEN NullHash ELSE rows[s - 1].hash
    BY <1>3, <1>4, <2>1 DEF PrevOf
  <2> QED BY <2>2, <2>3 DEF SoundIn
<1>12. LastBatch(w) => u = w.to
  BY <1>3, <1>6, <1>7, <1>9 DEF LastBatch
<1>13. LastBatch(w) => w.verified + Cardinality(Batch(w)) = w.to
  BY <1>3, <1>4, <1>9, <1>12
<1> QED BY <1>1, <1>10, <1>11, <1>13 DEF BatchFine

LEMMA SweepKept ==
  ASSUME VerifyInv, NEW l \in Loops, SweepBatch(l)
  PROVE  VerifyInv'
<1>1. PICK w : w = sweep[l]
  OBVIOUS
<1>2. w \in SweepState /\ w.state = "sweeping" /\ UNCHANGED <<rows, damage, cursor>>
  BY <1>1 DEF VerifyInv, VerifyTypeOK, SweepBatch
<1>3. w.at \in Nat /\ w.from \in Nat \ {0} /\ w.verified \in Nat /\ w.to \in Nat /\ w.expected \in Nat
  BY <1>2 DEF SweepState
<1>4. /\ w.at = w.expected /\ w.expected = w.from + w.verified /\ (w.clean => damage = 0)
      /\ l = "verifier" => w.from = 1 /\ (w.clean => w.at <= w.to /\ w.to \in Seqs)
  BY <1>1, <1>2 DEF VerifyInv, Underway
<1>5. PICK v : /\ sweep' = [sweep EXCEPT ![l] = v]
               /\ v = IF BatchFine(w)
                        THEN [Advanced(w) EXCEPT !.state = IF LastBatch(w) THEN "ok" ELSE "sweeping"]
                        ELSE [w EXCEPT !.state = "broken"]
  BY <1>1 DEF SweepBatch
<1>6. CASE ~BatchFine(w)
  <2>1. v \in SweepState /\ v.state = "broken" /\ v.clean = w.clean
    BY <1>2, <1>5, <1>6 DEF SweepState
  <2>2. l = "verifier" => ~w.clean
    BY <1>1, <1>2, <1>6, WholeIsFine
  <2> QED BY <1>2, <1>5, <2>1, <2>2
        DEF VerifyInv, VerifyTypeOK, Whole, Intact, SoundIn, Underway, NoFalseAlarm, Seqs, Loops
<1>7. CASE BatchFine(w)
  <2>1. PICK n \in Nat : n = Cardinality(Batch(w))
    BY <1>1, <1>2, <1>7, BatchCounts
  <2>2. /\ n <= BatchSize /\ Batch(w) = w.expected..(w.expected + n - 1)
        /\ n # 0 => w.expected + n - 1 \in Seqs
        /\ ~LastBatch(w) => n = BatchSize /\ BatchUpper(w) = w.at + n - 1 /\ BatchUpper(w) < w.to
        /\ w.from = 1 => \A s \in 1..(w.verified + n) : SoundIn(rows, s)
    BY <1>1, <1>2, <1>7, <2>1, BatchCounts
  <2>3. Batch(w) = {} <=> n = 0
    <3>1. n # 0 => w.expected \in w.expected..(w.expected + n - 1)
      BY <1>3, <2>1
    <3>2. n = 0 => w.expected..(w.expected + n - 1) = {}
      BY <1>3
    <3> QED BY <2>2, <3>1, <3>2
  <2>4. BatchUpper(w) + 1 \in Nat
    BY <1>3, VerifyAssumption DEF BatchUpper, VerifyAssumption
  <2>5. n # 0 => rows[w.expected + n - 1].hash \in RowHashes
    BY <2>2 DEF VerifyInv, VerifyTypeOK, Table, TableRow, Seqs
  <2>6. /\ v \in SweepState /\ v.state = (IF LastBatch(w) THEN "ok" ELSE "sweeping")
        /\ v.at = BatchUpper(w) + 1 /\ v.expected = w.expected + n /\ v.verified = w.verified + n
        /\ v.prev = IF n = 0 THEN w.prev ELSE rows[w.expected + n - 1].hash
        /\ v.from = w.from /\ v.to = w.to /\ v.clean = w.clean
    <3>1. PICK a : a = Advanced(w)
      OBVIOUS
    <3>2. /\ a \in SweepState
          /\ a.at = BatchUpper(w) + 1 /\ a.expected = w.expected + n /\ a.verified = w.verified + n
          /\ a.prev = IF n = 0 THEN w.prev ELSE rows[w.expected + n - 1].hash
          /\ a.from = w.from /\ a.to = w.to /\ a.clean = w.clean
      <4>1. PICK p \in RowHashes : p = IF n = 0 THEN w.prev ELSE rows[w.expected + n - 1].hash
        BY <1>2, <2>5 DEF SweepState
      <4>2. a = [w EXCEPT !.at = BatchUpper(w) + 1, !.expected = w.expected + n,
                          !.prev = p, !.verified = w.verified + n]
        BY <2>1, <2>3, <3>1, <4>1 DEF Advanced
      <4>3. w.expected + n \in Nat /\ w.verified + n \in Nat
        BY <1>3
      <4> QED BY <1>2, <2>4, <4>1, <4>2, <4>3 DEF SweepState
    <3>3. v = [a EXCEPT !.state = IF LastBatch(w) THEN "ok" ELSE "sweeping"]
      BY <1>5, <1>7, <3>1
    <3> QED BY <3>2, <3>3 DEF SweepState
  <2>7. VerifyTypeOK'
    BY <1>2, <1>5, <2>6 DEF VerifyInv, VerifyTypeOK
  <2>8. sweep'[l] = v /\ \A k \in Loops \ {l} : sweep'[k] = sweep[k]
    BY <1>5 DEF VerifyInv, VerifyTypeOK
  <2>9. Underway(l)'
    <3> SUFFICES ASSUME v.state = "sweeping" PROVE Underway(l)'
      BY <2>8 DEF Underway
    <3>1. ~LastBatch(w) /\ n # 0
      BY <2>2, <2>6, VerifyAssumption DEF VerifyAssumption
    <3>2. v.at = v.expected /\ v.expected = v.from + v.verified /\ v.at <= v.to
      BY <1>3, <1>4, <2>2, <2>6, <3>1
    <3>3. v.from = 1 => w.expected + n - 1 = v.verified /\ v.verified # 0
      BY <1>3, <1>4, <2>6, <3>1
    <3> QED BY <1>2, <1>4, <2>2, <2>6, <2>8, <3>1, <3>2, <3>3 DEF Underway, SoundIn, Seqs
  <2>10. \A k \in Loops : Underway(k)'
    BY <1>2, <2>8, <2>9 DEF VerifyInv, Underway, SoundIn, Seqs
  <2>11. NoFalseAlarm'
    <3>1. CASE l # "verifier"
      BY <2>8, <3>1 DEF VerifyInv, NoFalseAlarm, Loops
    <3>2. CASE l = "verifier"
      <4>1. w.clean /\ LastBatch(w) => w.verified + n = w.to
        BY <1>1, <1>2, <2>1, <3>2, WholeIsFine
      <4> QED BY <2>6, <2>8, <3>2, <4>1 DEF NoFalseAlarm
    <3> QED BY <3>1, <3>2
  <2> QED BY <1>2, <2>7, <2>10, <2>11 DEF VerifyInv, Whole, Intact, SoundIn
<1> QED BY <1>6, <1>7

LEMMA WatchLogKept ==
  ASSUME VerifyInv, WatchLog
  PROVE  VerifyInv'
<1>1. PICK v : /\ sweep' = [sweep EXCEPT !["watch"] = v]
               /\ v = [sweep["watch"] EXCEPT !.state = "logged"]
  BY DEF WatchLog, VerifyInv, VerifyTypeOK, Loops
<1>2. /\ sweep \in [Loops -> SweepState] /\ Table(rows) /\ damage' = damage
      /\ cursor \in Nat \ {0} /\ damage \in Nat
  BY DEF VerifyInv, VerifyTypeOK, WatchLog
<1>3. v \in SweepState /\ v.state = "logged" /\ sweep["watch"].to \in Nat
  BY <1>1, <1>2 DEF SweepState, Loops
<1>4. cursor' \in Nat \ {0}
  BY <1>2, <1>3 DEF WatchLog
<1>5. "verified" \in Bodies /\ "break" \in Bodies
  BY DEF Bodies
<1>6. Table(rows') /\ Keeps(rows, rows') /\ (Intact(rows) => Intact(rows'))
  <2>1. CASE rows' = WithRow(rows, "verified")
    BY <1>2, <1>5, <2>1, RowAppended
  <2>2. CASE rows' = WithRow(WithRow(rows, "break"), "verified")
    <3>1. PICK T : T = WithRow(rows, "break")
      OBVIOUS
    <3>2. Table(T) /\ Keeps(rows, T) /\ (Intact(rows) => Intact(T))
      BY <1>2, <1>5, <3>1, RowAppended
    <3>3. Table(rows') /\ Keeps(T, rows') /\ (Intact(T) => Intact(rows'))
      BY <1>5, <2>2, <3>1, <3>2, RowAppended
    <3> QED BY <3>2, <3>3 DEF Keeps
  <2> QED BY <2>1, <2>2 DEF WatchLog
<1>7. \A l \in Loops : Underway(l)'
  <2>1. Underway("watch")'
    BY <1>1, <1>2, <1>3 DEF Underway, Loops
  <2>2. sweep'["verifier"] = sweep["verifier"] /\ "verifier" \in Loops
    BY <1>1, <1>2 DEF Loops
  <2> QED BY <1>2, <1>6, <2>1, <2>2, SweepsGrow DEF Loops
<1> QED BY <1>1, <1>2, <1>3, <1>4, <1>6, <1>7
      DEF VerifyInv, VerifyTypeOK, Whole, NoFalseAlarm, Loops

LEMMA VerifyStep == VerifyInv /\ [VerifyNext]_verifyVars => VerifyInv'
<1> SUFFICES ASSUME VerifyInv, [VerifyNext]_verifyVars PROVE VerifyInv'
  OBVIOUS
<1>1. Table(rows) /\ cursor \in Nat \ {0} /\ sweep \in [Loops -> SweepState]
  BY DEF VerifyInv, VerifyTypeOK
<1>2. LastSeq \in Nat /\ (LastSeq = 0 \/ LastSeq \in Seqs)
  BY <1>1, LastRow DEF LastSeq, Seqs
<1>3. CASE AppendRow
  <2>1. "written" \in Bodies /\ rows' = WithRow(rows, "written") /\ UNCHANGED <<damage, sweep, cursor>>
    BY <1>3 DEF AppendRow, Bodies
  <2> QED BY <1>1, <2>1, RowAppended, RowsGrow
<1>4. CASE VerifierTick
  <2>1. LastSeq \in Seqs /\ "verifier" \in Loops
    BY <1>2, <1>4 DEF VerifierTick, Loops
  <2> QED BY <1>2, <1>4, <2>1, BeginKept DEF VerifierTick
<1>5. CASE WatchTick
  <2>1. WatchEnd \in Nat /\ "watch" \in Loops
    BY <1>1, <1>2, VerifyAssumption DEF WatchEnd, VerifyAssumption, Loops
  <2> QED BY <1>1, <1>5, <2>1, BeginKept DEF WatchTick
<1>6. ASSUME NEW l \in Loops, Restart(l) PROVE VerifyInv'
  <2>1. Idle \in SweepState /\ Idle.state = "idle"
    BY DEF Idle, SweepState, NullHash, RowHashes
  <2>2. cursor' \in Nat \ {0} /\ UNCHANGED <<rows, damage>> /\ sweep' = [sweep EXCEPT ![l] = Idle]
    BY <1>1, <1>2, <1>6, VerifyAssumption DEF Restart, VerifyAssumption
  <2>3. sweep'[l] = Idle /\ \A k \in Loops \ {l} : sweep'[k] = sweep[k]
    BY <1>1, <2>2
  <2>4. VerifyTypeOK' /\ Whole'
    BY <2>1, <2>2 DEF VerifyInv, VerifyTypeOK, Whole, Intact, SoundIn
  <2>5. \A k \in Loops : Underway(k)'
    BY <2>1, <2>2, <2>3 DEF VerifyInv, Underway, SoundIn, Seqs
  <2>6. NoFalseAlarm'
    BY <2>1, <2>3 DEF VerifyInv, NoFalseAlarm, Loops
  <2> QED BY <2>4, <2>5, <2>6 DEF VerifyInv
<1>7. CASE UNCHANGED verifyVars
  BY <1>7, RowsGrow DEF verifyVars, VerifyInv, VerifyTypeOK, Keeps
<1> QED BY <1>3, <1>4, <1>5, <1>6, <1>7, DamageKept, SweepKept, WatchLogKept DEF VerifyNext

LEMMA VerifyKept == VerifySpec => []VerifyInv
<1> QED BY VerifyStarts, VerifyStep, PTL DEF VerifySpec

(* audit-verifier, main loop: a sweep of a chain that no one damaged never *)
(* reports a break, and counts every row it was asked for, whatever is     *)
(* appended between its batches.                                           *)
THEOREM NoFalseAlarms == VerifySpec => []NoFalseAlarm
<1>1. VerifyInv => NoFalseAlarm
  BY DEF VerifyInv
<1> QED BY <1>1, VerifyKept, PTL

(* HashChain.verify: when a sweep from row 1 answers, every row it counted *)
(* is there, links to the row before it and hashes to what it says; rows   *)
(* lost or rewritten before the sweep are never among them.                *)
THEOREM AnswersSound == VerifySpec => AnswerIsSound
<1>1. VerifyInv /\ [VerifyNext]_verifyVars =>
        [\A l \in Loops : Answers(l) => \A s \in 1..sweep'[l].verified : SoundRow(s)]_verifyVars
  <2> SUFFICES ASSUME VerifyInv, VerifyNext, NEW l \in Loops, Answers(l)
               PROVE  \A s \in 1..sweep'[l].verified : SoundRow(s)
    OBVIOUS
  <2>1. /\ sweep[l].state = "sweeping" /\ sweep[l].from = 1 /\ sweep'[l].state = "ok"
        /\ sweep \in [Loops -> SweepState]
    BY DEF Answers, VerifyInv, VerifyTypeOK
  <2>2. SweepBatch(l)
    <3>1. CASE AppendRow \/ \E d \in Seqs : Damage(d)
      BY <2>1, <3>1 DEF AppendRow, Damage
    <3>2. ASSUME NEW k \in Loops, NEW from, NEW to, Begin(k, from, to) PROVE FALSE
      BY <2>1, <3>2 DEF Begin
    <3>3. CASE WatchLog
      BY <2>1, <3>3 DEF WatchLog
    <3>4. ASSUME NEW k \in Loops, Restart(k) PROVE FALSE
      BY <2>1, <3>4 DEF Restart, Idle
    <3>5. ASSUME NEW k \in Loops, SweepBatch(k) PROVE k = l
      BY <2>1, <3>5 DEF SweepBatch
    <3> QED BY <3>1, <3>2, <3>3, <3>4, <3>5 DEF VerifyNext, VerifierTick, WatchTick, Loops
  <2>3. PICK w : w = sweep[l]
    OBVIOUS
  <2>4. BatchFine(w)
    BY <2>1, <2>2, <2>3 DEF SweepBatch, SweepState
  <2>5. sweep'[l].verified = w.verified + Cardinality(Batch(w))
    BY <2>1, <2>2, <2>3, <2>4 DEF SweepBatch, Advanced, SweepState
  <2>6. PICK n : n = Cardinality(Batch(w))
    OBVIOUS
  <2>7. \A s \in 1..(w.verified + n) : SoundIn(rows, s)
    BY <2>1, <2>3, <2>4, <2>6, BatchCounts
  <2> QED BY <2>5, <2>6, <2>7 DEF SoundRow, SoundIn, Seqs
<1> QED BY <1>1, VerifyKept, PTL DEF VerifySpec, AnswerIsSound
==============================================================================
