------------------------------- MODULE AuditLog -------------------------------
(***************************************************************************)
(* The audit log: HashChain.append (packages/audit-chain) writes the       *)
(* global hash chain audit.actions; emitAudit (packages/audit-log) appends *)
(* to it and then adds a row to the acting user's own chain; the dashboard *)
(* performs the audited operation afterwards (withHaltOnFailure).          *)
(*                                                                         *)
(* Every emission is a concurrent call of one of several processes.  Each  *)
(* database transaction that a reader can come between is a step or, where *)
(* its isolation lets another in, several.  A hash is the sequence of      *)
(* events it covers: the hashing itself is collision free.                 *)
(***************************************************************************)
EXTENDS Naturals, Sequences, FiniteSets

CONSTANTS
  Events,       \* calls, named by the event they record
  Direct,       \* those that call HashChain.append alone
  Actors,       \* actor_id values
  ActorOf,      \* the actor of each event
  Known,        \* actors with a history when the model begins
  Earlier,      \* the latest event of a known actor, then
  None,         \* no event
  MaxAttempts,  \* attempts of an append
  MaxFaults     \* bound: transactions the connection loses

ASSUME AuditAssumption ==
  /\ Direct \subseteq Events /\ Known \subseteq Actors
  /\ ActorOf \in [Events -> Actors]
  /\ Earlier \notin Events /\ None \notin Events /\ Earlier # None
  /\ MaxAttempts \in Nat \ {0} /\ MaxFaults \in Nat

VARIABLES
  chain,     \* audit.actions: rows in the order of seq
  log,       \* audit.user_action_event: events with their prior event
  head,      \* audit.user_action_chain: each actor's latest event
  pc,        \* per call, the step it is at
  prior,     \* per call, the head it read before it appended
  seen,      \* per call, the tail its open append transaction read
  attempt,   \* per call, append attempts that failed
  lost,      \* per call, appends committed whose answer was lost
  performed, \* calls whose operation was performed
  faults     \* how much of the bound is spent

vars == <<chain, log, head, pc, prior, seen, attempt, lost, performed, faults>>

Steps == {"start", "append", "insert", "advance", "upsert", "done", "failed", "gone"}
Ended == {"done", "failed", "gone"}

Hashes == Seq(Events)
Null   == << >>                      \* prev_hash of the first row

RowHash(prev, e) == Append(prev, e)

TailHash(n) == IF n = 0 THEN Null ELSE chain[n].hash

-----------------------------------------------------------------------------
Init ==
  /\ chain = << >> /\ log = {}
  /\ head = [a \in Actors |-> IF a \in Known THEN Earlier ELSE None]
  /\ pc = [e \in Events |-> IF e \in Direct THEN "append" ELSE "start"]
  /\ prior = [e \in Events |-> None]
  /\ seen = [e \in Events |-> [seq |-> 0, hash |-> Null]]
  /\ attempt = [e \in Events |-> 0] /\ lost = [e \in Events |-> 0]
  /\ performed = {} /\ faults = 0

Goto(e, step) == pc' = [pc EXCEPT ![e] = step]

Fault == faults < MaxFaults /\ faults' = faults + 1

(* emitAudit, 1: the actor's head, read on its own, outside the            *)
(* transaction that later checks it.                                       *)
ReadHead(e) ==
  /\ pc[e] = "start"
  /\ prior' = [prior EXCEPT ![e] = head[ActorOf[e]]]
  /\ Goto(e, "append")
  /\ UNCHANGED <<chain, log, head, seen, attempt, lost, performed, faults>>

-----------------------------------------------------------------------------
(* HashChain.append *)

(* BEGIN SERIALIZABLE and the SELECT of the tail, which fixes the snapshot. *)
ReadTail(e) ==
  /\ pc[e] = "append"
  /\ seen' = [seen EXCEPT ![e] = [seq |-> Len(chain), hash |-> TailHash(Len(chain))]]
  /\ Goto(e, "insert")
  /\ UNCHANGED <<chain, log, head, prior, attempt, lost, performed, faults>>

(* The row an append builds from the tail it read. *)
RowOf(e) == [event |-> e, prev |-> seen[e].hash, hash |-> RowHash(seen[e].hash, e)]

(* Mutant: READ COMMITTED, and a seq the database hands out. *)
ReadCommitted(e) == e \in Events

(* COMMIT succeeds unless another append committed since the snapshot. *)
Serializable(e) == seen[e].seq = Len(chain)

(* Mutant: the loop does not return after its COMMIT. *)
InsertLoops(e) ==
  /\ pc[e] = "insert" /\ Serializable(e)
  /\ chain' = Append(chain, RowOf(e))
  /\ Goto(e, "append")
  /\ UNCHANGED <<log, head, prior, seen, attempt, lost, performed, faults>>

InsertCommits(e) ==
  /\ pc[e] = "insert" /\ Serializable(e)
  /\ chain' = Append(chain, RowOf(e))
  /\ Goto(e, IF e \in Direct THEN "done" ELSE "advance")
  /\ UNCHANGED <<log, head, prior, seen, attempt, lost, performed, faults>>

(* An attempt that throws: roll back, then try again or give up. *)
NextAttempt(e) ==
  /\ attempt' = [attempt EXCEPT ![e] = @ + 1]
  /\ Goto(e, IF attempt[e] + 1 < MaxAttempts THEN "append" ELSE "failed")

InsertConflicts(e) ==
  /\ pc[e] = "insert" /\ ~Serializable(e)
  /\ NextAttempt(e)
  /\ UNCHANGED <<chain, log, head, prior, seen, lost, performed, faults>>

AppendFails(e) ==
  /\ pc[e] \in {"append", "insert"} /\ Fault
  /\ NextAttempt(e)
  /\ UNCHANGED <<chain, log, head, prior, seen, lost, performed>>

(* COMMIT takes effect, its answer does not arrive: the next attempt has a *)
(* fresh id and appends the event again.                                   *)
InsertAnswerLost(e) ==
  /\ pc[e] = "insert" /\ Serializable(e) /\ Fault
  /\ chain' = Append(chain, RowOf(e))
  /\ lost' = [lost EXCEPT ![e] = @ + 1]
  /\ NextAttempt(e)
  /\ UNCHANGED <<log, head, prior, seen, performed>>

-----------------------------------------------------------------------------
(* insertAndAdvanceChain *)

(* The insert of the event and the upsert of its actor's head. *)
WriteEvent(e) ==
  /\ log' = log \union {[id |-> e, prior |-> prior[e]]}
  /\ head' = [head EXCEPT ![ActorOf[e]] = e]

(* Mutant: the head is advanced without comparing it with prior_event_id. *)
AdvanceUnchecked(e) ==
  /\ pc[e] = "advance" /\ head[ActorOf[e]] # None
  /\ WriteEvent(e) /\ Goto(e, "done")
  /\ UNCHANGED <<chain, prior, seen, attempt, lost, performed, faults>>

(* The actor's head row exists: SELECT FOR UPDATE locks it to the end of   *)
(* the transaction, so comparing and advancing are one step.               *)
Advance(e) ==
  /\ pc[e] = "advance" /\ head[ActorOf[e]] # None
  /\ head[ActorOf[e]] = prior[e]
  /\ WriteEvent(e) /\ Goto(e, "done")
  /\ UNCHANGED <<chain, prior, seen, attempt, lost, performed, faults>>

CasFails(e) ==
  /\ pc[e] = "advance" /\ head[ActorOf[e]] # prior[e]
  /\ Goto(e, "failed")
  /\ UNCHANGED <<chain, log, head, prior, seen, attempt, lost, performed, faults>>

(* There is no head row: FOR UPDATE locks nothing, and a concurrent first  *)
(* event of the actor finds none either ...                                *)
FindNoHead(e) ==
  /\ pc[e] = "advance" /\ head[ActorOf[e]] = None /\ prior[e] = None
  /\ Goto(e, "upsert")
  /\ UNCHANGED <<chain, log, head, prior, seen, attempt, lost, performed, faults>>

(* ... and ON CONFLICT DO UPDATE overwrites whichever came first. *)
Upsert(e) ==
  /\ pc[e] = "upsert"
  /\ WriteEvent(e) /\ Goto(e, "done")
  /\ UNCHANGED <<chain, prior, seen, attempt, lost, performed, faults>>

(* The transaction fails, or it commits and its answer is lost. *)
AdvanceFails(e) ==
  /\ pc[e] \in {"advance", "upsert"} /\ Fault
  /\ Goto(e, "failed")
  /\ UNCHANGED <<chain, log, head, prior, seen, attempt, lost, performed>>

AdvanceAnswerLost(e) ==
  /\ \/ pc[e] = "advance" /\ head[ActorOf[e]] # None /\ head[ActorOf[e]] = prior[e]
     \/ pc[e] = "upsert"
  /\ Fault
  /\ WriteEvent(e) /\ Goto(e, "failed")
  /\ UNCHANGED <<chain, prior, seen, attempt, lost, performed>>

-----------------------------------------------------------------------------
(* Mutant: the operation runs whatever became of the emission. *)
PerformRegardless(e) ==
  /\ pc[e] \in {"done", "failed"} /\ e \notin Direct \union performed
  /\ performed' = performed \union {e}
  /\ UNCHANGED <<chain, log, head, pc, prior, seen, attempt, lost, faults>>

(* withHaltOnFailure: the operation runs only if emitAudit resolved. *)
Perform(e) ==
  /\ pc[e] = "done" /\ e \notin Direct \union performed
  /\ performed' = performed \union {e}
  /\ UNCHANGED <<chain, log, head, pc, prior, seen, attempt, lost, faults>>

(* The calling process dies: an open transaction rolls back. *)
Crash(e) ==
  /\ pc[e] \notin Ended /\ Fault
  /\ Goto(e, "gone")
  /\ UNCHANGED <<chain, log, head, prior, seen, attempt, lost, performed>>

Next ==
  \E e \in Events :
    \/ ReadHead(e)
    \/ ReadTail(e) \/ InsertCommits(e) \/ InsertConflicts(e)
    \/ AppendFails(e) \/ InsertAnswerLost(e)
    \/ Advance(e) \/ CasFails(e) \/ FindNoHead(e) \/ Upsert(e)
    \/ AdvanceFails(e) \/ AdvanceAnswerLost(e)
    \/ Perform(e) \/ Crash(e)

Spec == Init /\ [][Next]_vars

-----------------------------------------------------------------------------
Rows == [event : Events, prev : Hashes, hash : Hashes]

(* Types of the tables and of the calls; an append never tries more often  *)
(* than it is allowed to.                                                  *)
TypeOK ==
  /\ chain \in Seq(Rows)
  /\ log \subseteq [id : Events, prior : Events \union {Earlier, None}]
  /\ head \in [Actors -> Events \union {Earlier, None}]
  /\ pc \in [Events -> Steps]
  /\ prior \in [Events -> Events \union {Earlier, None}]
  /\ seen \in [Events -> [seq : Nat, hash : Hashes]]
  /\ attempt \in [Events -> 0..MaxAttempts] /\ lost \in [Events -> Nat]
  /\ performed \subseteq Events /\ faults \in Nat

(* The hash chain: every row holds the hash of the row before it and its   *)
(* own hash over that one, however appends overlap, fail and repeat.       *)
ChainLinked ==
  \A i \in 1..Len(chain) :
    /\ chain[i].prev = TailHash(i - 1)
    /\ chain[i].hash = RowHash(chain[i].prev, chain[i].event)

(* What makes ChainLinked inductive: an open append still has the hash of  *)
(* the row it took for the tail.                                           *)
TailSeen ==
  \A e \in Events :
    pc[e] = "insert" => /\ seen[e].seq <= Len(chain)
                        /\ seen[e].hash = TailHash(seen[e].seq)

(* Rows of the global chain that record the event. *)
RowsOf(e) == {i \in 1..Len(chain) : chain[i].event = e}

Logged(e) == \E r \in log : r.id = e

(* A call that tries again has a row only per commit it never heard of,    *)
(* one whose event reached its actor's chain exactly one more.             *)
RowPerCommit ==
  \A e \in Events :
    LET rows == Cardinality(RowsOf(e))
    IN  /\ rows \in lost[e]..(lost[e] + 1)
        /\ pc[e] \in {"start", "append", "insert"} => rows = lost[e]
        /\ Logged(e) => rows = lost[e] + 1

(* "No dark periods": no operation is performed whose event is missing     *)
(* from the global chain or from its actor's chain.                        *)
NoDarkPeriod ==
  \A e \in performed : RowsOf(e) # {} /\ Logged(e)

(* The compare-and-set on the head: two events of an actor never name the  *)
(* same prior event.                                                       *)
NoFork ==
  \A r, s \in log :
    ActorOf[r.id] = ActorOf[s.id] /\ r.prior = s.prior /\ r.prior # None => r = s

(* (db-postgres audit-log.ts 45) "the repo refuses to write if the         *)
(* prior_event_id does not match the current actor-chain head (CAS)":      *)
(* walking an actor's chain back from its head meets every event of it.    *)
PriorOf(e) == (CHOOSE r \in log : r.id = e).prior

LoggedIds == {r.id : r \in log}

Recorded(a) ==
  LET Before[e \in LoggedIds \union {Earlier, None}] ==
        IF e \in LoggedIds THEN Append(Before[PriorOf(e)], e) ELSE << >>
  IN  Before[head[a]]

HeadReachesAll ==
  \A r \in log : \E i \in 1..Len(Recorded(ActorOf[r.id])) : Recorded(ActorOf[r.id])[i] = r.id

(* The emitter implements the histories it promises. *)
Promise == INSTANCE ActorHistories WITH history <- [a \in Actors |-> Recorded(a)]

LinearHistory == Promise!Spec
=============================================================================
