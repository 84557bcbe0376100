----------------------------- MODULE ChainVerify -----------------------------
(***************************************************************************)
(* HashChain.verify (packages/audit-chain) and the two loops that rely on  *)
(* it: audit-verifier sweeps the whole chain from row 1, worker-audit-     *)
(* watch the rows since its cursor.  A sweep reads the rows in batches, and*)
(* rows are appended meanwhile.  The chain may also be damaged between     *)
(* sweeps (a row lost, a body or a link rewritten): that is what the       *)
(* sweeps are there to notice.                                             *)
(*                                                                         *)
(* A hash is the sequence of the <<seq, body>> it covers; hashing is       *)
(* collision free.                                                         *)
(***************************************************************************)
EXTENDS Naturals, Sequences, FiniteSets

CONSTANTS
  BatchSize,  \* batchSize of verify
  Window,     \* AUDIT_WATCH_CHAIN_VERIFY_ROWS
  MaxSeq,     \* bound: rows appended
  MaxDamage   \* bound: times the chain is damaged

ASSUME VerifyAssumption ==
  /\ BatchSize \in Nat \ {0} /\ Window \in Nat \ {0}
  /\ MaxSeq \in Nat /\ MaxDamage \in Nat

VARIABLES
  rows,     \* audit.actions, by seq
  damage,   \* how much of the bound is spent
  sweep,    \* per loop, the verify call it is in, or the last one
  cursor    \* verifyCursor of worker-audit-watch

verifyVars == <<rows, damage, sweep, cursor>>

Loops == {"verifier", "watch"}

NullHash == << >>

RowHashOf(prev, seq, body) == Append(prev, <<seq, body>>)

Seqs == DOMAIN rows
LastOf(table) ==
  IF DOMAIN table = {} THEN 0
  ELSE CHOOSE s \in DOMAIN table : \A t \in DOMAIN table : t <= s
LastSeq == LastOf(rows)

RowAfter(prev, seq, body) ==
  [body |-> body, prev |-> prev, hash |-> RowHashOf(prev, seq, body)]

(* Rows with one more after the last. *)
WithRow(table, body) ==
  LET last == LastOf(table)
      prev == IF last = 0 THEN NullHash ELSE table[last].hash
  IN  [s \in DOMAIN table \union {last + 1} |->
         IF s = last + 1 THEN RowAfter(prev, s, body) ELSE table[s]]

Idle == [state |-> "idle", from |-> 1, to |-> 0, at |-> 1, prev |-> NullHash,
         expected |-> 1, verified |-> 0, clean |-> TRUE]

Sweeping == \E l \in Loops : sweep[l].state = "sweeping"

-----------------------------------------------------------------------------
VerifyInit ==
  /\ rows = [s \in {} |-> NullHash] /\ damage = 0
  /\ sweep = [l \in Loops |-> Idle]
  /\ cursor = 1

(* HashChain.append, by any service. *)
AppendRow ==
  /\ LastSeq < MaxSeq
  /\ rows' = WithRow(rows, "written")
  /\ UNCHANGED <<damage, sweep, cursor>>

(* A row is lost, or its body or its prev_hash rewritten. *)
Damage(s) ==
  /\ damage < MaxDamage /\ damage' = damage + 1
  /\ ~Sweeping
  /\ \/ rows' = [t \in Seqs \ {s} |-> rows[t]]
     \/ rows' = [rows EXCEPT ![s].body = "rewritten"]
     \/ rows' = [rows EXCEPT ![s].prev = RowHashOf(@, s, "rewritten")]
  /\ UNCHANGED <<sweep, cursor>>

(* verify(from, to): prev starts at null wherever the range starts. *)
Begin(l, from, to) ==
  sweep' = [sweep EXCEPT ![l] =
              [state |-> "sweeping", from |-> from, to |-> to, at |-> from,
               prev |-> NullHash, expected |-> from, verified |-> 0,
               clean |-> damage = 0]]

(* audit-verifier: verify(1, tail.seq). *)
VerifierTick ==
  /\ sweep["verifier"].state # "sweeping" /\ LastSeq > 0
  /\ Begin("verifier", 1, LastSeq)
  /\ UNCHANGED <<rows, damage, cursor>>

(* worker-audit-watch: the rows from its cursor, a window of them at most. *)
WatchEnd == IF LastSeq - cursor + 1 > Window THEN cursor + Window - 1 ELSE LastSeq

WatchTick ==
  /\ sweep["watch"].state \in {"idle", "logged"} /\ LastSeq >= cursor
  /\ Begin("watch", cursor, WatchEnd)
  /\ UNCHANGED <<rows, damage, cursor>>

-----------------------------------------------------------------------------
(* verify, one batch *)

BatchUpper(w) == IF w.at + BatchSize - 1 <= w.to THEN w.at + BatchSize - 1 ELSE w.to

Batch(w) == Seqs \intersect (w.at..BatchUpper(w))

(* The hash the row of seq s must follow. *)
PrevOf(w, s) == IF s = w.expected THEN w.prev ELSE rows[s - 1].hash

(* Mutant: the stored links are followed, never computed again. *)
BatchLinked(w) ==
  /\ Batch(w) = w.expected..(w.expected + Cardinality(Batch(w)) - 1)
  /\ \A s \in Batch(w) : rows[s].prev = PrevOf(w, s)

(* No row of the batch makes verify throw: no gap, and each row's hashes   *)
(* are those computed from the row before it.                              *)
BatchFine(w) ==
  /\ Batch(w) = w.expected..(w.expected + Cardinality(Batch(w)) - 1)
  /\ \A s \in Batch(w) :
       /\ rows[s].hash = RowHashOf(PrevOf(w, s), s, rows[s].body)
       /\ rows[s].prev = PrevOf(w, s)

(* Mutant: expected and prev are not carried over a batch boundary. *)
AdvancedFresh(w) ==
  [w EXCEPT !.at = BatchUpper(w) + 1, !.expected = BatchUpper(w) + 1, !.prev = NullHash,
            !.verified = @ + Cardinality(Batch(w))]

(* The call after a batch that is fine. *)
Advanced(w) ==
  [w EXCEPT !.at = BatchUpper(w) + 1,
            !.expected = @ + Cardinality(Batch(w)),
            !.prev = IF Batch(w) = {} THEN @
                     ELSE rows[w.expected + Cardinality(Batch(w)) - 1].hash,
            !.verified = @ + Cardinality(Batch(w))]

(* A batch with fewer rows than asked for ends the sweep. *)
LastBatch(w) == Cardinality(Batch(w)) < BatchSize \/ BatchUpper(w) = w.to

SweepBatch(l) ==
  LET w == sweep[l]
  IN  /\ w.state = "sweeping"
      /\ sweep' = [sweep EXCEPT ![l] =
           IF BatchFine(w)
             THEN [Advanced(w) EXCEPT !.state = IF LastBatch(w) THEN "ok" ELSE "sweeping"]
             ELSE [w EXCEPT !.state = "broken"]]
      /\ UNCHANGED <<rows, damage, cursor>>

(* The rest of the watch's tick: a clean sweep moves the cursor, a break    *)
(* is recorded as audit.hash_chain_break; every tick ends with a row       *)
(* audit.hash_chain_verified, a tick with no row to sweep included.        *)
WatchLog ==
  /\ LastSeq + 2 <= MaxSeq
  /\ \/ /\ sweep["watch"].state = "ok"
        /\ cursor' = sweep["watch"].to + 1
        /\ rows' = WithRow(rows, "verified")
     \/ /\ sweep["watch"].state = "broken"
        /\ rows' = WithRow(WithRow(rows, "break"), "verified")
        /\ UNCHANGED cursor
     \/ /\ sweep["watch"].state \in {"idle", "logged"} /\ LastSeq < cursor
        /\ rows' = WithRow(rows, "verified")
        /\ UNCHANGED cursor
  /\ sweep' = [sweep EXCEPT !["watch"].state = "logged"]
  /\ UNCHANGED damage

(* A loop's process is started again: the watch seeds its cursor from the  *)
(* tail.                                                                   *)
Restart(l) ==
  /\ sweep' = [sweep EXCEPT ![l] = Idle]
  /\ cursor' = IF l # "watch" THEN cursor
               ELSE IF LastSeq > Window THEN LastSeq - Window + 1 ELSE 1
  /\ UNCHANGED <<rows, damage>>

VerifyNext ==
  \/ AppendRow \/ VerifierTick \/ WatchTick \/ WatchLog
  \/ \E s \in Seqs : Damage(s)
  \/ \E l \in Loops : SweepBatch(l) \/ Restart(l)

VerifySpec == VerifyInit /\ [][VerifyNext]_verifyVars

-----------------------------------------------------------------------------
(* Row s is there, links to the row before it and hashes to what it says.  *)
SoundRow(s) ==
  LET prev == IF s = 1 THEN NullHash ELSE rows[s - 1].hash
  IN  /\ s \in Seqs /\ (s = 1 \/ s - 1 \in Seqs)
      /\ rows[s].prev = prev /\ rows[s].hash = RowHashOf(prev, s, rows[s].body)

(* A sweep from row 1 of a chain that was never damaged finds it whole,    *)
(* whatever is appended while it runs.                                     *)
NoFalseAlarm ==
  LET w == sweep["verifier"]
  IN  w.clean => /\ w.state # "broken"
                 /\ w.state = "ok" => w.verified = w.to

(* The step at which a sweep from row 1 answers. *)
Answers(l) == sweep[l].state = "sweeping" /\ sweep[l].from = 1 /\ sweep'[l].state = "ok"

(* "Sweep [from..to]; throw on first break": the rows a sweep has counted  *)
(* when it answers are sound ones.                                         *)
AnswerIsSound ==
  [][\A l \in Loops : Answers(l) => \A s \in 1..sweep'[l].verified : SoundRow(s)]_verifyVars

=============================================================================
