------------------------------ MODULE Anchoring ------------------------------
(***************************************************************************)
(* worker-anchor, which commits ranges of the audit chain to VIGILAnchor   *)
(* (its main loop) and single high-significance events to the same contract*)
(* (high-sig-loop.ts), through PolygonAnchor, the signer service that holds*)
(* the wallet, and the network's mempool.                                  *)
(*                                                                         *)
(* The signer answers with a hash once the transaction is broadcast: nobody*)
(* waits for it to be executed.  It serves one request at a time, also one *)
(* whose caller has given up, and takes the nonce from the transactions    *)
(* executed so far, so the network holds one transaction of a wallet at a  *)
(* time and refuses another.                                               *)
(*                                                                         *)
(* One worker runs (the compose file names its container).  A hash is the  *)
(* number of the broadcast.                                                *)
(***************************************************************************)
EXTENDS VIGILAnchor, FiniteSets

CONSTANTS
  HighSig,    \* events flagged high_significance
  Stamp,      \* their timestamps, in seconds
  MaxBatch,   \* MAX_ANCHOR_BATCH_SEQS
  MaxSeq,     \* bound: rows of the audit chain
  MaxTxs,     \* bound: transactions broadcast
  MaxFaults   \* bound: faults

(* A batch fits a commitment; a Unix time is far above any row number.     *)
ASSUME AnchorAssumption ==
  /\ MaxBatch \in 1..MaxRange
  /\ MaxSeq \in Nat /\ MaxTxs \in Nat /\ MaxFaults \in Nat
  /\ {"main", "nobody"} \intersect HighSig = {}
  /\ Stamp \in [HighSig -> Nat] /\ \A e \in HighSig : Stamp[e] > MaxSeq + 1

VARIABLES
  tail,      \* seq of the last row of audit.actions
  rows,      \* audit.anchor_commitment, in the order of insertion
  anchored,  \* per high-significance event, its chain_anchor_tx (0: null)
  public,    \* events with a row in audit.public_anchor
  txs,       \* transactions broadcast, in order
  queue,     \* requests at the signer's socket
  main,      \* what the main loop is at
  high,      \* what the high-significance loop is at
  wallet,    \* the wallet whose key the signer holds
  faults     \* how much of the bound is spent

workerVars == <<rows, anchored, public, main, high>>

vars == <<contractVars, tail, txs, queue, wallet, faults, workerVars>>

Callers == {"main"} \union HighSig

Idle == [step |-> "idle", from |-> 1, to |-> 0, tx |-> 0, event |-> "main"]

Fault == faults < MaxFaults /\ faults' = faults + 1

(* Mutant: only rows of transactions that did not revert count.            *)
LastConfirmed ==
  LET good == {i \in DOMAIN rows : txs[rows[i].tx].status # "reverted"}
  IN  IF good = {} THEN 0 ELSE rows[CHOOSE i \in good : \A j \in good : j <= i].to

(* SELECT MAX(seq_to) FROM audit.anchor_commitment: rows are inserted in   *)
(* the order of their ranges.                                              *)
LastAnchored == IF rows = << >> THEN 0 ELSE rows[Len(rows)].to

Init ==
  /\ ContractInit /\ wallet = committer
  /\ tail = 0 /\ rows = << >> /\ txs = << >> /\ queue = << >> /\ faults = 0
  /\ anchored = [e \in HighSig |-> 0] /\ public = {}
  /\ main = Idle /\ high = Idle

AppendRow ==
  /\ tail < MaxSeq /\ tail' = tail + 1
  /\ UNCHANGED <<contractVars, txs, queue, wallet, faults, workerVars>>

-----------------------------------------------------------------------------
(* The worker *)

(* commit() hands the range to the signer and waits at most 30 s.          *)
Request(for, from, to) ==
  queue' = Append(queue, [for |-> for, from |-> from, to |-> to, waits |-> for])

Sending(for, from, to) == [step |-> "sending", from |-> from, to |-> to, tx |-> 0, event |-> for]

Lesser(m, n) == IF m < n THEN m ELSE n

MainTick ==
  /\ main.step = "idle" /\ tail > LastAnchored
  /\ LET from == LastAnchored + 1
         to == Lesser(tail, from + MaxBatch - 1)
     IN  main' = Sending("main", from, to) /\ Request("main", from, to)
  /\ UNCHANGED <<contractVars, tail, txs, wallet, faults, rows, anchored, public, high>>

(* The row is inserted; a failed insert is caught and logged.              *)
InsertRow ==
  /\ main.step = "sent" /\ main' = Idle
  /\ \/ rows' = Append(rows, [from |-> main.from, to |-> main.to, tx |-> main.tx])
        /\ UNCHANGED faults
     \/ Fault /\ UNCHANGED rows
  /\ UNCHANGED <<contractVars, tail, txs, queue, wallet, anchored, public, high>>

(* Mutant: events that have a transaction are not left out.                *)
HighSigTickAgain(e) ==
  /\ high.step = "idle"
  /\ high' = Sending(e, Stamp[e], Stamp[e]) /\ Request(e, Stamp[e], Stamp[e])
  /\ UNCHANGED <<contractVars, tail, txs, wallet, faults, rows, anchored, public, main>>

(* An event of listPendingHighSig; its timestamp is the range.             *)
HighSigTick(e) ==
  /\ high.step = "idle" /\ anchored[e] = 0
  /\ high' = Sending(e, Stamp[e], Stamp[e]) /\ Request(e, Stamp[e], Stamp[e])
  /\ UNCHANGED <<contractVars, tail, txs, wallet, faults, rows, anchored, public, main>>

(* setAnchorTx; an error leaves the event pending.                         *)
SetAnchorTx ==
  /\ high.step = "sent"
  /\ \/ /\ anchored' = [anchored EXCEPT ![high.event] = high.tx]
        /\ high' = [high EXCEPT !.step = "anchored"] /\ UNCHANGED faults
     \/ Fault /\ high' = Idle /\ UNCHANGED anchored
  /\ UNCHANGED <<contractVars, tail, txs, queue, wallet, rows, public, main>>

(* publicAnchorRepo.record, whose failure is only logged.                  *)
RecordPublic ==
  /\ high.step = "anchored" /\ high' = Idle
  /\ \/ public' = public \union {high.event} /\ UNCHANGED faults
     \/ Fault /\ UNCHANGED public
  /\ UNCHANGED <<contractVars, tail, txs, queue, wallet, rows, anchored, main>>

(* The loop whose request this is, if it still waits, goes on with a hash  *)
(* or, commit() having thrown (0), gives the range up.                     *)
Answered(loop, tx) == IF tx = 0 THEN Idle ELSE [loop EXCEPT !.step = "sent", !.tx = tx]

Answer(r, tx) ==
  /\ main' = IF r.waits = "main" THEN Answered(main, tx) ELSE main
  /\ high' = IF r.waits \in HighSig THEN Answered(high, tx) ELSE high

(* The queue when these callers wait for their answers no longer.          *)
Abandoned(callers) ==
  [i \in 1..Len(queue) |->
     [queue[i] EXCEPT !.waits = IF @ \in callers THEN "nobody" ELSE @]]

(* The 30 s are over; the request is left with the signer.                 *)
Timeout ==
  /\ Fault
  /\ \/ /\ main.step = "sending" /\ main' = Idle
        /\ queue' = Abandoned({"main"}) /\ UNCHANGED high
     \/ /\ high.step = "sending" /\ high' = Idle
        /\ queue' = Abandoned(HighSig) /\ UNCHANGED main
  /\ UNCHANGED <<contractVars, tail, txs, wallet, rows, anchored, public>>

(* The worker stops wherever it is and is started again; the check of the  *)
(* cursors at its boot only logs.                                          *)
Crash ==
  /\ Fault
  /\ main # Idle \/ high # Idle
  /\ main' = Idle /\ high' = Idle
  /\ queue' = Abandoned(Callers)
  /\ UNCHANGED <<contractVars, tail, txs, wallet, rows, anchored, public>>

-----------------------------------------------------------------------------
(* The signer and the network *)

Pending == {i \in 1..Len(txs) : txs[i].status = "pending"}

(* _sign_and_send: whether the call would revert is never asked (a failed  *)
(* gas estimate is replaced by the ceiling).  The network may have taken   *)
(* the transaction and its answer be lost.                                 *)
Broadcast ==
  /\ queue # << >> /\ queue' = Tail(queue) /\ Len(txs) < MaxTxs
  /\ \A i \in Pending : txs[i].by # wallet
  /\ LET r == Head(queue)
     IN  /\ txs' = Append(txs, [for |-> r.for, from |-> r.from, to |-> r.to, by |-> wallet,
                                status |-> "pending"])
         /\ \/ Answer(r, Len(txs) + 1) /\ UNCHANGED faults
            \/ Fault /\ Answer(r, 0)
  /\ UNCHANGED <<contractVars, tail, wallet, rows, anchored, public>>

(* No key, no network, or the nonce is taken.                              *)
Refuse ==
  /\ queue # << >> /\ queue' = Tail(queue)
  /\ Answer(Head(queue), 0)
  /\ UNCHANGED <<contractVars, tail, txs, wallet, faults, rows, anchored, public>>

(* A transaction is executed: it commits, or it reverts.                   *)
Execute(i) ==
  /\ \/ /\ Commit(txs[i].by, txs[i].from, txs[i].to)
        /\ txs' = [txs EXCEPT ![i].status = "done"]
     \/ /\ ~CanCommit(txs[i].by, txs[i].from, txs[i].to)
        /\ txs' = [txs EXCEPT ![i].status = "reverted"] /\ UNCHANGED contractVars
  /\ UNCHANGED <<tail, queue, wallet, faults, workerVars>>

(* The network forgets a pending transaction.                              *)
Drop(i) ==
  /\ Fault /\ txs' = [txs EXCEPT ![i].status = "dropped"]
  /\ UNCHANGED <<contractVars, tail, queue, wallet, workerVars>>

(* rotateCommitter, and the signer given the key of the committer.         *)
Rotate(w) ==
  /\ Fault /\ RotateCommitter(w)
  /\ UNCHANGED <<tail, txs, queue, wallet, workerVars>>

ChangeKey ==
  /\ wallet # committer /\ wallet' = committer
  /\ UNCHANGED <<contractVars, tail, txs, queue, faults, workerVars>>

Next ==
  \/ AppendRow \/ MainTick \/ InsertRow \/ SetAnchorTx \/ RecordPublic
  \/ Timeout \/ Crash \/ Broadcast \/ Refuse \/ ChangeKey
  \/ \E e \in HighSig : HighSigTick(e)
  \/ \E i \in Pending : Execute(i) \/ Drop(i)
  \/ \E w \in Wallets : Rotate(w)

Spec == Init /\ [][Next]_vars

-----------------------------------------------------------------------------
Steps == {"idle", "sending", "sent", "anchored"}

LoopStates == [step : Steps, from : Nat, to : Nat, tx : Nat, event : Callers]

(* Types; whatever names a transaction, a row, an event or a loop, names   *)
(* one that was broadcast.                                                 *)
TypeOK ==
  /\ tail \in 0..MaxSeq /\ faults \in 0..MaxFaults
  /\ rows \in Seq([from : Nat, to : Nat, tx : Nat])
  /\ \A i \in 1..Len(rows) : rows[i].tx \in 1..Len(txs)
  /\ txs \in Seq([for : Callers, from : Nat, to : Nat, by : Wallets,
                  status : {"pending", "done", "reverted", "dropped"}])
  /\ queue \in Seq([for : Callers, from : Nat, to : Nat, waits : Callers \union {"nobody"}])
  /\ main \in LoopStates /\ high \in LoopStates
  /\ main.step = "sent" => main.tx \in 1..Len(txs)
  /\ high.step \in {"sent", "anchored"} => high.tx \in 1..Len(txs)
  /\ high.step # "idle" => high.event \in HighSig
  /\ anchored \in [HighSig -> Nat] /\ public \subseteq HighSig
  /\ \A e \in HighSig : anchored[e] \in {0} \union 1..Len(txs)
  /\ wallet \in Wallets /\ committer \in Wallets
  /\ commitments \in Seq([from : Nat, to : Nat, by : Wallets]) /\ lastToSeq \in Nat

(* The ranges on the chain are those of the rows, in their order, but for  *)
(* one: a commitment not in the table yet, or a last one that is shorter   *)
(* than its row, which another transaction of the same start beat.         *)
ChainFollowsRows ==
  /\ Len(commitments) <= Len(rows) + 1
  /\ \A i \in 1..Len(commitments) :
       i <= Len(rows) =>
         /\ commitments[i].from = rows[i].from /\ commitments[i].to <= rows[i].to
         /\ i < Len(commitments) => commitments[i].to = rows[i].to

(* The check at boot compares two numbers (index.ts 160): when they are    *)
(* equal, the table and the chain hold the same ranges.                    *)
Ranges(s) == [i \in DOMAIN s |-> <<s[i].from, s[i].to>>]

ReconciledMeansAgree == lastToSeq = LastAnchored => Ranges(commitments) = Ranges(rows)

(* A range (its start), and an event, is broadcast once, and once more at  *)
(* most for every fault: "the on-chain commit isn't duplicated".           *)
OneTxPerFault ==
  \A i \in 1..Len(txs) :
    Cardinality({j \in 1..Len(txs) : txs[j].for = txs[i].for /\ txs[j].from = txs[i].from})
      <= 1 + faults

(* "The loop below WILL keep trying and reverting until the reconciliation *)
(* is done": once the table is ahead of the chain and no transaction for   *)
(* the next range of the chain is under way, none ever is again.           *)
Wedged ==
  /\ lastToSeq < LastAnchored
  /\ \A i \in Pending : txs[i].from # lastToSeq + 1
  /\ \A i \in 1..Len(queue) : queue[i].from # lastToSeq + 1

StaysWedged == [][Wedged => Wedged' /\ UNCHANGED lastToSeq]_vars

=============================================================================
