--------------------------- MODULE AnchoringProofs ---------------------------
(***************************************************************************)
(* Proofs about VIGILAnchor, whoever calls it, and about Anchoring, for any*)
(* number of rows, transactions, events and faults: what table and chain   *)
(* may differ in, how often a range is sent, and that the two together     *)
(* implement the contract.                                                 *)
(***************************************************************************)
EXTENDS Anchoring, FiniteSetTheorems, FunctionTheorems, TLAPS

USE ContractAssumption, AnchorAssumption DEF ContractAssumption, AnchorAssumption

(***************************************************************************)
(* The contract.                                                           *)
(***************************************************************************)
ContractType ==
  /\ commitments \in Seq([from : Nat, to : Nat, by : Wallets])
  /\ lastToSeq \in Nat /\ committer \in Wallets

(* One more commitment, by whichever wallet and of whichever range, keeps  *)
(* the contract's list a division of 1..lastToSeq.                         *)
LEMMA CommitKeepsCoverage ==
  ASSUME ContractType, Coverage, NEW w \in Wallets, NEW from \in Nat, NEW to \in Nat,
         Commit(w, from, to)
  PROVE  ContractType' /\ Coverage'
<1> DEFINE n == Len(commitments)
           c == [from |-> from, to |-> to, by |-> w]
<1>1. n \in Nat /\ c \in [from : Nat, to : Nat, by : Wallets]
  BY DEF ContractType
<1>2. /\ commitments' = Append(commitments, c) /\ lastToSeq' = to /\ UNCHANGED committer
      /\ from <= to /\ to - from + 1 <= MaxRange
      /\ IF commitments = << >> THEN from = 1 ELSE from = lastToSeq + 1
  BY DEF Commit, CanCommit, ContiguousRange
<1>3. ContractType'
  BY <1>1, <1>2 DEF ContractType
<1>4. /\ Len(commitments') = n + 1 /\ commitments'[n + 1] = c
      /\ \A i \in 1..n : commitments'[i] = commitments[i]
  BY <1>1, <1>2 DEF ContractType
<1>5. commitments = << >> <=> n = 0
  BY DEF ContractType
<1>6. c.from = from /\ c.to = to
  OBVIOUS
<1>7. from = (IF n = 0 THEN 1 ELSE commitments[n].to + 1)
  BY <1>2, <1>5 DEF Coverage
<1>8. \A i \in 1..n : i - 1 \in 1..n \/ i = 1
  BY <1>1
<1> HIDE DEF n, c
<1>9. ASSUME NEW i \in 1..(n + 1)
      PROVE  /\ commitments'[i].from = (IF i = 1 THEN 1 ELSE commitments'[i - 1].to + 1)
             /\ commitments'[i].to \in commitments'[i].from..(commitments'[i].from + MaxRange - 1)
  <2>1. CASE i = n + 1
    <3>1. commitments'[i].from = from /\ commitments'[i].to = to
      BY <2>1, <1>4, <1>6
    <3>2. i # 1 => i - 1 = n /\ n \in 1..n /\ n # 0
      BY <2>1, <1>1
    <3>3. i # 1 => commitments'[i - 1] = commitments[n]
      BY <3>2, <1>4
    <3>4. i = 1 <=> n = 0
      BY <2>1, <1>1
    <3>5. to \in from..(from + MaxRange - 1)
      BY <1>2
    <3> QED BY <3>1, <3>3, <3>4, <3>5, <1>7
  <2>2. CASE i \in 1..n
    BY <2>2, <1>4, <1>8 DEF Coverage, n
  <2> QED BY <2>1, <2>2, <1>1
<1>10. commitments' # << >>
  BY <1>4, <1>1
<1> QED BY <1>2, <1>3, <1>4, <1>6, <1>9, <1>10 DEF Coverage

(* Whatever wallets call it with, the commitments of the contract divide   *)
(* the rows up to lastToSeq: none is covered twice, none is left out.      *)
THEOREM ContractCoverage == ContractSpec => [](ContractType /\ Coverage)
<1>1. ContractInit => ContractType /\ Coverage
  BY DEF ContractInit, ContractType, Coverage
<1>2. ContractType /\ Coverage /\ [ContractNext]_contractVars => ContractType' /\ Coverage'
  <2> SUFFICES ASSUME ContractType, Coverage, [ContractNext]_contractVars
               PROVE  ContractType' /\ Coverage'
    OBVIOUS
  <2>1. ASSUME NEW w \in Wallets, RotateCommitter(w) PROVE ContractType' /\ Coverage'
    BY <2>1 DEF RotateCommitter, ContractType, Coverage
  <2>2. CASE UNCHANGED contractVars
    BY <2>2 DEF contractVars, ContractType, Coverage
  <2> QED BY <2>1, <2>2, CommitKeepsCoverage DEF ContractNext
<1> QED BY <1>1, <1>2, PTL DEF ContractSpec

(***************************************************************************)
(* Type correctness.                                                       *)
(***************************************************************************)
Requests == [for : Callers, from : Nat, to : Nat, waits : Callers \union {"nobody"}]

Txs == [for : Callers, from : Nat, to : Nat, by : Wallets,
        status : {"pending", "done", "reverted", "dropped"}]

LEMMA ElementOfSeq ==
  ASSUME NEW S, NEW s \in Seq(S), NEW i \in 1..Len(s)
  PROVE  s[i] \in S
OBVIOUS

LEMMA AppendParts ==
  ASSUME NEW S, NEW s \in Seq(S), NEW x \in S
  PROVE  /\ Append(s, x) \in Seq(S) /\ Append(s, x) # << >>
         /\ Len(s) \in Nat /\ Len(Append(s, x)) = Len(s) + 1
         /\ Append(s, x)[Len(s) + 1] = x
         /\ \A i \in 1..Len(s) : Append(s, x)[i] = s[i]
OBVIOUS

LEMMA LastOfSeq ==
  ASSUME NEW S, NEW s \in Seq(S), s # << >>
  PROVE  Len(s) \in 1..Len(s) /\ s[Len(s)] \in S
OBVIOUS

LEMMA IdleType == Idle \in LoopStates /\ Idle.step = "idle"
BY DEF Idle, LoopStates, Steps, Callers

(* The queue keeps its type, its length and its ranges when callers leave. *)
LEMMA AbandonedType ==
  ASSUME queue \in Seq(Requests), NEW callers
  PROVE  /\ Abandoned(callers) \in Seq(Requests) /\ Len(Abandoned(callers)) = Len(queue)
         /\ \A i \in 1..Len(queue) :
              /\ Abandoned(callers)[i].from = queue[i].from
              /\ Abandoned(callers)[i].to = queue[i].to
              /\ Abandoned(callers)[i].waits =
                   (IF queue[i].waits \in callers THEN "nobody" ELSE queue[i].waits)
<1>1. ASSUME NEW i \in 1..Len(queue)
      PROVE  [queue[i] EXCEPT !.waits = IF @ \in callers THEN "nobody" ELSE @] \in Requests
  <2>1. queue[i] \in Requests
    OBVIOUS
  <2> QED BY <2>1 DEF Requests
<1>2. Abandoned(callers) \in Seq(Requests) /\ Len(Abandoned(callers)) = Len(queue)
  BY <1>1 DEF Abandoned
<1>3. ASSUME NEW i \in 1..Len(queue)
      PROVE  /\ Abandoned(callers)[i].from = queue[i].from
             /\ Abandoned(callers)[i].to = queue[i].to
             /\ Abandoned(callers)[i].waits =
                  (IF queue[i].waits \in callers THEN "nobody" ELSE queue[i].waits)
  <2>1. queue[i] \in Requests
    OBVIOUS
  <2>2. Abandoned(callers)[i] = [queue[i] EXCEPT !.waits = IF @ \in callers THEN "nobody" ELSE @]
    BY DEF Abandoned
  <2> QED BY <2>1, <2>2 DEF Requests
<1> QED BY <1>2, <1>3

(* What the rows and the loops know of transactions stays so as they grow. *)
TxsKnown ==
  /\ \A i \in 1..Len(rows) : rows[i].tx \in 1..Len(txs)
  /\ main.step = "sent" => main.tx \in 1..Len(txs)
  /\ high.step \in {"sent", "anchored"} => high.tx \in 1..Len(txs)
  /\ high.step # "idle" => high.event \in HighSig
  /\ \A e \in HighSig : anchored[e] \in {0} \union 1..Len(txs)

LEMMA TypeParts ==
  TypeOK <=>
    /\ TxsKnown /\ ContractType /\ queue \in Seq(Requests) /\ txs \in Seq(Txs)
    /\ tail \in 0..MaxSeq /\ faults \in 0..MaxFaults /\ wallet \in Wallets
    /\ rows \in Seq([from : Nat, to : Nat, tx : Nat])
    /\ main \in LoopStates /\ high \in LoopStates
    /\ anchored \in [HighSig -> Nat] /\ public \subseteq HighSig
BY DEF TypeOK, TxsKnown, ContractType, Requests, Txs

(* A loop that is answered. *)
LEMMA AnsweredType ==
  ASSUME NEW loop \in LoopStates, NEW tx \in Nat
  PROVE  /\ Answered(loop, tx) \in LoopStates
         /\ Answered(loop, tx).step = (IF tx = 0 THEN "idle" ELSE "sent")
         /\ tx # 0 => Answered(loop, tx).tx = tx /\ Answered(loop, tx).event = loop.event /\ Answered(loop, tx).from = loop.from
                      /\ Answered(loop, tx).to = loop.to
<1>1. [loop EXCEPT !.step = "sent", !.tx = tx] \in LoopStates
  BY DEF LoopStates, Steps
<1> QED BY <1>1, IdleType DEF Answered, LoopStates

LEMMA SendingType ==
  ASSUME NEW for \in Callers, NEW from \in Nat, NEW to \in Nat
  PROVE  Sending(for, from, to) \in LoopStates /\ Sending(for, from, to).step = "sending"
         /\ Sending(for, from, to).event = for
         /\ Sending(for, from, to).from = from /\ Sending(for, from, to).to = to
BY DEF Sending, LoopStates, Steps

LEMMA RequestType ==
  ASSUME queue \in Seq(Requests), NEW for \in Callers, NEW from \in Nat, NEW to \in Nat,
         Request(for, from, to)
  PROVE  queue' \in Seq(Requests)
<1>1. [for |-> for, from |-> from, to |-> to, waits |-> for] \in Requests
  BY DEF Requests
<1> QED BY <1>1 DEF Request

(* The range of the next batch. *)
LEMMA NextRange ==
  ASSUME TypeOK, tail > LastAnchored
  PROVE  /\ LastAnchored \in Nat
         /\ Lesser(tail, LastAnchored + 1 + MaxBatch - 1) \in (LastAnchored + 1)..tail
<1>1. LastAnchored \in Nat
  <2>1. CASE rows = << >>
    BY <2>1 DEF LastAnchored
  <2>2. CASE rows # << >>
    <3>1. rows \in Seq([from : Nat, to : Nat, tx : Nat])
      BY TypeParts
    <3>2. rows[Len(rows)] \in [from : Nat, to : Nat, tx : Nat]
      BY <3>1, <2>2, LastOfSeq
    <3> QED BY <2>2, <3>2 DEF LastAnchored
  <2> QED BY <2>1, <2>2
<1> QED BY <1>1 DEF Lesser, TypeOK

(* A request is answered: with a hash of a transaction there is, or none.  *)
LEMMA AnswerType ==
  ASSUME TypeOK, NEW r, NEW tx \in Nat, Answer(r, tx), tx = 0 \/ tx \in 1..Len(txs'),
         Len(txs') >= Len(txs),
         UNCHANGED <<contractVars, tail, wallet, rows, anchored, public>>,
         queue' \in Seq(Requests), txs' \in Seq(Txs), faults' \in 0..MaxFaults,
         r.waits \in HighSig => high.step = "sending"
  PROVE  TypeOK'
<1>1. main \in LoopStates /\ high \in LoopStates /\ txs \in Seq(Txs)
  BY TypeParts
<1>2. main' \in LoopStates /\ high' \in LoopStates
  BY <1>1, AnsweredType DEF Answer
<1>3. Len(txs) \in Nat /\ Len(txs') \in Nat /\ 1..Len(txs) \subseteq 1..Len(txs')
  BY <1>1
<1>4. main'.step = "sent" => main'.tx \in 1..Len(txs')
  <2>1. CASE main' = main
    BY <2>1, <1>3 DEF TypeOK
  <2>2. CASE main' = Answered(main, tx)
    BY <2>2, <1>1, AnsweredType
  <2> QED BY <2>1, <2>2 DEF Answer
<1>5. /\ high'.step \in {"sent", "anchored"} => high'.tx \in 1..Len(txs')
      /\ high'.step # "idle" => high'.event \in HighSig
  <2>1. CASE high' = high
    BY <2>1, <1>3 DEF TypeOK
  <2>2. CASE high' = Answered(high, tx) /\ high.step = "sending"
    <3>1. high.event \in HighSig
      BY <2>2 DEF TypeOK
    <3>2. /\ Answered(high, tx).step = (IF tx = 0 THEN "idle" ELSE "sent")
          /\ tx # 0 => Answered(high, tx).tx = tx /\ Answered(high, tx).event = high.event
      BY <1>1, AnsweredType
    <3>3. CASE tx = 0
      BY <2>2, <3>2, <3>3
    <3>4. CASE tx # 0
      BY <2>2, <3>1, <3>2, <3>4
    <3> QED BY <3>3, <3>4
  <2> QED BY <2>1, <2>2 DEF Answer
<1>6. TxsKnown'
  BY <1>3, <1>4, <1>5 DEF TxsKnown, TypeOK
<1> QED BY <1>2, <1>6 DEF contractVars, TypeOK, TxsKnown, Requests, Txs

(* A request waited for is the only one of its loop, which is sending it.  *)
Waiting ==
  /\ \A i \in 1..Len(queue) : queue[i].waits = "main" => main.step = "sending"
  /\ \A i \in 1..Len(queue) : queue[i].waits \in HighSig => high.step = "sending"
  /\ \A i, j \in 1..Len(queue) : queue[i].waits = "main" /\ queue[j].waits = "main" => i = j
  /\ \A i, j \in 1..Len(queue) : queue[i].waits \in HighSig /\ queue[j].waits \in HighSig => i = j

LEMMA AnswerWaiting ==
  ASSUME TypeOK, Waiting, queue # << >>, NEW tx \in Nat, Answer(Head(queue), tx),
         queue' = Tail(queue)
  PROVE  Waiting' /\ (Head(queue).waits \in HighSig => high.step = "sending")
<1>1. queue \in Seq(Requests) /\ 1 \in 1..Len(queue) /\ Head(queue) = queue[1]
  BY TypeParts
<1>2. /\ Len(queue') = Len(queue) - 1
      /\ \A i \in 1..Len(queue') : i + 1 \in 1..Len(queue) /\ queue'[i] = queue[i + 1]
  BY <1>1
<1>3. ASSUME NEW i \in 1..Len(queue'), queue'[i].waits = "main" PROVE main'.step = "sending"
  <2>1. i + 1 \in 1..Len(queue) /\ queue[i + 1].waits = "main" /\ i + 1 # 1
    BY <1>2, <1>3
  <2>2. queue[1].waits # "main"
    BY <2>1, <1>1 DEF Waiting
  <2> QED BY <2>1, <2>2, <1>1 DEF Answer, Waiting
<1>4. ASSUME NEW i \in 1..Len(queue'), queue'[i].waits \in HighSig PROVE high'.step = "sending"
  <2>1. i + 1 \in 1..Len(queue) /\ queue[i + 1].waits \in HighSig /\ i + 1 # 1
    BY <1>2, <1>4
  <2>2. queue[1].waits \notin HighSig
    BY <2>1, <1>1 DEF Waiting
  <2> QED BY <2>1, <2>2, <1>1 DEF Answer, Waiting
<1>5. ASSUME NEW i \in 1..Len(queue'), NEW j \in 1..Len(queue'),
             \/ queue'[i].waits = "main" /\ queue'[j].waits = "main"
             \/ queue'[i].waits \in HighSig /\ queue'[j].waits \in HighSig
      PROVE  i = j
  <2>1. i + 1 = j + 1
    BY <1>2, <1>5 DEF Waiting
  <2> QED BY <2>1
<1> QED BY <1>1, <1>3, <1>4, <1>5 DEF Waiting

LEMMA AbandonedWaiting ==
  ASSUME TypeOK, Waiting, NEW callers, queue' = Abandoned(callers),
         "main" \in callers \/ main' = main, HighSig \subseteq callers \/ high' = high
  PROVE  Waiting'
<1>1. queue \in Seq(Requests)
  BY TypeParts
<1>2. /\ Len(queue') = Len(queue)
      /\ \A i \in 1..Len(queue) :
           queue'[i].waits = (IF queue[i].waits \in callers THEN "nobody" ELSE queue[i].waits)
  BY <1>1, AbandonedType
<1>3. "nobody" \notin HighSig
  OBVIOUS
<1>4. \A i \in 1..Len(queue) :
        /\ queue'[i].waits = "main" => queue[i].waits = "main" /\ main' = main
        /\ queue'[i].waits \in HighSig => queue[i].waits \in HighSig /\ high' = high
  BY <1>2, <1>3
<1> QED BY <1>2, <1>4 DEF Waiting

(* The status of a transaction changes. *)
LEMMA StatusType ==
  ASSUME TypeOK, NEW i \in Pending, NEW status \in {"done", "reverted", "dropped"},
         txs' = [txs EXCEPT ![i].status = status]
  PROVE  /\ txs' \in Seq(Txs) /\ Len(txs') = Len(txs)
         /\ \A j \in 1..Len(txs) : txs'[j].from = txs[j].from /\ txs'[j].to = txs[j].to
<1>1. txs \in Seq(Txs) /\ i \in 1..Len(txs)
  BY TypeParts DEF Pending
<1>2. txs[i] \in Txs
  BY <1>1
<1>3. [txs[i] EXCEPT !.status = status] \in Txs
      /\ [txs[i] EXCEPT !.status = status].from = txs[i].from
      /\ [txs[i] EXCEPT !.status = status].to = txs[i].to
  BY <1>2 DEF Txs
<1>4. txs' = [txs EXCEPT ![i] = [txs[i] EXCEPT !.status = status]]
  OBVIOUS
<1> QED BY <1>1, <1>3, <1>4

LEMMA RequestWaiting ==
  ASSUME TypeOK, Waiting, NEW for \in Callers, NEW from \in Nat, NEW to \in Nat,
         Request(for, from, to),
         \/ for = "main" /\ main.step = "idle" /\ main'.step = "sending" /\ high' = high
         \/ for \in HighSig /\ high.step = "idle" /\ high'.step = "sending" /\ main' = main
  PROVE  Waiting'
<1> DEFINE r == [for |-> for, from |-> from, to |-> to, waits |-> for]
<1>1. r \in Requests /\ r.waits = for /\ queue \in Seq(Requests)
  BY TypeParts DEF Requests
<1>2. queue' = Append(queue, r)
  BY DEF Request
<1> HIDE DEF r
<1>3. /\ Len(queue) \in Nat /\ Len(queue') = Len(queue) + 1 /\ queue'[Len(queue) + 1] = r
      /\ \A i \in 1..Len(queue) : queue'[i] = queue[i]
      /\ \A i \in 1..Len(queue') : i \in 1..Len(queue) \/ i = Len(queue) + 1
  BY <1>1, <1>2
<1>4. "main" \notin HighSig
  OBVIOUS
<1>5. CASE for = "main" /\ main.step = "idle" /\ main'.step = "sending" /\ high' = high
  <2>1. \A i \in 1..Len(queue) : queue[i].waits # "main"
    BY <1>5 DEF Waiting
  <2> QED BY <2>1, <1>1, <1>3, <1>4, <1>5 DEF Waiting
<1>6. CASE for \in HighSig /\ high.step = "idle" /\ high'.step = "sending" /\ main' = main
  <2>1. \A i \in 1..Len(queue) : queue[i].waits \notin HighSig
    BY <1>6 DEF Waiting
  <2> QED BY <2>1, <1>1, <1>3, <1>4, <1>6 DEF Waiting
<1> QED BY <1>5, <1>6

(* The tables, the loops, the signer's queue and the mempool keep to their *)
(* types, and a request is waited for by the loop that sent it.            *)
THEOREM TypeCorrect == Spec => [](TypeOK /\ Waiting)
<1>1. Init => TypeOK /\ Waiting
  BY IdleType DEF Init, TypeOK, ContractInit, Waiting
<1>2. TypeOK /\ Waiting /\ [Next]_vars => TypeOK' /\ Waiting'
  <2> SUFFICES ASSUME TypeOK, Waiting, [Next]_vars PROVE TypeOK' /\ Waiting'
    OBVIOUS
  <2> USE DEF workerVars, contractVars
  <2>0. /\ queue \in Seq(Requests) /\ txs \in Seq(Txs) /\ main \in LoopStates /\ high \in LoopStates
        /\ faults \in 0..MaxFaults /\ (Fault => faults' \in 0..MaxFaults)
    BY TypeParts DEF Fault
  <2>1. CASE AppendRow
    BY <2>1 DEF AppendRow, TypeOK, Waiting
  <2>2. CASE MainTick
    <3> DEFINE from == LastAnchored + 1
               to == Lesser(tail, from + MaxBatch - 1)
    <3>1. from \in Nat /\ to \in Nat /\ "main" \in Callers
      BY <2>2, NextRange DEF MainTick, Callers, TypeOK
    <3>2. main' = Sending("main", from, to) /\ Request("main", from, to)
      BY <2>2 DEF MainTick
    <3> HIDE DEF from, to
    <3>3. main' \in LoopStates /\ main'.step = "sending" /\ queue' \in Seq(Requests)
      BY <2>0, <3>1, <3>2, SendingType, RequestType
    <3>4. Waiting'
      BY <2>2, <3>1, <3>2, <3>3, RequestWaiting DEF MainTick
    <3> QED BY <2>2, <3>3, <3>4 DEF MainTick, TypeOK, Requests
  <2>3. CASE InsertRow
    <3>0. Waiting'
      BY <2>3 DEF InsertRow, Waiting
    <3>1. CASE Fault /\ UNCHANGED rows
      BY <2>3, <3>0, <3>1, <2>0, IdleType DEF InsertRow, TypeOK
    <3>2. CASE rows' = Append(rows, [from |-> main.from, to |-> main.to, tx |-> main.tx]) /\ UNCHANGED faults
      <4>1. [from |-> main.from, to |-> main.to, tx |-> main.tx] \in [from : Nat, to : Nat, tx : Nat]
        BY <2>0 DEF LoopStates
      <4>2. rows' \in Seq([from : Nat, to : Nat, tx : Nat])
        BY <3>2, <4>1 DEF TypeOK
      <4>3. ASSUME NEW i \in 1..Len(rows') PROVE rows'[i].tx \in 1..Len(txs)
        <5>1. /\ rows \in Seq([from : Nat, to : Nat, tx : Nat])
              /\ main.tx \in 1..Len(txs) /\ \A j \in 1..Len(rows) : rows[j].tx \in 1..Len(txs)
          BY <2>3 DEF InsertRow, TypeOK
        <5>2. /\ Len(rows) \in Nat /\ Len(rows') = Len(rows) + 1
              /\ rows'[Len(rows) + 1] = [from |-> main.from, to |-> main.to, tx |-> main.tx]
              /\ \A j \in 1..Len(rows) : rows'[j] = rows[j]
          BY <5>1, <4>1, <3>2, AppendParts
        <5>3. i = Len(rows) + 1 \/ i \in 1..Len(rows)
          BY <5>2
        <5>4. CASE i = Len(rows) + 1
          BY <5>1, <5>2, <5>4
        <5>5. CASE i \in 1..Len(rows)
          <6>1. rows'[i] = rows[i] /\ rows[i].tx \in 1..Len(txs)
            BY <5>1, <5>2, <5>5
          <6> QED BY <6>1
        <5> QED BY <5>3, <5>4, <5>5
      <4> QED BY <2>3, <3>0, <3>2, <4>2, <4>3, IdleType DEF InsertRow, TypeOK
    <3> QED BY <2>3, <3>0, <3>1, <3>2 DEF InsertRow
  <2>4. CASE SetAnchorTx
    <3>0. Waiting'
      BY <2>4 DEF SetAnchorTx, Waiting
    <3>1. [high EXCEPT !.step = "anchored"] \in LoopStates
      BY <2>0 DEF LoopStates, Steps
    <3>2. [high EXCEPT !.step = "anchored"].tx = high.tx
          /\ [high EXCEPT !.step = "anchored"].event = high.event
          /\ [high EXCEPT !.step = "anchored"].step = "anchored"
      BY <2>0 DEF LoopStates
    <3>3. CASE Fault /\ high' = Idle /\ UNCHANGED anchored
      BY <2>4, <3>0, <3>3, <2>0, IdleType DEF SetAnchorTx, TypeOK
    <3>4. CASE anchored' = [anchored EXCEPT ![high.event] = high.tx]
               /\ high' = [high EXCEPT !.step = "anchored"] /\ UNCHANGED faults
      <4>1. high.tx \in Nat /\ high.tx \in 1..Len(txs)
        BY <2>4, <2>0 DEF SetAnchorTx, TypeOK, LoopStates
      <4>2. anchored' \in [HighSig -> Nat] /\ \A e \in HighSig : anchored'[e] \in {0} \union 1..Len(txs)
        BY <3>4, <4>1 DEF TypeOK
      <4> QED BY <2>4, <3>0, <3>1, <3>2, <3>4, <4>1, <4>2 DEF SetAnchorTx, TypeOK
    <3> QED BY <2>4, <3>3, <3>4 DEF SetAnchorTx
  <2>5. CASE RecordPublic
    <3>1. public' \subseteq HighSig
      BY <2>5 DEF RecordPublic, TypeOK
    <3> QED BY <2>5, <3>1, <2>0, IdleType DEF RecordPublic, TypeOK, Waiting
  <2>6. CASE Timeout
    <3>1. \A callers : Abandoned(callers) \in Seq(Requests)
      BY <2>0, AbandonedType
    <3>2. TypeOK'
      BY <2>6, <2>0, <3>1, IdleType DEF Timeout, TypeOK, Requests
    <3>3. Waiting'
      BY <2>6, AbandonedWaiting DEF Timeout
    <3> QED BY <3>2, <3>3
  <2>7. CASE Crash
    <3>1. Abandoned(Callers) \in Seq(Requests)
      BY <2>0, AbandonedType
    <3>2. Waiting'
      BY <2>7, AbandonedWaiting DEF Crash, Callers
    <3> QED BY <2>7, <2>0, <3>1, <3>2, IdleType DEF Crash, TypeOK, Requests
  <2>8. CASE Broadcast
    <3> DEFINE r == Head(queue)
               t == [for |-> r.for, from |-> r.from, to |-> r.to, by |-> wallet, status |-> "pending"]
    <3>1. r \in Requests /\ Tail(queue) \in Seq(Requests)
      BY <2>8, <2>0 DEF Broadcast
    <3>2. t \in Txs
      BY <3>1 DEF Txs, Requests, TypeOK
    <3>3. txs' = Append(txs, t) /\ queue' = Tail(queue)
      BY <2>8 DEF Broadcast
    <3> HIDE DEF t
    <3>4. txs' \in Seq(Txs) /\ Len(txs') = Len(txs) + 1 /\ Len(txs) \in Nat
      BY <2>0, <3>2, <3>3
    <3>7. \A tx \in Nat : Answer(r, tx) => Waiting' /\ (r.waits \in HighSig => high.step = "sending")
      BY <2>8, AnswerWaiting DEF Broadcast
    <3>8. (Answer(r, Len(txs) + 1) /\ UNCHANGED faults) \/ (Fault /\ Answer(r, 0))
      BY <2>8 DEF Broadcast
    <3> HIDE DEF r
    <3>5. CASE Answer(r, Len(txs) + 1) /\ UNCHANGED faults
      <4>1. Len(txs) + 1 \in Nat /\ Len(txs) + 1 # 0 /\ Len(txs) + 1 \in 1..Len(txs')
        BY <3>4
      <4>2. queue' \in Seq(Requests) /\ Len(txs') >= Len(txs) /\ faults' \in 0..MaxFaults
            /\ UNCHANGED <<contractVars, tail, wallet, rows, anchored, public>>
        BY <2>8, <2>0, <3>1, <3>3, <3>4, <3>5 DEF Broadcast
      <4>3. Waiting' /\ (r.waits \in HighSig => high.step = "sending")
        BY <3>5, <3>7, <4>1
      <4> QED BY <3>4, <3>5, <4>1, <4>2, <4>3, AnswerType
    <3>6. CASE Fault /\ Answer(r, 0)
      <4>2. queue' \in Seq(Requests) /\ Len(txs') >= Len(txs) /\ faults' \in 0..MaxFaults
            /\ UNCHANGED <<contractVars, tail, wallet, rows, anchored, public>>
        BY <2>8, <2>0, <3>1, <3>3, <3>4, <3>6 DEF Broadcast
      <4>3. Waiting' /\ (r.waits \in HighSig => high.step = "sending")
        BY <3>6, <3>7
      <4> QED BY <3>4, <3>6, <4>2, <4>3, AnswerType
    <3> QED BY <3>5, <3>6, <3>8
  <2>9. CASE Refuse
    <3>1. Tail(queue) \in Seq(Requests)
      BY <2>9, <2>0 DEF Refuse
    <3>2. Waiting' /\ (Head(queue).waits \in HighSig => high.step = "sending")
      BY <2>9, AnswerWaiting DEF Refuse
    <3> QED BY <2>9, <2>0, <3>1, <3>2, AnswerType DEF Refuse
  <2>10. CASE ChangeKey
    BY <2>10 DEF ChangeKey, TypeOK, Waiting
  <2>11. ASSUME NEW e \in HighSig, HighSigTick(e) PROVE TypeOK' /\ Waiting'
    <3>1. e \in Callers /\ Stamp[e] \in Nat
      BY DEF Callers
    <3>2. /\ high' \in LoopStates /\ high'.step = "sending" /\ high'.event = e
          /\ queue' \in Seq(Requests)
      BY <2>0, <2>11, <3>1, SendingType, RequestType DEF HighSigTick
    <3>3. Waiting'
      BY <2>11, <3>1, <3>2, RequestWaiting DEF HighSigTick
    <3> QED BY <2>11, <3>2, <3>3 DEF HighSigTick, TypeOK, Requests
  <2>12. ASSUME NEW i \in Pending, Execute(i) PROVE TypeOK' /\ Waiting'
    <3>1. txs' \in Seq(Txs) /\ Len(txs') = Len(txs)
      BY <2>12, StatusType DEF Execute
    <3>2. ContractType'
      <4>1. CASE Commit(txs[i].by, txs[i].from, txs[i].to)
        <5>1. ContractType /\ i \in 1..Len(txs)
          BY TypeParts DEF Pending
        <5>2. txs[i] \in Txs
          BY <5>1, <2>0
        <5>3. [from |-> txs[i].from, to |-> txs[i].to, by |-> txs[i].by] \in [from : Nat, to : Nat, by : Wallets]
              /\ txs[i].to \in Nat
          BY <5>2 DEF Txs
        <5> QED BY <4>1, <5>1, <5>3 DEF Commit, ContractType
      <4>2. CASE UNCHANGED contractVars
        BY <4>2, TypeParts DEF ContractType
      <4> QED BY <2>12, <4>1, <4>2 DEF Execute
    <3>3. Waiting' /\ TxsKnown'
      BY <2>12, <3>1, TypeParts DEF Execute, Waiting, TxsKnown
    <3> QED BY <2>12, <3>1, <3>2, <3>3 DEF Execute, TypeOK, TxsKnown, ContractType, Txs
  <2>13. ASSUME NEW i \in Pending, Drop(i) PROVE TypeOK' /\ Waiting'
    <3>1. txs' \in Seq(Txs) /\ Len(txs') = Len(txs)
      BY <2>13, StatusType DEF Drop
    <3>3. Waiting'
      BY <2>13 DEF Drop, Waiting
    <3> QED BY <2>13, <2>0, <3>1, <3>3 DEF Drop, TypeOK, Txs
  <2>14. ASSUME NEW w \in Wallets, Rotate(w) PROVE TypeOK' /\ Waiting'
    BY <2>14, <2>0 DEF Rotate, RotateCommitter, TypeOK, Waiting
  <2>15. CASE UNCHANGED vars
    BY <2>15 DEF vars, TypeOK, Waiting
  <2> QED BY <2>1, <2>2, <2>3, <2>4, <2>5, <2>6, <2>7, <2>8, <2>9, <2>10, <2>11, <2>12, <2>13,
             <2>14, <2>15 DEF Next
<1> QED BY <1>1, <1>2, PTL DEF Spec

(***************************************************************************)
(* The chain follows the rows.                                             *)
(*                                                                         *)
(* A range of the main loop starts where a row ends.  Of the ranges formed *)
(* with one start, the row is written for the longest: the tail only grows,*)
(* and the row is that of the last one formed.  So a commitment that is    *)
(* shorter than its row ends inside it, where no range ever starts, and the*)
(* chain stays there.                                                      *)
(***************************************************************************)
Start(n) == n = 1 \/ \E k \in 1..Len(rows) : n = rows[k].to + 1

Formed(from, to) ==
  /\ Start(from) /\ from <= to /\ to <= tail /\ to <= from + MaxBatch - 1
  /\ \A k \in 1..Len(rows) : rows[k].from = from => to <= rows[k].to
  /\ main.step # "idle" /\ main.from = from => to <= main.to

Sent(from, to) == from > MaxSeq + 1 \/ Formed(from, to)

RowsDivide ==
  /\ \A k \in 1..Len(rows) :
       /\ rows[k].from = (IF k = 1 THEN 1 ELSE rows[k - 1].to + 1)
       /\ rows[k].from <= rows[k].to /\ rows[k].to <= tail
  /\ \A j, k \in 1..Len(rows) : j < k => rows[j].to < rows[k].from

MainNext ==
  main.step # "idle" =>
    main.from = LastAnchored + 1 /\ main.from <= main.to /\ main.to <= tail

QueueSent == \A i \in 1..Len(queue) : Sent(queue[i].from, queue[i].to)
TxsSent == \A i \in 1..Len(txs) : Sent(txs[i].from, txs[i].to)
CommitmentsFormed == \A i \in 1..Len(commitments) : Formed(commitments[i].from, commitments[i].to)

FollowInv ==
  /\ Coverage /\ ChainFollowsRows /\ RowsDivide /\ MainNext
  /\ QueueSent /\ TxsSent /\ CommitmentsFormed

(* What was formed stays formed. *)
Kept == \A from, to \in Nat : Formed(from, to) => Formed(from, to)'

RowTypes ==
  /\ rows \in Seq([from : Nat, to : Nat, tx : Nat]) /\ Len(rows) \in Nat
  /\ \A k \in 1..Len(rows) : rows[k].from \in Nat /\ rows[k].to \in Nat
  /\ LastAnchored = (IF Len(rows) = 0 THEN 0 ELSE rows[Len(rows)].to) /\ LastAnchored \in Nat
  /\ tail \in Nat /\ main.from \in Nat /\ main.to \in Nat

LEMMA RowFacts == ASSUME TypeOK PROVE RowTypes
<1>1. rows \in Seq([from : Nat, to : Nat, tx : Nat]) /\ main \in LoopStates /\ tail \in 0..MaxSeq
  BY TypeParts
<1>2. \A k \in 1..Len(rows) : rows[k] \in [from : Nat, to : Nat, tx : Nat]
  BY <1>1, ElementOfSeq
<1>3. Len(rows) \in Nat /\ (rows = << >> <=> Len(rows) = 0)
  BY <1>1
<1>4. \A k \in 1..Len(rows) : rows[k].from \in Nat /\ rows[k].to \in Nat
  BY <1>2
<1> QED BY <1>1, <1>3, <1>4 DEF RowTypes, LastAnchored, LoopStates

(* The last row is the one that ends last, and no row starts after it. *)
LEMMA LastRow ==
  ASSUME RowTypes, RowsDivide
  PROVE  \A k \in 1..Len(rows) : rows[k].to <= LastAnchored /\ rows[k].from <= LastAnchored
<1> SUFFICES ASSUME NEW k \in 1..Len(rows)
             PROVE  rows[k].to <= LastAnchored /\ rows[k].from <= LastAnchored
  OBVIOUS
<1>1. Len(rows) \in 1..Len(rows) /\ LastAnchored = rows[Len(rows)].to
  BY DEF RowTypes
<1>2. rows[k].from <= rows[k].to /\ rows[Len(rows)].from <= rows[Len(rows)].to
  BY <1>1 DEF RowsDivide
<1>3. /\ rows[k].from \in Nat /\ rows[k].to \in Nat
      /\ rows[Len(rows)].from \in Nat /\ rows[Len(rows)].to \in Nat
  BY <1>1 DEF RowTypes
<1>4. k < Len(rows) => rows[k].to < rows[Len(rows)].from
  BY <1>1 DEF RowsDivide
<1> QED BY <1>1, <1>2, <1>3, <1>4

(* A step that leaves the rows and the tail alone, and what the main loop  *)
(* sends if it goes on.                                                    *)
LEMMA SameRows ==
  ASSUME RowsDivide, MainNext, RowTypes, UNCHANGED <<rows, tail>>,
         \/ main' = main \/ main'.step = "idle"
         \/ main.step # "idle" /\ main'.from = main.from /\ main'.to = main.to
  PROVE  Kept /\ RowsDivide' /\ MainNext'
<1>1. Kept
  BY DEF Kept, Formed, Start
<1> QED BY <1>1 DEF RowsDivide, MainNext, LastAnchored

LEMMA LongerTail ==
  ASSUME RowsDivide, MainNext, RowTypes, UNCHANGED <<rows, main>>, tail' = tail + 1
  PROVE  Kept /\ RowsDivide' /\ MainNext'
<1>1. tail \in Nat
  BY DEF RowTypes
<1>2. \A n \in Nat : n <= tail => n <= tail + 1
  BY <1>1
<1>3. Kept
  BY <1>1, <1>2 DEF Kept, Formed, Start
<1>4. RowsDivide'
  BY <1>2 DEF RowsDivide, RowTypes
<1>5. MainNext'
  BY <1>2 DEF MainNext, LastAnchored, RowTypes
<1> QED BY <1>3, <1>4, <1>5

LEMMA NextFormed ==
  ASSUME RowsDivide, MainNext, RowTypes, UNCHANGED <<rows, tail>>, tail > LastAnchored,
         main'.from = LastAnchored + 1, main'.step = "sending",
         main'.to = Lesser(tail, LastAnchored + 1 + MaxBatch - 1)
  PROVE  Kept /\ RowsDivide' /\ MainNext' /\ Formed(main.from, main.to)'
<1> DEFINE from == LastAnchored + 1
           to == Lesser(tail, from + MaxBatch - 1)
<1>0. LastAnchored \in Nat /\ tail \in Nat /\ MaxBatch \in Nat /\ MaxBatch >= 1
  BY DEF RowTypes
<1>1. /\ from \in Nat /\ to \in Nat /\ from <= to /\ to <= tail /\ to <= from + MaxBatch - 1
      /\ \A n \in Nat : n <= tail /\ n <= from + MaxBatch - 1 => n <= to
  BY <1>0 DEF Lesser
<1>2. main'.from = from /\ main'.to = to
  OBVIOUS
<1>3. Start(from)
  <2>1. CASE Len(rows) = 0
    BY <2>1 DEF Start, RowTypes
  <2>2. CASE Len(rows) # 0
    <3>1. Len(rows) \in 1..Len(rows) /\ from = rows[Len(rows)].to + 1
      BY <2>2 DEF RowTypes
    <3> QED BY <3>1 DEF Start
  <2> QED BY <2>1, <2>2
<1>4. ASSUME NEW k \in 1..Len(rows) PROVE rows[k].from # from
  <2>1. rows[k].from <= LastAnchored /\ rows[k].from \in Nat
    BY LastRow DEF RowTypes
  <2> QED BY <2>1, <1>0
<1> HIDE DEF from, to
<1>5. Kept
  <2> SUFFICES ASSUME NEW f \in Nat, NEW t \in Nat, Formed(f, t) PROVE Formed(f, t)'
    BY DEF Kept
  <2>1. main'.from = f => t <= main'.to
    BY <1>1, <1>2 DEF Formed
  <2> QED BY <2>1 DEF Formed, Start
<1>6. Formed(main.from, main.to)'
  BY <1>1, <1>2, <1>3, <1>4 DEF Formed, Start
<1>7. RowsDivide'
  BY DEF RowsDivide
<1>8. MainNext'
  BY <1>1, <1>2 DEF MainNext, LastAnchored, from
<1> QED BY <1>5, <1>6, <1>7, <1>8

(* The row of the range the main loop sent is inserted. *)
LEMMA RowInserted ==
  ASSUME RowsDivide, MainNext, RowTypes, main.step = "sent", main' = Idle, UNCHANGED tail,
         rows' = Append(rows, [from |-> main.from, to |-> main.to, tx |-> main.tx]),
         [from |-> main.from, to |-> main.to, tx |-> main.tx] \in [from : Nat, to : Nat, tx : Nat]
  PROVE  /\ Kept /\ RowsDivide' /\ MainNext'
         /\ Len(rows') = Len(rows) + 1 /\ \A k \in 1..Len(rows) : rows'[k] = rows[k]
         /\ rows'[Len(rows) + 1].from = main.from /\ rows'[Len(rows) + 1].to = main.to
<1> DEFINE n == Len(rows)
           r == [from |-> main.from, to |-> main.to, tx |-> main.tx]
<1>1. r.from = main.from /\ r.to = main.to
  OBVIOUS
<1>2. /\ n \in Nat /\ Len(rows') = n + 1 /\ rows'[n + 1] = r
      /\ \A k \in 1..n : rows'[k] = rows[k]
  BY DEF RowTypes
<1>3. /\ main.from = LastAnchored + 1 /\ main.from <= main.to /\ main.to <= tail
      /\ main.from \in Nat /\ main.to \in Nat /\ LastAnchored \in Nat
  BY DEF MainNext, RowTypes
<1> HIDE DEF r
<1>4. \A k \in 1..(n + 1) : k \in 1..n \/ k = n + 1
  BY <1>2
<1>5. n + 1 \in 1..(n + 1) /\ \A k \in 1..n : k \in 1..(n + 1)
  BY <1>2
<1>6. Kept
  <2> SUFFICES ASSUME NEW f \in Nat, NEW t \in Nat, Formed(f, t) PROVE Formed(f, t)'
    BY DEF Kept
  <2>1. Start(f)'
    <3>1. CASE f = 1
      BY <3>1 DEF Start
    <3>2. ASSUME NEW k \in 1..n, f = rows[k].to + 1 PROVE Start(f)'
      BY <3>2, <1>2, <1>5 DEF Start
    <3> QED BY <3>1, <3>2 DEF Formed, Start
  <2>2. ASSUME NEW k \in 1..Len(rows'), rows'[k].from = f PROVE t <= rows'[k].to
    <3>1. CASE k \in 1..n
      BY <3>1, <2>2, <1>2 DEF Formed
    <3>2. CASE k = n + 1
      BY <3>2, <2>2, <1>1, <1>2 DEF Formed
    <3> QED BY <3>1, <3>2, <2>2, <1>2, <1>4
  <2> QED BY <2>1, <2>2, IdleType DEF Formed
<1>7. RowsDivide'
  <2> SUFFICES /\ \A k \in 1..Len(rows') :
                    /\ rows'[k].from = (IF k = 1 THEN 1 ELSE rows'[k - 1].to + 1)
                    /\ rows'[k].from <= rows'[k].to /\ rows'[k].to <= tail
               /\ \A j, k \in 1..Len(rows') : j < k => rows'[j].to < rows'[k].from
    BY DEF RowsDivide
  <2>1. ASSUME NEW k \in 1..n
        PROVE  /\ rows'[k].from = (IF k = 1 THEN 1 ELSE rows'[k - 1].to + 1)
               /\ rows'[k].from <= rows'[k].to /\ rows'[k].to <= tail
    <3>1. k = 1 \/ k - 1 \in 1..n
      BY <1>2
    <3> QED BY <3>1, <1>2 DEF RowsDivide
  <2>2. /\ rows'[n + 1].from = (IF n + 1 = 1 THEN 1 ELSE rows'[n + 1 - 1].to + 1)
        /\ rows'[n + 1].from <= rows'[n + 1].to /\ rows'[n + 1].to <= tail
    <3>1. n + 1 - 1 = n /\ (n + 1 = 1 <=> n = 0) /\ (n # 0 => n \in 1..n)
      BY <1>2
    <3>2. LastAnchored = (IF n = 0 THEN 0 ELSE rows[n].to)
      BY DEF RowTypes
    <3>3. n # 0 => rows'[n].to = LastAnchored
      BY <3>1, <3>2, <1>2
    <3>4. rows'[n + 1].from = main.from /\ rows'[n + 1].to = main.to
      BY <1>1, <1>2
    <3>5. n = 0 => main.from = 1
      BY <3>2, <1>3
    <3> HIDE DEF n
    <3> QED BY <3>1, <3>3, <3>4, <3>5, <1>3
  <2>3. ASSUME NEW j \in 1..(n + 1), NEW k \in 1..(n + 1), j < k
        PROVE  rows'[j].to < rows'[k].from
    <3>1. CASE k \in 1..n
      <4>1. j \in 1..n
        BY <3>1, <2>3, <1>2
      <4> QED BY <3>1, <4>1, <2>3, <1>2 DEF RowsDivide
    <3>2. CASE k = n + 1
      <4>1. j \in 1..n
        BY <3>2, <2>3, <1>2
      <4>2. rows[j].to <= LastAnchored /\ rows[j].to \in Nat
        BY <4>1, LastRow DEF RowTypes
      <4> QED BY <3>2, <4>1, <4>2, <1>1, <1>2, <1>3
    <3> QED BY <3>1, <3>2, <1>4
  <2> QED BY <2>1, <2>2, <2>3, <1>2, <1>4
<1>8. MainNext'
  BY IdleType DEF MainNext
<1> QED BY <1>1, <1>2, <1>6, <1>7, <1>8

(* The chain at a new row: what is committed beyond the rows starts with   *)
(* the range just sent.                                                    *)
LEMMA InsertFollows ==
  ASSUME RowTypes, ContractType, Coverage, ChainFollowsRows, MainNext, CommitmentsFormed,
         main.step = "sent", UNCHANGED commitments,
         Len(rows') = Len(rows) + 1, \A k \in 1..Len(rows) : rows'[k] = rows[k],
         rows'[Len(rows) + 1].from = main.from, rows'[Len(rows) + 1].to = main.to
  PROVE  ChainFollowsRows'
<1> DEFINE n == Len(rows)
           m == Len(commitments)
<1>1. n \in Nat /\ m \in Nat /\ Len(rows') = n + 1 /\ m <= n + 1
  BY DEF RowTypes, ContractType, ChainFollowsRows
<1>2. main.from = LastAnchored + 1 /\ LastAnchored = (IF n = 0 THEN 0 ELSE rows[n].to)
  BY DEF MainNext, RowTypes
<1>3. ASSUME m = n + 1
      PROVE  commitments[m].from = main.from /\ commitments[m].to <= main.to
  <2>1. m \in 1..m /\ commitments[m].from = (IF m = 1 THEN 1 ELSE commitments[m - 1].to + 1)
    BY <1>1, <1>3 DEF Coverage
  <2>2. commitments[m].from = main.from
    <3>1. CASE n = 0
      BY <3>1, <2>1, <1>1, <1>2, <1>3
    <3>2. CASE n # 0
      <4>1. m - 1 = n /\ n \in 1..m /\ n <= Len(rows) /\ n < m /\ m # 1
        BY <3>2, <1>1, <1>3
      <4>2. commitments[n].to = rows[n].to
        BY <4>1 DEF ChainFollowsRows
      <4> QED BY <4>1, <4>2, <2>1, <1>2, <3>2
    <3> QED BY <3>1, <3>2
  <2>3. commitments[m].to <= main.to
    BY <2>1, <2>2 DEF CommitmentsFormed, Formed
  <2> QED BY <2>2, <2>3
<1>4. ASSUME NEW i \in 1..m, i <= n + 1
      PROVE  /\ commitments[i].from = rows'[i].from /\ commitments[i].to <= rows'[i].to
             /\ i < m => commitments[i].to = rows'[i].to
  <2>1. CASE i <= n
    <3>1. i \in 1..n
      BY <2>1, <1>1
    <3> QED BY <3>1, <2>1 DEF ChainFollowsRows
  <2>2. CASE i = n + 1
    <3>1. m = n + 1 /\ i = m
      BY <2>2, <1>1
    <3> QED BY <3>1, <2>2, <1>3
  <2> QED BY <2>1, <2>2, <1>1
<1> QED BY <1>1, <1>4 DEF ChainFollowsRows

(* A commitment is added: where the last one ends a row ends too, or the   *)
(* new range would start inside a row.                                     *)
LEMMA CommitFollows ==
  ASSUME RowTypes, ContractType, Coverage, ChainFollowsRows, RowsDivide,
         NEW w \in Wallets, NEW from \in Nat, NEW to \in Nat,
         Commit(w, from, to), Formed(from, to), UNCHANGED rows
  PROVE  ChainFollowsRows'
<1> DEFINE n == Len(rows)
           m == Len(commitments)
           c == [from |-> from, to |-> to, by |-> w]
<1>1. /\ n \in Nat /\ m \in Nat /\ c \in [from : Nat, to : Nat, by : Wallets]
      /\ c.from = from /\ c.to = to
  BY DEF RowTypes, ContractType
<1>2. /\ Len(commitments') = m + 1 /\ commitments'[m + 1] = c
      /\ \A i \in 1..m : commitments'[i] = commitments[i]
  BY <1>1 DEF Commit, ContractType
<1>3. from = (IF m = 0 THEN 1 ELSE commitments[m].to + 1)
  <2>1. IF commitments = << >> THEN from = 1 ELSE from = lastToSeq + 1
    BY DEF Commit, CanCommit, ContiguousRange
  <2>2. commitments = << >> <=> m = 0
    BY DEF ContractType
  <2> QED BY <2>1, <2>2 DEF Coverage
<1>4. m # 0 => /\ m \in 1..m /\ commitments[m].from \in Nat /\ commitments[m].to \in Nat
               /\ commitments[m].from = (IF m = 1 THEN 1 ELSE commitments[m - 1].to + 1)
               /\ commitments[m].from <= commitments[m].to
  <2> SUFFICES ASSUME m # 0
               PROVE  /\ m \in 1..m /\ commitments[m].from \in Nat /\ commitments[m].to \in Nat
                      /\ commitments[m].from = (IF m = 1 THEN 1 ELSE commitments[m - 1].to + 1)
                      /\ commitments[m].from <= commitments[m].to
    OBVIOUS
  <2>1. m \in 1..m
    BY <1>1
  <2>2. commitments[m] \in [from : Nat, to : Nat, by : Wallets]
    BY <2>1, ElementOfSeq DEF ContractType
  <2>3. /\ commitments[m].from = (IF m = 1 THEN 1 ELSE commitments[m - 1].to + 1)
        /\ commitments[m].to \in commitments[m].from..(commitments[m].from + MaxRange - 1)
    BY <2>1 DEF Coverage
  <2> QED BY <2>1, <2>2, <2>3
<1>5. ASSUME NEW k \in 1..n
      PROVE  /\ rows[k].from \in Nat /\ rows[k].to \in Nat /\ rows[k].to <= LastAnchored
             /\ rows[k].from <= rows[k].to
             /\ rows[k].from = (IF k = 1 THEN 1 ELSE rows[k - 1].to + 1)
             /\ \A j \in 1..n : j < k => rows[j].to < rows[k].from
  BY LastRow DEF RowTypes, RowsDivide
<1> HIDE DEF c
<1>6. m <= n
  <2> SUFFICES ASSUME m = n + 1 PROVE FALSE
    BY <1>1 DEF ChainFollowsRows
  <2>1. from = commitments[m].to + 1 /\ m # 0
    BY <1>1, <1>3
  <2>2. commitments[m].from = LastAnchored + 1
    <3>1. CASE n = 0
      BY <3>1, <1>4, <1>1 DEF RowTypes
    <3>2. CASE n # 0
      <4>1. m - 1 = n /\ n \in 1..m /\ n < m /\ m # 1 /\ n <= Len(rows)
        BY <3>2, <1>1
      <4>2. commitments[n].to = rows[n].to
        BY <4>1 DEF ChainFollowsRows
      <4> QED BY <4>1, <4>2, <3>2, <1>1, <1>4 DEF RowTypes
    <3> QED BY <3>1, <3>2
  <2>3. LastAnchored \in Nat
    BY DEF RowTypes
  <2>4. CASE from = 1
    BY <2>4, <2>1, <2>2, <2>3, <1>4
  <2>5. ASSUME NEW k \in 1..n, from = rows[k].to + 1 PROVE FALSE
    <3>1. rows[k].to <= LastAnchored /\ rows[k].to \in Nat
      BY <1>5
    <3> QED BY <3>1, <2>5, <2>1, <2>2, <2>3, <1>4
  <2> QED BY <2>4, <2>5 DEF Formed, Start
<1>7. m # 0 => commitments[m].to = rows[m].to
  <2> SUFFICES ASSUME m # 0 PROVE commitments[m].to = rows[m].to
    OBVIOUS
  <2>1. m \in 1..n
    BY <1>1, <1>6
  <2>2. commitments[m].from = rows[m].from /\ commitments[m].to <= rows[m].to
    BY <2>1, <1>1, <1>4 DEF ChainFollowsRows
  <2>3. CASE from = 1
    <3>1. commitments[m].to = 0 /\ commitments[m].from = 0
      BY <2>3, <1>3, <1>4
    <3>2. rows[m].from = (IF m = 1 THEN 1 ELSE rows[m - 1].to + 1)
      BY <2>1, <1>5
    <3>0. m \in Nat /\ n \in Nat
      BY <1>1
    <3>4. m # 1 => m - 1 \in 1..n
      <4> HIDE DEF m, n
      <4> QED BY <2>1, <3>0
    <3>3. m # 1 => rows[m - 1].to \in Nat
      BY <3>4, <1>5
    <3> QED BY <3>1, <3>2, <3>3, <2>2
  <2>4. ASSUME NEW k \in 1..n, from = rows[k].to + 1 PROVE commitments[m].to = rows[m].to
    <3>1. rows[k].to = commitments[m].to
      BY <2>4, <1>3, <1>4, <1>5
    <3>0. /\ rows[k].to \in Nat /\ rows[m].to \in Nat /\ rows[k].from <= rows[k].to
          /\ rows[k].from \in Nat /\ commitments[m].from \in Nat /\ m \in Nat /\ k \in Nat
          /\ commitments[m].from <= commitments[m].to
          /\ k < m => rows[k].to < rows[m].from
          /\ m < k => rows[m].to < rows[k].from
      BY <2>1, <1>1, <1>4, <1>5
    <3>2. CASE k < m
      BY <3>0, <3>1, <3>2, <2>2
    <3>3. CASE k > m
      BY <3>0, <3>1, <3>3, <2>2
    <3>4. CASE k = m
      BY <3>1, <3>4
    <3> QED BY <3>0, <3>2, <3>3, <3>4
  <2> QED BY <2>3, <2>4, <1>4, <1>3 DEF Formed, Start
<1>8. m + 1 <= n => /\ rows[m + 1].from = from /\ to <= rows[m + 1].to
  <2> SUFFICES ASSUME m + 1 <= n PROVE rows[m + 1].from = from /\ to <= rows[m + 1].to
    OBVIOUS
  <2>1. m + 1 \in 1..n /\ m + 1 - 1 = m /\ (m + 1 = 1 <=> m = 0)
    BY <1>1
  <2>2. rows[m + 1].from = (IF m + 1 = 1 THEN 1 ELSE rows[m + 1 - 1].to + 1)
    BY <2>1, <1>5
  <2>3. rows[m + 1].from = from
    BY <2>1, <2>2, <1>3, <1>7
  <2> QED BY <2>1, <2>3 DEF Formed
<1>9. ASSUME NEW i \in 1..(m + 1), i <= n
      PROVE  /\ commitments'[i].from = rows[i].from /\ commitments'[i].to <= rows[i].to
             /\ i < m + 1 => commitments'[i].to = rows[i].to
  <2>1. CASE i = m + 1
    BY <2>1, <1>8, <1>9, <1>1, <1>2
  <2>2. CASE i \in 1..m
    <3>1. commitments'[i] = commitments[i] /\ (i = m \/ i < m)
      BY <2>2, <1>1, <1>2
    <3>2. /\ commitments[i].from = rows[i].from /\ commitments[i].to <= rows[i].to
          /\ i < m => commitments[i].to = rows[i].to
      BY <2>2, <1>9 DEF ChainFollowsRows
    <3> QED BY <3>1, <3>2, <1>7, <2>2, <1>1
  <2> QED BY <2>1, <2>2, <1>1
<1>10. m + 1 <= n + 1
  BY <1>1, <1>6
<1> QED BY <1>2, <1>9, <1>10, <1>1 DEF ChainFollowsRows

(* The queue and the transactions hold ranges that were formed. *)
LEMMA SentKept ==
  ASSUME Kept, NEW from \in Nat, NEW to \in Nat, Sent(from, to)
  PROVE  Sent(from, to)'
BY DEF Kept, Sent

LEMMA RangeTypes ==
  ASSUME TypeOK
  PROVE  /\ \A i \in 1..Len(queue) : queue[i].from \in Nat /\ queue[i].to \in Nat
         /\ \A i \in 1..Len(txs) : txs[i].from \in Nat /\ txs[i].to \in Nat /\ txs[i].by \in Wallets
         /\ \A i \in 1..Len(commitments) : commitments[i].from \in Nat /\ commitments[i].to \in Nat
<1>1. queue \in Seq(Requests) /\ txs \in Seq(Txs) /\ commitments \in Seq([from : Nat, to : Nat, by : Wallets])
  BY TypeParts DEF ContractType
<1>2. \A i \in 1..Len(queue) : queue[i] \in Requests
  BY <1>1, ElementOfSeq
<1>3. \A i \in 1..Len(txs) : txs[i] \in Txs
  BY <1>1, ElementOfSeq
<1>4. \A i \in 1..Len(commitments) : commitments[i] \in [from : Nat, to : Nat, by : Wallets]
  BY <1>1, ElementOfSeq
<1> QED BY <1>2, <1>3, <1>4 DEF Requests, Txs

LEMMA CarriedOver ==
  ASSUME TypeOK, Kept, QueueSent, TxsSent, CommitmentsFormed
  PROVE  /\ UNCHANGED queue => QueueSent'
         /\ UNCHANGED txs => TxsSent'
         /\ UNCHANGED commitments => CommitmentsFormed'
<1>1. ASSUME UNCHANGED queue PROVE QueueSent'
  BY <1>1, SentKept, RangeTypes DEF QueueSent
<1>2. ASSUME UNCHANGED txs PROVE TxsSent'
  BY <1>2, SentKept, RangeTypes DEF TxsSent
<1>3. ASSUME UNCHANGED commitments PROVE CommitmentsFormed'
  BY <1>3, RangeTypes DEF CommitmentsFormed, Kept
<1> QED BY <1>1, <1>2, <1>3

LEMMA RequestSent ==
  ASSUME TypeOK, Kept, QueueSent, NEW for \in Callers, NEW from \in Nat, NEW to \in Nat,
         Request(for, from, to), Sent(from, to)'
  PROVE  QueueSent'
<1> DEFINE r == [for |-> for, from |-> from, to |-> to, waits |-> for]
<1>1. r \in Requests /\ r.from = from /\ r.to = to /\ queue \in Seq(Requests)
  BY TypeParts DEF Requests
<1>2. queue' = Append(queue, r)
  BY DEF Request
<1> HIDE DEF r
<1>3. /\ \A i \in 1..Len(queue) : queue'[i] = queue[i]
      /\ queue'[Len(queue) + 1] = r
      /\ \A i \in 1..Len(queue') : i \in 1..Len(queue) \/ i = Len(queue) + 1
  BY <1>1, <1>2
<1>4. ASSUME NEW i \in 1..Len(queue') PROVE Sent(queue[i].from, queue[i].to)'
  <2>1. CASE i \in 1..Len(queue)
    <3>1. queue[i].from \in Nat /\ queue[i].to \in Nat /\ Sent(queue[i].from, queue[i].to)
      BY <2>1, RangeTypes DEF QueueSent
    <3>2. queue'[i].from = queue[i].from /\ queue'[i].to = queue[i].to
      BY <2>1, <1>3
    <3> QED BY <3>1, <3>2 DEF Kept, Sent
  <2>2. CASE i = Len(queue) + 1
    BY <2>2, <1>1, <1>3
  <2> QED BY <2>1, <2>2, <1>3
<1> QED BY <1>4 DEF QueueSent

LEMMA AbandonedSent ==
  ASSUME TypeOK, Kept, QueueSent, NEW callers, queue' = Abandoned(callers)
  PROVE  QueueSent'
<1>1. /\ Len(queue') = Len(queue)
      /\ \A i \in 1..Len(queue) : queue'[i].from = queue[i].from /\ queue'[i].to = queue[i].to
  BY AbandonedType, TypeParts
<1>2. ASSUME NEW i \in 1..Len(queue') PROVE Sent(queue[i].from, queue[i].to)'
  <2>1. queue[i].from \in Nat /\ queue[i].to \in Nat /\ Sent(queue[i].from, queue[i].to)
    BY <1>1, RangeTypes DEF QueueSent
  <2> QED BY <2>1, <1>1 DEF Kept, Sent
<1> QED BY <1>2 DEF QueueSent

LEMMA ServedSent ==
  ASSUME TypeOK, Kept, QueueSent, queue # << >>, queue' = Tail(queue)
  PROVE  QueueSent' /\ Sent(Head(queue).from, Head(queue).to)
         /\ Head(queue).from \in Nat /\ Head(queue).to \in Nat
<1>1. queue \in Seq(Requests) /\ 1 \in 1..Len(queue) /\ Head(queue) = queue[1]
  BY TypeParts
<1>2. \A i \in 1..Len(queue') : i + 1 \in 1..Len(queue) /\ queue'[i] = queue[i + 1]
  BY <1>1
<1>3. ASSUME NEW i \in 1..Len(queue') PROVE Sent(queue[i].from, queue[i].to)'
  <2>1. i + 1 \in 1..Len(queue)
    BY <1>2
  <2>2. queue[i + 1].from \in Nat /\ queue[i + 1].to \in Nat /\ Sent(queue[i + 1].from, queue[i + 1].to)
    BY <2>1, RangeTypes DEF QueueSent
  <2> QED BY <2>2, <1>2 DEF Kept, Sent
<1> QED BY <1>1, <1>3, RangeTypes DEF QueueSent

(* The chain holds no row that is not in the audit chain yet. *)
LEMMA ChainBelowTail ==
  ASSUME TypeOK, Coverage, CommitmentsFormed
  PROVE  lastToSeq \in Nat /\ lastToSeq <= tail /\ tail <= MaxSeq /\ tail \in Nat
         /\ (commitments = << >> => lastToSeq = 0)
<1>1. commitments \in Seq([from : Nat, to : Nat, by : Wallets]) /\ tail \in 0..MaxSeq /\ lastToSeq \in Nat
  BY TypeParts DEF ContractType
<1>2. CASE commitments = << >>
  BY <1>1, <1>2 DEF Coverage
<1>3. CASE commitments # << >>
  <2>1. Len(commitments) \in 1..Len(commitments)
    BY <1>1, <1>3
  <2>2. commitments[Len(commitments)].to <= tail
    BY <2>1 DEF CommitmentsFormed, Formed
  <2> QED BY <1>1, <1>3, <2>2 DEF Coverage
<1> QED BY <1>2, <1>3

(* A step that leaves the contract and the transactions alone. *)
LEMMA ContractKept ==
  ASSUME TypeOK, Kept, FollowInv, RowsDivide', MainNext', UNCHANGED <<contractVars, rows, txs>>,
         QueueSent'
  PROVE  FollowInv'
<1>1. TxsSent' /\ CommitmentsFormed'
  BY CarriedOver DEF FollowInv, contractVars
<1>2. Coverage' /\ ChainFollowsRows'
  BY DEF FollowInv, contractVars, Coverage, ChainFollowsRows
<1> QED BY <1>1, <1>2 DEF FollowInv

LEMMA FollowStep ==
  ASSUME TypeOK, Waiting, FollowInv, [Next]_vars
  PROVE  FollowInv'
<1> USE DEF workerVars
<1>0. /\ RowTypes /\ ContractType /\ Coverage /\ ChainFollowsRows /\ RowsDivide /\ MainNext
      /\ QueueSent /\ TxsSent /\ CommitmentsFormed
      /\ main \in LoopStates /\ queue \in Seq(Requests) /\ txs \in Seq(Txs)
  BY RowFacts, TypeParts DEF FollowInv
<1>1. CASE AppendRow
  <2>1. Kept /\ RowsDivide' /\ MainNext'
    BY <1>0, <1>1, LongerTail DEF AppendRow
  <2> QED BY <1>0, <1>1, <2>1, CarriedOver, ContractKept DEF AppendRow
<1>2. CASE MainTick
  <2> DEFINE from == LastAnchored + 1
             to == Lesser(tail, from + MaxBatch - 1)
  <2>1. /\ main' = Sending("main", from, to) /\ Request("main", from, to) /\ tail > LastAnchored
        /\ UNCHANGED <<contractVars, tail, txs, rows>>
    BY <1>2 DEF MainTick
  <2>2. from \in Nat /\ to \in Nat /\ "main" \in Callers
    <3>1. LastAnchored \in Nat /\ tail \in Nat /\ MaxBatch \in Nat
      BY <1>0 DEF RowTypes
    <3> QED BY <3>1 DEF Callers, Lesser
  <2>3. main'.from = from /\ main'.to = to /\ main'.step = "sending"
    BY <2>1 DEF Sending
  <2>4. Kept /\ RowsDivide' /\ MainNext' /\ Formed(main.from, main.to)'
    BY <1>0, <2>1, <2>3, NextFormed
  <2>5. PICK f \in Nat, t \in Nat : f = from /\ t = to
    BY <2>2
  <2>6. Request("main", f, t) /\ main'.from = f /\ main'.to = t
    BY <2>1, <2>3, <2>5
  <2> HIDE DEF from, to
  <2>7. Sent(f, t)'
    BY <2>4, <2>6 DEF Sent, Formed
  <2>8. QueueSent'
    BY <1>0, <2>2, <2>4, <2>6, <2>7, RequestSent
  <2> QED BY <2>1, <2>4, <2>8, ContractKept
<1>3. CASE InsertRow
  <2> DEFINE r == [from |-> main.from, to |-> main.to, tx |-> main.tx]
  <2>1. CASE rows' = Append(rows, r)
    <3>1. r \in [from : Nat, to : Nat, tx : Nat]
      BY <1>0 DEF LoopStates
    <3>2. /\ Kept /\ RowsDivide' /\ MainNext'
          /\ Len(rows') = Len(rows) + 1 /\ \A k \in 1..Len(rows) : rows'[k] = rows[k]
          /\ rows'[Len(rows) + 1].from = main.from /\ rows'[Len(rows) + 1].to = main.to
      BY <1>0, <1>3, <2>1, <3>1, RowInserted DEF InsertRow
    <3>3. ChainFollowsRows'
      BY <1>0, <1>3, <3>2, InsertFollows DEF InsertRow, contractVars
    <3>4. Coverage'
      BY <1>0, <1>3 DEF InsertRow, contractVars, Coverage
    <3>5. QueueSent' /\ TxsSent' /\ CommitmentsFormed'
      BY <1>0, <1>3, <3>2, CarriedOver DEF InsertRow, contractVars
    <3> QED BY <3>2, <3>3, <3>4, <3>5 DEF FollowInv
  <2>2. CASE UNCHANGED rows
    <3>1. Kept /\ RowsDivide' /\ MainNext'
      BY <1>0, <1>3, <2>2, IdleType, SameRows DEF InsertRow
    <3>2. UNCHANGED <<contractVars, rows, txs, queue>>
      BY <1>3, <2>2 DEF InsertRow
    <3>3. QueueSent'
      BY <1>0, <3>1, <3>2, CarriedOver
    <3> QED BY <3>1, <3>2, <3>3, ContractKept
  <2> QED BY <1>3, <2>1, <2>2 DEF InsertRow
<1>4. CASE SetAnchorTx \/ RecordPublic \/ ChangeKey \/ UNCHANGED vars
  <2>1. UNCHANGED <<contractVars, rows, tail, main, queue, txs>>
    BY <1>4 DEF SetAnchorTx, RecordPublic, ChangeKey, vars
  <2>2. Kept /\ RowsDivide' /\ MainNext'
    BY <1>0, <2>1, SameRows
  <2>3. QueueSent'
    BY <1>0, <2>1, <2>2, CarriedOver
  <2> QED BY <2>1, <2>2, <2>3, ContractKept
<1>5. CASE Timeout \/ Crash
  <2>1. /\ UNCHANGED <<contractVars, rows, tail, txs>>
        /\ (main' = main \/ main'.step = "idle")
        /\ \E callers : queue' = Abandoned(callers)
    BY <1>5, IdleType DEF Timeout, Crash
  <2>2. Kept /\ RowsDivide' /\ MainNext'
    BY <1>0, <2>1, SameRows
  <2>3. QueueSent'
    BY <1>0, <2>1, <2>2, AbandonedSent
  <2> QED BY <2>1, <2>2, <2>3, ContractKept
<1>6. CASE Refuse
  <2>1. main' = main \/ main'.step = "idle"
    BY <1>6, IdleType DEF Refuse, Answer, Answered
  <2>2. Kept /\ RowsDivide' /\ MainNext'
    BY <1>0, <1>6, <2>1, SameRows DEF Refuse
  <2>3. QueueSent'
    BY <1>0, <1>6, <2>2, ServedSent DEF Refuse
  <2> QED BY <1>6, <2>2, <2>3, ContractKept DEF Refuse
<1>7. CASE Broadcast
  <2> DEFINE r == Head(queue)
             t == [for |-> r.for, from |-> r.from, to |-> r.to, by |-> wallet, status |-> "pending"]
  <2>1. /\ queue # << >> /\ queue' = Tail(queue) /\ txs' = Append(txs, t)
        /\ UNCHANGED <<contractVars, tail, rows>>
        /\ (Answer(r, Len(txs) + 1) \/ Answer(r, 0))
    BY <1>7 DEF Broadcast
  <2>2. r.waits = "main" => main.step = "sending"
    <3>1. 1 \in 1..Len(queue) /\ r = queue[1]
      BY <1>0, <2>1
    <3> QED BY <3>1 DEF Waiting
  <2>3. \/ main' = main \/ main'.step = "idle"
        \/ main.step # "idle" /\ main'.from = main.from /\ main'.to = main.to
    <3>1. Len(txs) + 1 \in Nat /\ Len(txs) + 1 # 0
      BY <1>0
    <3>2. ASSUME NEW tx \in Nat, Answer(r, tx)
          PROVE  \/ main' = main \/ main'.step = "idle"
                 \/ main.step # "idle" /\ main'.from = main.from /\ main'.to = main.to
      <4>1. CASE r.waits # "main"
        BY <3>2, <4>1 DEF Answer
      <4>2. CASE r.waits = "main"
        <5>1. main' = Answered(main, tx) /\ main.step # "idle"
          BY <2>2, <3>2, <4>2 DEF Answer
        <5> QED BY <1>0, <5>1, AnsweredType
      <4> QED BY <4>1, <4>2
    <3> QED BY <2>1, <3>1, <3>2
  <2>4. Kept /\ RowsDivide' /\ MainNext'
    BY <1>0, <2>1, <2>3, SameRows
  <2>5. QueueSent' /\ Sent(r.from, r.to) /\ r.from \in Nat /\ r.to \in Nat
    BY <1>0, <2>1, <2>4, ServedSent
  <2>6. TxsSent'
    <3>1. r \in Requests
      BY <1>0, <2>1
    <3>2. t \in Txs /\ t.from = r.from /\ t.to = r.to
      BY <3>1, TypeParts DEF Txs, Requests
    <3> HIDE DEF t
    <3>3. /\ \A i \in 1..Len(txs) : txs'[i] = txs[i]
          /\ txs'[Len(txs) + 1] = t
          /\ \A i \in 1..Len(txs') : i \in 1..Len(txs) \/ i = Len(txs) + 1
      BY <1>0, <2>1, <3>2
    <3>4. ASSUME NEW i \in 1..Len(txs') PROVE Sent(txs[i].from, txs[i].to)'
      <4>1. CASE i \in 1..Len(txs)
        <5>1. txs[i].from \in Nat /\ txs[i].to \in Nat /\ Sent(txs[i].from, txs[i].to)
          BY <1>0, <4>1, RangeTypes DEF TxsSent
        <5> QED BY <5>1, <3>3, <4>1, <2>4 DEF Kept, Sent
      <4>2. CASE i = Len(txs) + 1
        BY <4>2, <3>2, <3>3, <2>4, <2>5 DEF Kept, Sent
      <4> QED BY <4>1, <4>2, <3>3
    <3> QED BY <3>4 DEF TxsSent
  <2>7. CommitmentsFormed'
    BY <1>0, <2>1, <2>4, CarriedOver DEF contractVars
  <2>8. Coverage' /\ ChainFollowsRows'
    BY <1>0, <2>1 DEF contractVars, Coverage, ChainFollowsRows
  <2> QED BY <2>4, <2>5, <2>6, <2>7, <2>8 DEF FollowInv
<1>8. ASSUME NEW e \in HighSig, HighSigTick(e) PROVE FollowInv'
  <2>1. e \in Callers /\ Stamp[e] \in Nat /\ Stamp[e] > MaxSeq + 1
    BY DEF Callers
  <2>2. Kept /\ RowsDivide' /\ MainNext'
    BY <1>0, <1>8, SameRows DEF HighSigTick
  <2>3. Sent(Stamp[e], Stamp[e])'
    BY <2>1 DEF Sent
  <2>4. QueueSent'
    BY <1>0, <1>8, <2>1, <2>2, <2>3, RequestSent DEF HighSigTick
  <2> QED BY <1>8, <2>2, <2>4, ContractKept DEF HighSigTick
<1>9. ASSUME NEW i \in Pending, Drop(i) \/ Execute(i) PROVE FollowInv'
  <2>1. UNCHANGED <<tail, rows, main, queue>>
    BY <1>9 DEF Drop, Execute
  <2>2. Kept /\ RowsDivide' /\ MainNext'
    BY <1>0, <2>1, SameRows
  <2>3. QueueSent'
    BY <1>0, <2>1, <2>2, CarriedOver
  <2>4. TxsSent'
    <3>1. /\ Len(txs') = Len(txs)
          /\ \A j \in 1..Len(txs) : txs'[j].from = txs[j].from /\ txs'[j].to = txs[j].to
      BY <1>9, StatusType DEF Drop, Execute
    <3>2. ASSUME NEW j \in 1..Len(txs') PROVE Sent(txs[j].from, txs[j].to)'
      <4>1. txs[j].from \in Nat /\ txs[j].to \in Nat /\ Sent(txs[j].from, txs[j].to)
        BY <1>0, <3>1, RangeTypes DEF TxsSent
      <4> QED BY <4>1, <3>1, <2>2 DEF Kept, Sent
    <3> QED BY <3>2 DEF TxsSent
  <2>5. CASE UNCHANGED contractVars
    <3>1. Coverage' /\ ChainFollowsRows' /\ CommitmentsFormed'
      BY <1>0, <2>1, <2>2, <2>5, CarriedOver DEF contractVars, Coverage, ChainFollowsRows
    <3> QED BY <2>2, <2>3, <2>4, <3>1 DEF FollowInv
  <2>6. CASE Commit(txs[i].by, txs[i].from, txs[i].to)
    <3> DEFINE f == txs[i].from
               to == txs[i].to
    <3>1. i \in 1..Len(txs) /\ f \in Nat /\ to \in Nat /\ txs[i].by \in Wallets /\ Sent(f, to)
      BY <1>0, RangeTypes DEF Pending, TxsSent
    <3>2. f <= lastToSeq + 1
      <4>1. lastToSeq \in Nat /\ (commitments = << >> => lastToSeq = 0)
        BY <1>0, ChainBelowTail
      <4> QED BY <2>6, <4>1 DEF Commit, CanCommit, ContiguousRange
    <3>3. Formed(f, to)
      BY <1>0, <3>1, <3>2, ChainBelowTail DEF Sent
    <3> HIDE DEF f, to
    <3>4. Commit(txs[i].by, f, to)
      BY <2>6 DEF f, to
    <3>5. Coverage'
      BY <1>0, <3>1, <3>4, CommitKeepsCoverage
    <3>6. ChainFollowsRows'
      BY <1>0, <2>1, <3>1, <3>3, <3>4, CommitFollows
    <3>7. CommitmentsFormed'
      <4> DEFINE c == [from |-> f, to |-> to, by |-> txs[i].by]
      <4>1. c \in [from : Nat, to : Nat, by : Wallets] /\ c.from = f /\ c.to = to
        BY <3>1
      <4>2. commitments' = Append(commitments, c)
        BY <3>4 DEF Commit
      <4> HIDE DEF c
      <4>3. /\ \A j \in 1..Len(commitments) : commitments'[j] = commitments[j]
            /\ commitments'[Len(commitments) + 1] = c
            /\ \A j \in 1..Len(commitments') : j \in 1..Len(commitments) \/ j = Len(commitments) + 1
        <5>1. commitments \in Seq([from : Nat, to : Nat, by : Wallets])
          BY <1>0 DEF ContractType
        <5> QED BY <5>1, <4>1, <4>2
      <4>4. ASSUME NEW j \in 1..Len(commitments')
            PROVE  Formed(commitments[j].from, commitments[j].to)'
        <5>1. CASE j \in 1..Len(commitments)
          <6>1. /\ commitments[j].from \in Nat /\ commitments[j].to \in Nat
                /\ Formed(commitments[j].from, commitments[j].to)
            BY <1>0, <5>1, RangeTypes DEF CommitmentsFormed
          <6> QED BY <6>1, <4>3, <5>1, <2>2 DEF Kept
        <5>2. CASE j = Len(commitments) + 1
          BY <5>2, <3>1, <3>3, <4>1, <4>3, <2>2 DEF Kept
        <5> QED BY <5>1, <5>2, <4>3
      <4> QED BY <4>4 DEF CommitmentsFormed
    <3> QED BY <2>2, <2>3, <2>4, <3>5, <3>6, <3>7 DEF FollowInv
  <2> QED BY <1>9, <2>5, <2>6 DEF Drop, Execute
<1>10. ASSUME NEW w \in Wallets, Rotate(w) PROVE FollowInv'
  <2>1. UNCHANGED <<rows, tail, main, queue, txs, commitments, lastToSeq>>
    BY <1>10 DEF Rotate, RotateCommitter
  <2>2. Kept /\ RowsDivide' /\ MainNext'
    BY <1>0, <2>1, SameRows
  <2>3. QueueSent' /\ TxsSent' /\ CommitmentsFormed'
    BY <1>0, <2>1, <2>2, CarriedOver
  <2>4. Coverage' /\ ChainFollowsRows'
    BY <1>0, <2>1 DEF Coverage, ChainFollowsRows
  <2> QED BY <2>2, <2>3, <2>4 DEF FollowInv
<1> QED BY <1>1, <1>2, <1>3, <1>4, <1>5, <1>6, <1>7, <1>8, <1>9, <1>10 DEF Next

LEMMA Follows == Spec => [](TypeOK /\ Waiting /\ FollowInv)
<1>1. Init => FollowInv
  <2> SUFFICES ASSUME Init PROVE FollowInv
    OBVIOUS
  <2>1. /\ commitments = << >> /\ rows = << >> /\ queue = << >> /\ txs = << >> /\ lastToSeq = 0
        /\ main.step = "idle"
    BY IdleType DEF Init, ContractInit
  <2> QED BY <2>1 DEF FollowInv, Coverage, ChainFollowsRows, RowsDivide, MainNext, QueueSent,
               TxsSent, CommitmentsFormed
<1>2. TypeOK /\ Waiting /\ FollowInv /\ [Next]_vars => FollowInv'
  BY FollowStep
<1>3. Spec => [](TypeOK /\ Waiting)
  BY TypeCorrect
<1> QED BY <1>1, <1>2, <1>3, PTL DEF Spec

(***************************************************************************)
(* The results                                                             *)
(***************************************************************************)

(* Under the worker too, the commitments divide the rows up to lastToSeq.  *)
THEOREM Covered == Spec => []Coverage
<1>1. FollowInv => Coverage
  BY DEF FollowInv
<1> QED BY <1>1, Follows, PTL

(* Whatever is lost, repeated, late or refused, the ranges on the chain    *)
(* are those of audit.anchor_commitment, but for one at the end.           *)
THEOREM Followed == Spec => []ChainFollowsRows
<1>1. FollowInv => ChainFollowsRows
  BY DEF FollowInv
<1> QED BY <1>1, Follows, PTL

LEMMA SameLength ==
  ASSUME TypeOK, FollowInv, lastToSeq = LastAnchored
  PROVE  Len(commitments) = Len(rows)
<1> DEFINE n == Len(commitments)
           m == Len(rows)
<1>0. RowTypes /\ ContractType /\ Coverage /\ ChainFollowsRows /\ RowsDivide
  BY RowFacts, TypeParts DEF FollowInv
<1>1. commitments \in Seq([from : Nat, to : Nat, by : Wallets]) /\ n \in Nat /\ m \in Nat
  BY <1>0 DEF ContractType, RowTypes
<1>2. \A i \in 1..n : commitments[i].from \in Nat /\ commitments[i].to \in Nat
  BY RangeTypes
<1>3. lastToSeq = (IF n = 0 THEN 0 ELSE commitments[n].to)
  BY <1>0, <1>1 DEF Coverage
<1>4. LastAnchored = (IF m = 0 THEN 0 ELSE rows[m].to)
  BY <1>0 DEF RowTypes
<1>5. n <= m + 1
  BY <1>0 DEF ChainFollowsRows
<1>6. \A i \in 1..n : commitments[i].from <= commitments[i].to
  BY <1>0, <1>2 DEF Coverage, ContractAssumption
<1>7. n # m + 1
  <2> SUFFICES ASSUME n = m + 1 PROVE FALSE
    OBVIOUS
  <2>1. n \in 1..n /\ commitments[n].to = lastToSeq
    BY <1>1, <1>3
  <2>2. CASE m = 0
    <3>1. n = 1 /\ commitments[n].from = 1
      BY <2>1, <2>2, <1>0, <1>1 DEF Coverage
    <3> QED BY <2>1, <2>2, <3>1, <1>2, <1>4, <1>6
  <2>3. CASE m # 0
    <3>1. m \in 1..n /\ m <= Len(rows) /\ m < n /\ n # 1 /\ n - 1 = m
      BY <2>3, <1>1
    <3>2. commitments[m].to = rows[m].to /\ commitments[n].from = commitments[n - 1].to + 1
      BY <3>1, <2>1, <1>0 DEF ChainFollowsRows, Coverage
    <3>3. commitments[m].to \in Nat /\ commitments[n].to \in Nat
      BY <3>1, <2>1, <1>2
    <3>4. commitments[n].from <= commitments[n].to /\ commitments[n].from = lastToSeq + 1
      BY <3>1, <3>2, <2>1, <2>3, <1>4, <1>6
    <3> QED BY <3>3, <3>4, <2>1
  <2> QED BY <2>2, <2>3
<1>8. ~(n < m)
  <2> SUFFICES ASSUME n < m PROVE FALSE
    OBVIOUS
  <2>1. m \in 1..m /\ rows[m].to = LastAnchored
    BY <1>1, <1>4
  <2>2. rows[m].from <= rows[m].to /\ rows[m].from \in Nat /\ rows[m].to \in Nat
    BY <2>1, <1>0 DEF RowsDivide, RowTypes
  <2>3. CASE n = 0
    <3>1. rows[m].from >= 1
      <4>1. rows[m].from = (IF m = 1 THEN 1 ELSE rows[m - 1].to + 1)
        BY <2>1, <1>0 DEF RowsDivide
      <4>2. m # 1 => m - 1 \in 1..m
        <5>1. \A k \in Nat : k \in 1..k /\ k # 1 => k - 1 \in 1..k
          OBVIOUS
        <5> HIDE DEF m
        <5> QED BY <5>1, <2>1, <1>1
      <4>3. m # 1 => rows[m - 1].to \in Nat
        BY <4>2, <1>0 DEF RowTypes
      <4> QED BY <4>1, <4>3
    <3> QED BY <2>1, <2>2, <2>3, <3>1, <1>3
  <2>4. CASE n # 0
    <3>1. n \in 1..n /\ n \in 1..m /\ n <= Len(rows) /\ commitments[n].to = lastToSeq
      BY <2>4, <1>1, <1>3
    <3>2. commitments[n].to <= rows[n].to
      BY <3>1, <1>0 DEF ChainFollowsRows
    <3>3. rows[n].to < rows[m].from
      BY <3>1, <2>1, <1>0 DEF RowsDivide
    <3>4. rows[n].to \in Nat /\ lastToSeq \in Nat
      BY <3>1, <1>0, <1>2 DEF RowTypes
    <3> QED BY <3>1, <3>2, <3>3, <3>4, <2>1, <2>2
  <2> QED BY <2>3, <2>4
<1> QED BY <1>1, <1>5, <1>7, <1>8

(* The check at boot is sound: cursors that are equal mean that the table  *)
(* and the chain hold the same ranges.                                     *)
THEOREM Reconciled == Spec => []ReconciledMeansAgree
<1>1. TypeOK /\ FollowInv => ReconciledMeansAgree
  <2> SUFFICES ASSUME TypeOK, FollowInv, lastToSeq = LastAnchored
               PROVE  Ranges(commitments) = Ranges(rows)
    BY DEF ReconciledMeansAgree
  <2>0. RowTypes /\ ContractType /\ Coverage /\ ChainFollowsRows
    BY RowFacts, TypeParts DEF FollowInv
  <2>1. Len(commitments) = Len(rows) /\ Len(rows) \in Nat
    BY SameLength, <2>0 DEF RowTypes
  <2>2. DOMAIN commitments = 1..Len(commitments) /\ DOMAIN rows = 1..Len(rows)
    BY <2>0 DEF ContractType, RowTypes
  <2>3. ASSUME NEW i \in 1..Len(rows)
        PROVE  commitments[i].from = rows[i].from /\ commitments[i].to = rows[i].to
    <3>1. i \in 1..Len(commitments) /\ i <= Len(rows)
      BY <2>1
    <3>2. i = Len(rows) => commitments[i].to = lastToSeq /\ rows[i].to = LastAnchored
      BY <2>0, <2>1, <3>1 DEF Coverage, RowTypes
    <3>3. i # Len(rows) => i < Len(commitments)
      BY <2>1
    <3> QED BY <3>1, <3>2, <3>3, <2>0 DEF ChainFollowsRows
  <2> QED BY <2>1, <2>2, <2>3 DEF Ranges
<1> QED BY <1>1, Follows, PTL

(* Nothing sent from now on starts where the chain stopped. *)
Avoided(n) ==
  /\ \A i \in Pending : txs[i].from # n
  /\ \A i \in 1..Len(queue) : queue[i].from # n

LEMMA RequestAvoids ==
  ASSUME TypeOK, NEW n, NEW for \in Callers, NEW from \in Nat, NEW to \in Nat,
         Request(for, from, to), from # n, Avoided(n), UNCHANGED txs
  PROVE  Avoided(n)'
<1> DEFINE r == [for |-> for, from |-> from, to |-> to, waits |-> for]
<1>1. r \in Requests /\ r.from = from /\ queue \in Seq(Requests)
  BY TypeParts DEF Requests
<1>2. queue' = Append(queue, r)
  BY DEF Request
<1> HIDE DEF r
<1>3. /\ \A i \in 1..Len(queue) : queue'[i] = queue[i]
      /\ queue'[Len(queue) + 1] = r
      /\ \A i \in 1..Len(queue') : i \in 1..Len(queue) \/ i = Len(queue) + 1
  BY <1>1, <1>2
<1> QED BY <1>1, <1>3 DEF Avoided, Pending

LEMMA AbandonedAvoids ==
  ASSUME TypeOK, NEW n, NEW callers, queue' = Abandoned(callers), Avoided(n), UNCHANGED txs
  PROVE  Avoided(n)'
<1>1. /\ Len(queue') = Len(queue)
      /\ \A i \in 1..Len(queue) : queue'[i].from = queue[i].from
  BY AbandonedType, TypeParts
<1> QED BY <1>1 DEF Avoided, Pending

LEMMA ServedAvoids ==
  ASSUME TypeOK, NEW n, queue # << >>, queue' = Tail(queue), Avoided(n)
  PROVE  /\ Head(queue).from # n
         /\ \A i \in 1..Len(queue') : queue'[i].from # n
<1>1. queue \in Seq(Requests) /\ 1 \in 1..Len(queue) /\ Head(queue) = queue[1]
  BY TypeParts
<1>2. \A i \in 1..Len(queue') : i + 1 \in 1..Len(queue) /\ queue'[i] = queue[i + 1]
  BY <1>1
<1> QED BY <1>1, <1>2 DEF Avoided

LEMMA StatusAvoids ==
  ASSUME TypeOK, NEW n, NEW i \in Pending, NEW status \in {"done", "reverted", "dropped"},
         txs' = [txs EXCEPT ![i].status = status], UNCHANGED queue, Avoided(n)
  PROVE  Avoided(n)'
<1>1. /\ Len(txs') = Len(txs)
      /\ \A j \in 1..Len(txs) : txs'[j].from = txs[j].from
  BY StatusType
<1>2. txs \in Seq(Txs) /\ i \in 1..Len(txs)
  BY TypeParts DEF Pending
<1>3. \A j \in 1..Len(txs) : j # i => txs'[j] = txs[j]
  BY <1>2
<1>4. \A j \in Pending' : j \in 1..Len(txs) /\ (j # i => j \in Pending)
  BY <1>1, <1>3 DEF Pending
<1>5. \A j \in Pending' : txs'[j].from # n
  BY <1>1, <1>4 DEF Avoided
<1> QED BY <1>5 DEF Avoided

LEMMA WedgedStep ==
  ASSUME TypeOK, Waiting, FollowInv, Wedged, [Next]_vars
  PROVE  Wedged' /\ UNCHANGED lastToSeq
<1> USE DEF workerVars
<1> DEFINE n == lastToSeq + 1
<1>0. /\ RowTypes /\ RowsDivide /\ MainNext /\ queue \in Seq(Requests) /\ txs \in Seq(Txs)
      /\ main \in LoopStates /\ Coverage /\ CommitmentsFormed
  BY RowFacts, TypeParts DEF FollowInv
<1>1. /\ lastToSeq \in Nat /\ lastToSeq <= tail /\ tail <= MaxSeq /\ tail \in Nat /\ MaxSeq \in Nat
      /\ (commitments = << >> => lastToSeq = 0)
  BY <1>0, ChainBelowTail
<1>2. Avoided(n) /\ lastToSeq < LastAnchored /\ LastAnchored \in Nat
  BY <1>0 DEF Wedged, Avoided, RowTypes
<1>3. CASE UNCHANGED <<lastToSeq, rows, queue, txs>>
  BY <1>2, <1>3 DEF LastAnchored, Wedged, Avoided, Pending
<1>4. PICK m \in Nat : m = n
  BY <1>1
<1>5. Avoided(m)
  BY <1>2, <1>4
<1>6. ASSUME UNCHANGED <<lastToSeq, rows>>, Avoided(m)' PROVE Wedged' /\ UNCHANGED lastToSeq
  <2>1. LastAnchored' = LastAnchored /\ m = lastToSeq' + 1
    BY <1>4, <1>6 DEF LastAnchored
  <2> QED BY <1>2, <1>6, <2>1 DEF Wedged, Avoided
<1>7. CASE AppendRow \/ SetAnchorTx \/ RecordPublic \/ ChangeKey \/ UNCHANGED vars
  BY <1>3, <1>7 DEF AppendRow, SetAnchorTx, RecordPublic, ChangeKey, vars, contractVars
<1>8. CASE MainTick
  <2> DEFINE from == LastAnchored + 1
             to == Lesser(tail, from + MaxBatch - 1)
  <2>1. /\ Request("main", from, to) /\ UNCHANGED <<lastToSeq, rows, txs>> /\ MaxBatch \in Nat
    BY <1>8 DEF MainTick, contractVars
  <2>2. from \in Nat /\ to \in Nat /\ "main" \in Callers /\ from # m
    BY <1>1, <1>2, <1>4, <2>1 DEF Lesser, Callers
  <2> HIDE DEF from, to
  <2>3. Avoided(m)'
    BY <1>5, <2>1, <2>2, RequestAvoids
  <2> QED BY <1>6, <2>1, <2>3
<1>9. CASE InsertRow
  <2>1. CASE UNCHANGED rows
    BY <1>3, <1>9, <2>1 DEF InsertRow, contractVars
  <2>2. CASE rows' = Append(rows, [from |-> main.from, to |-> main.to, tx |-> main.tx])
    <3>1. UNCHANGED <<lastToSeq, queue, txs>>
      BY <1>9 DEF InsertRow, contractVars
    <3>2. main.from = LastAnchored + 1 /\ main.from <= main.to /\ main.to \in Nat
      BY <1>0, <1>9 DEF MainNext, InsertRow, RowTypes
    <3>3. [from |-> main.from, to |-> main.to, tx |-> main.tx] \in [from : Nat, to : Nat, tx : Nat]
      BY <1>0 DEF LoopStates
    <3>4. LastAnchored' = main.to
      <4>0. rows \in Seq([from : Nat, to : Nat, tx : Nat])
        BY <1>0 DEF RowTypes
      <4>1. /\ rows' # << >> /\ Len(rows') = Len(rows) + 1
            /\ rows'[Len(rows) + 1] = [from |-> main.from, to |-> main.to, tx |-> main.tx]
        <5>1. PICK S : rows \in Seq(S)
                       /\ [from |-> main.from, to |-> main.to, tx |-> main.tx] \in S
          BY <4>0, <3>3
        <5> QED BY <5>1, <2>2, AppendParts
      <4>2. rows'[Len(rows')].to = main.to
        BY <4>1
      <4> QED BY <4>1, <4>2 DEF LastAnchored
    <3>5. Avoided(m)' /\ m = lastToSeq' + 1
      BY <1>4, <1>5, <3>1 DEF Avoided, Pending
    <3>6. lastToSeq' < LastAnchored'
      BY <1>1, <1>2, <3>1, <3>2, <3>4
    <3> QED BY <3>1, <3>5, <3>6 DEF Wedged, Avoided
  <2> QED BY <1>9, <2>1, <2>2 DEF InsertRow
<1>10. CASE Timeout \/ Crash
  <2>1. /\ UNCHANGED <<lastToSeq, rows, txs>> /\ \E callers : queue' = Abandoned(callers)
    BY <1>10 DEF Timeout, Crash, contractVars
  <2>2. Avoided(m)'
    BY <1>5, <2>1, AbandonedAvoids
  <2> QED BY <1>6, <2>1, <2>2
<1>11. CASE Refuse
  <2>1. /\ UNCHANGED <<lastToSeq, rows, txs>> /\ queue # << >> /\ queue' = Tail(queue)
    BY <1>11 DEF Refuse, contractVars
  <2>2. Avoided(m)'
    BY <1>5, <2>1, ServedAvoids DEF Avoided, Pending
  <2> QED BY <1>6, <2>1, <2>2
<1>12. CASE Broadcast
  <2> DEFINE r == Head(queue)
             t == [for |-> r.for, from |-> r.from, to |-> r.to, by |-> wallet, status |-> "pending"]
  <2>1. /\ UNCHANGED <<lastToSeq, rows>> /\ queue # << >> /\ queue' = Tail(queue)
        /\ txs' = Append(txs, t)
    BY <1>12 DEF Broadcast, contractVars
  <2>2. r \in Requests /\ r.from # m /\ \A i \in 1..Len(queue') : queue'[i].from # m
    <3>1. r.from # m /\ \A i \in 1..Len(queue') : queue'[i].from # m
      BY <1>5, <2>1, ServedAvoids
    <3>2. r \in Requests
      BY <1>0, <2>1
    <3> QED BY <3>1, <3>2
  <2>3. t \in Txs /\ t.from # m
    BY <2>2, TypeParts DEF Txs, Requests
  <2> HIDE DEF t
  <2>4. /\ \A i \in 1..Len(txs) : txs'[i] = txs[i]
        /\ txs'[Len(txs) + 1] = t
        /\ \A i \in 1..Len(txs') : i \in 1..Len(txs) \/ i = Len(txs) + 1
    BY <1>0, <2>1, <2>3
  <2>5. \A i \in Pending' : txs'[i].from # m
    BY <1>5, <2>3, <2>4 DEF Avoided, Pending
  <2>6. Avoided(m)'
    BY <2>2, <2>5 DEF Avoided
  <2> QED BY <1>6, <2>1, <2>6
<1>13. ASSUME NEW e \in HighSig, HighSigTick(e) PROVE Wedged' /\ UNCHANGED lastToSeq
  <2>1. e \in Callers /\ Stamp[e] \in Nat /\ Stamp[e] > MaxSeq + 1
    BY DEF Callers
  <2>2. Stamp[e] # m
    BY <1>1, <1>4, <2>1
  <2>3. Request(e, Stamp[e], Stamp[e]) /\ UNCHANGED <<lastToSeq, rows, txs>>
    BY <1>13 DEF HighSigTick, contractVars
  <2>4. Avoided(m)'
    BY <1>5, <2>1, <2>2, <2>3, RequestAvoids
  <2> QED BY <1>6, <2>3, <2>4
<1>14. ASSUME NEW i \in Pending, Drop(i) PROVE Wedged' /\ UNCHANGED lastToSeq
  <2>1. UNCHANGED <<lastToSeq, rows, queue>> /\ txs' = [txs EXCEPT ![i].status = "dropped"]
    BY <1>14 DEF Drop, contractVars
  <2>2. Avoided(m)'
    BY <1>5, <2>1, StatusAvoids
  <2> QED BY <1>6, <2>1, <2>2
<1>15. ASSUME NEW i \in Pending, Execute(i) PROVE Wedged' /\ UNCHANGED lastToSeq
  <2>1. ~Commit(txs[i].by, txs[i].from, txs[i].to)
    BY <1>1, <1>2 DEF Avoided, Commit, CanCommit, ContiguousRange
  <2>2. UNCHANGED <<lastToSeq, rows, queue>> /\ txs' = [txs EXCEPT ![i].status = "reverted"]
    BY <1>15, <2>1 DEF Execute, contractVars
  <2>3. Avoided(m)'
    BY <1>5, <2>2, StatusAvoids
  <2> QED BY <1>6, <2>2, <2>3
<1>16. ASSUME NEW w \in Wallets, Rotate(w) PROVE Wedged' /\ UNCHANGED lastToSeq
  BY <1>3, <1>16 DEF Rotate, RotateCommitter
<1> QED BY <1>7, <1>8, <1>9, <1>10, <1>11, <1>12, <1>13, <1>14, <1>15, <1>16 DEF Next

(* A table ahead of the chain, with nothing under way for the chain's next *)
(* row, stays so for good: the worker asks only for what comes after its   *)
(* last row, and every such transaction reverts.                           *)
THEOREM StayWedged == Spec => StaysWedged
<1>1. TypeOK /\ Waiting /\ FollowInv /\ [Next]_vars => [Wedged => Wedged' /\ UNCHANGED lastToSeq]_vars
  BY WedgedStep
<1> QED BY <1>1, Follows, PTL DEF Spec, StaysWedged

(***************************************************************************)
(* One transaction per fault.  A range is asked for again only after a     *)
(* fault, or after the request for it was refused.                         *)
(***************************************************************************)
Of(s, for, from) == {i \in 1..Len(s) : s[i].for = for /\ s[i].from = from}

LEMMA OfType ==
  ASSUME NEW S, NEW s \in Seq(S), NEW for, NEW from
  PROVE  IsFiniteSet(Of(s, for, from)) /\ Cardinality(Of(s, for, from)) \in Nat
<1>1. IsFiniteSet(1..Len(s)) /\ Of(s, for, from) \in SUBSET (1..Len(s))
  <2>1. 1 \in Int /\ Len(s) \in Int
    OBVIOUS
  <2> QED BY <2>1, FS_Interval DEF Of
<1>2. IsFiniteSet(Of(s, for, from))
  BY <1>1, FS_Subset
<1> QED BY <1>2, FS_CardinalityType

LEMMA OfAppend ==
  ASSUME NEW S, NEW s \in Seq(S), NEW x \in S, NEW for, NEW from
  PROVE  Cardinality(Of(Append(s, x), for, from))
           = Cardinality(Of(s, for, from)) + (IF x.for = for /\ x.from = from THEN 1 ELSE 0)
<1>1. PICK n \in Nat : n = Len(s) + 1
  OBVIOUS
<1>2. PICK t : t = Append(s, x)
  OBVIOUS
<1>3. t[n] = x /\ \A i \in 1..Len(s) : t[i] = s[i]
  BY <1>1, <1>2, AppendParts
<1>4. \A i : i \in 1..Len(t) <=> i \in 1..Len(s) \/ i = n
  BY <1>1, <1>2
<1>5. n \notin 1..Len(s)
  BY <1>1
<1>6. PICK A : A = Of(s, for, from) /\ IsFiniteSet(A) /\ Cardinality(A) \in Nat
  BY OfType
<1>7. CASE x.for = for /\ x.from = from
  <2>1. Of(t, for, from) = A \union {n} /\ n \notin A
    BY <1>3, <1>4, <1>5, <1>6, <1>7 DEF Of
  <2>2. Cardinality(A \union {n}) = Cardinality(A) + 1
    BY <1>6, <2>1, FS_AddElement
  <2> QED BY <1>2, <1>6, <1>7, <2>1, <2>2
<1>8. CASE ~(x.for = for /\ x.from = from)
  <2>1. Of(t, for, from) = Of(s, for, from)
    BY <1>3, <1>4, <1>5, <1>8 DEF Of
  <2> QED BY <1>2, <1>6, <1>8, <2>1
<1> QED BY <1>7, <1>8

LEMMA OfTail ==
  ASSUME NEW S, NEW s \in Seq(S), s # << >>, NEW for, NEW from
  PROVE  Cardinality(Of(Tail(s), for, from))
           <= Cardinality(Of(s, for, from))
                - (IF Head(s).for = for /\ Head(s).from = from THEN 1 ELSE 0)
<1>1. PICK t : t = Tail(s)
  OBVIOUS
<1>2. Head(s) = s[1] /\ 1 \in 1..Len(s)
  OBVIOUS
<1>3. \A i \in 1..Len(t) : i \in Nat /\ i + 1 \in 1..Len(s) /\ t[i] = s[i + 1] /\ i + 1 # 1
  BY <1>1
<1>4. PICK A : A = Of(t, for, from)
  OBVIOUS
<1>5. PICK B : B = Of(s, for, from) \ {1}
  OBVIOUS
<1>6. /\ IsFiniteSet(B)
      /\ Cardinality(B) = IF 1 \in Of(s, for, from) THEN Cardinality(Of(s, for, from)) - 1
                                                    ELSE Cardinality(Of(s, for, from))
  <2>1. IsFiniteSet(Of(s, for, from))
    BY OfType
  <2> QED BY <1>5, <2>1, FS_RemoveElement
<1>7. 1 \in Of(s, for, from) <=> (Head(s).for = for /\ Head(s).from = from)
  BY <1>2 DEF Of
<1>8. PICK f : f = [i \in A |-> i + 1]
  OBVIOUS
<1>9. \A i \in A : i \in Nat /\ i + 1 \in B
  BY <1>3, <1>4, <1>5 DEF Of
<1>10. f \in [A -> B]
  BY <1>8, <1>9
<1>11. \A i, j \in A : f[i] = f[j] => i = j
  BY <1>8, <1>9
<1>12. f \in Injection(A, B)
  BY <1>10, <1>11, Fun_IsInj
<1>13. Cardinality(A) <= Cardinality(B)
  BY <1>6, <1>12, FS_Injection
<1>14. Cardinality(Of(s, for, from)) \in Nat
  BY OfType
<1> QED BY <1>1, <1>4, <1>6, <1>7, <1>13, <1>14

LEMMA OfSame ==
  ASSUME NEW s, NEW t, Len(t) = Len(s),
         \A i \in 1..Len(s) : t[i].for = s[i].for /\ t[i].from = s[i].from
  PROVE  \A for, from : Of(t, for, from) = Of(s, for, from)
BY DEF Of

Times(for, from) == Cardinality(Of(txs, for, from)) + Cardinality(Of(queue, for, from))

(* The loop is at this range, or has it behind it for good.                *)
Claimed(for, from) ==
  IF for = "main"
  THEN from <= LastAnchored \/ (main.step # "idle" /\ main.from = from)
  ELSE anchored[for] # 0 \/ (high.step # "idle" /\ high.event = for /\ high.from = from)

Paid ==
  \A for \in Callers, from \in Nat :
    Times(for, from) <= faults + (IF Claimed(for, from) THEN 1 ELSE 0)

(* The request a loop waits for is that of its range.                      *)
OwnRequest ==
  /\ \A i \in 1..Len(queue) :
       /\ queue[i].waits = "main" => queue[i].for = "main" /\ queue[i].from = main.from
       /\ queue[i].waits \in HighSig => queue[i].for = high.event /\ queue[i].from = high.from
  /\ high.step = "anchored" => anchored[high.event] # 0

LEMMA TimesType ==
  ASSUME TypeOK, NEW for, NEW from
  PROVE  Times(for, from) \in Nat
<1>1. txs \in Seq(Txs) /\ queue \in Seq(Requests)
  BY TypeParts
<1>2. Cardinality(Of(txs, for, from)) \in Nat
  BY <1>1, OfType
<1>3. Cardinality(Of(queue, for, from)) \in Nat
  BY <1>1, OfType
<1> QED BY <1>2, <1>3 DEF Times

LEMMA PrimedTimesType ==
  ASSUME TypeOK', NEW for, NEW from
  PROVE  Times(for, from)' \in Nat
<1>1. txs' \in Seq(Txs) /\ queue' \in Seq(Requests)
  BY DEF TypeOK, Txs, Requests
<1>2. Cardinality(Of(txs', for, from)) \in Nat
  BY <1>1, OfType
<1>3. Cardinality(Of(queue', for, from)) \in Nat
  BY <1>1, OfType
<1> QED BY <1>2, <1>3 DEF Times, Of

(* A step that costs a fault, and one that costs none.                     *)
LEMMA PaidByFault ==
  ASSUME TypeOK, TypeOK', Paid, Fault, \A for, from : Times(for, from)' <= Times(for, from)
  PROVE  Paid'
<1>1. faults \in Nat /\ faults' = faults + 1
  BY DEF TypeOK, Fault
<1>2. ASSUME NEW for \in Callers, NEW from \in Nat
      PROVE  Times(for, from)' <= faults' + (IF Claimed(for, from)' THEN 1 ELSE 0)
  <2>1. Times(for, from) \in Nat /\ Times(for, from)' \in Nat
    BY TimesType, PrimedTimesType
  <2>2. Times(for, from) <= faults + (IF Claimed(for, from) THEN 1 ELSE 0)
    BY DEF Paid
  <2>3. Times(for, from) <= faults + 1
    BY <1>1, <2>1, <2>2
  <2>4. Times(for, from)' <= Times(for, from)
    OBVIOUS
  <2>5. Times(for, from)' <= faults'
    BY <1>1, <2>1, <2>3, <2>4
  <2> QED BY <1>1, <2>1, <2>5
<1> QED BY <1>2 DEF Paid

LEMMA PaidKept ==
  ASSUME TypeOK, TypeOK', Paid, faults' >= faults,
         \A for, from : Times(for, from)' <= Times(for, from),
         \A for \in Callers, from \in Nat :
           Claimed(for, from) => Claimed(for, from)' \/ Times(for, from)' < Times(for, from)
  PROVE  Paid'
<1>1. ASSUME NEW for \in Callers, NEW from \in Nat
      PROVE  Times(for, from)' <= faults' + (IF Claimed(for, from)' THEN 1 ELSE 0)
  <2>1. Times(for, from) \in Nat /\ Times(for, from)' \in Nat
    BY TimesType, PrimedTimesType
  <2>2. Times(for, from) <= faults + (IF Claimed(for, from) THEN 1 ELSE 0)
    BY DEF Paid
  <2>3. /\ Times(for, from)' <= Times(for, from)
        /\ Claimed(for, from) => Claimed(for, from)' \/ Times(for, from)' < Times(for, from)
    OBVIOUS
  <2>4. faults \in Nat /\ faults' \in Nat
    BY DEF TypeOK
  <2> QED BY <2>1, <2>2, <2>3, <2>4
<1> QED BY <1>1 DEF Paid

(* A loop asks for a range it has not claimed yet.                         *)
LEMMA PaidRequest ==
  ASSUME TypeOK, TypeOK', Paid, UNCHANGED <<txs, faults>>,
         NEW by \in Callers, NEW at \in Nat, NEW to \in Nat, Request(by, at, to),
         ~Claimed(by, at), Claimed(by, at)',
         \A for \in Callers, from \in Nat : Claimed(for, from) => Claimed(for, from)'
  PROVE  Paid'
<1>1. [for |-> by, from |-> at, to |-> to, waits |-> by] \in Requests /\ queue \in Seq(Requests)
  BY TypeParts DEF Requests
<1>2. ASSUME NEW for \in Callers, NEW from \in Nat
      PROVE  Times(for, from)' <= faults' + (IF Claimed(for, from)' THEN 1 ELSE 0)
  <2>1. Cardinality(Of(queue, for, from))'
          = Cardinality(Of(queue, for, from)) + (IF by = for /\ at = from THEN 1 ELSE 0)
    <3> DEFINE r == [for |-> by, from |-> at, to |-> to, waits |-> by]
    <3>1. queue' = Append(queue, r) /\ r \in Requests /\ r.for = by /\ r.from = at
      BY <1>1 DEF Request
    <3> HIDE DEF r
    <3>2. Cardinality(Of(Append(queue, r), for, from))
            = Cardinality(Of(queue, for, from)) + (IF r.for = for /\ r.from = from THEN 1 ELSE 0)
      BY <1>1, <3>1, OfAppend
    <3> QED BY <3>1, <3>2 DEF Of
  <2>2. Cardinality(Of(txs, for, from))' = Cardinality(Of(txs, for, from))
    BY DEF Of
  <2>3. /\ Cardinality(Of(queue, for, from)) \in Nat /\ Cardinality(Of(txs, for, from)) \in Nat
        /\ faults \in Nat
    BY <1>1, OfType, TypeParts DEF TypeOK
  <2>4. Times(for, from) <= faults + (IF Claimed(for, from) THEN 1 ELSE 0)
    BY DEF Paid
  <2>5. Times(for, from)' = Times(for, from) + (IF by = for /\ at = from THEN 1 ELSE 0)
    BY <2>1, <2>2, <2>3 DEF Times
  <2>6. Times(for, from) \in Nat
    BY TimesType
  <2>7. CASE by = for /\ at = from
    BY <2>3, <2>4, <2>5, <2>6, <2>7
  <2>8. CASE ~(by = for /\ at = from)
    <3>1. Claimed(for, from) => Claimed(for, from)'
      OBVIOUS
    <3> QED BY <2>3, <2>4, <2>5, <2>6, <2>8, <3>1
  <2> QED BY <2>7, <2>8
<1> QED BY <1>2 DEF Paid

(* Requests and transactions keep what they are for.                       *)
LEMMA TimesSame ==
  ASSUME Len(txs') = Len(txs), Len(queue') = Len(queue),
         \A i \in 1..Len(txs) : txs'[i].for = txs[i].for /\ txs'[i].from = txs[i].from,
         \A i \in 1..Len(queue) : queue'[i].for = queue[i].for /\ queue'[i].from = queue[i].from
  PROVE  \A for, from : Times(for, from)' = Times(for, from)
<1>1. \A for, from : Of(txs, for, from)' = Of(txs, for, from)
  BY DEF Of
<1>2. \A for, from : Of(queue, for, from)' = Of(queue, for, from)
  BY DEF Of
<1> QED BY <1>1, <1>2 DEF Times

LEMMA AbandonedFor ==
  ASSUME TypeOK, NEW callers, queue' = Abandoned(callers)
  PROVE  /\ Len(queue') = Len(queue)
         /\ \A i \in 1..Len(queue) :
              /\ queue'[i].for = queue[i].for /\ queue'[i].from = queue[i].from
              /\ queue'[i].waits = (IF queue[i].waits \in callers THEN "nobody" ELSE queue[i].waits)
<1>1. queue \in Seq(Requests)
  BY TypeParts
<1>2. ASSUME NEW i \in 1..Len(queue) PROVE queue'[i].for = queue[i].for
  <2>1. queue[i] \in Requests
    BY <1>1
  <2>2. queue'[i] = [queue[i] EXCEPT !.waits = IF @ \in callers THEN "nobody" ELSE @]
    BY <1>1 DEF Abandoned
  <2> QED BY <2>1, <2>2 DEF Requests
<1> QED BY <1>1, <1>2, AbandonedType

(* The signer takes a request: it is broadcast, or refused.                *)
LEMMA TimesServed ==
  ASSUME TypeOK, TypeOK', queue # << >>, queue' = Tail(queue)
  PROVE  /\ UNCHANGED txs =>
              \A for, from : Times(for, from)'
                <= Times(for, from) - (IF Head(queue).for = for /\ Head(queue).from = from THEN 1 ELSE 0)
         /\ \A x \in Txs :
              txs' = Append(txs, x) /\ x.for = Head(queue).for /\ x.from = Head(queue).from
                => \A for, from : Times(for, from)' <= Times(for, from)
<1>1. queue \in Seq(Requests) /\ txs \in Seq(Txs)
  BY TypeParts
<1>2. queue' \in Seq(Requests) /\ txs' \in Seq(Txs)
  BY DEF TypeOK, Requests, Txs
<1>3. ASSUME NEW for, NEW from
      PROVE  /\ Cardinality(Of(queue, for, from)) \in Nat /\ Cardinality(Of(queue', for, from)) \in Nat
             /\ Cardinality(Of(txs, for, from)) \in Nat
             /\ Cardinality(Of(queue', for, from))
                  <= Cardinality(Of(queue, for, from))
                       - (IF Head(queue).for = for /\ Head(queue).from = from THEN 1 ELSE 0)
  <2>1. Cardinality(Of(queue, for, from)) \in Nat
    BY <1>1, OfType
  <2>2. Cardinality(Of(queue', for, from)) \in Nat
    BY <1>2, OfType
  <2>3. Cardinality(Of(txs, for, from)) \in Nat
    BY <1>1, OfType
  <2>4. Cardinality(Of(queue', for, from))
          <= Cardinality(Of(queue, for, from))
               - (IF Head(queue).for = for /\ Head(queue).from = from THEN 1 ELSE 0)
    BY <1>1, OfTail
  <2> QED BY <2>1, <2>2, <2>3, <2>4
<1>4. ASSUME UNCHANGED txs, NEW for, NEW from
      PROVE  Times(for, from)'
               <= Times(for, from) - (IF Head(queue).for = for /\ Head(queue).from = from THEN 1 ELSE 0)
  <2>1. Times(for, from)' = Cardinality(Of(txs, for, from)) + Cardinality(Of(queue', for, from))
    BY <1>4 DEF Times, Of
  <2> QED BY <1>3, <2>1 DEF Times
<1>5. ASSUME NEW x \in Txs, txs' = Append(txs, x), x.for = Head(queue).for, x.from = Head(queue).from,
             NEW for, NEW from
      PROVE  Times(for, from)' <= Times(for, from)
  <2>1. Cardinality(Of(txs', for, from))
          = Cardinality(Of(txs, for, from)) + (IF x.for = for /\ x.from = from THEN 1 ELSE 0)
    BY <1>1, <1>5, OfAppend
  <2>2. Times(for, from)' = Cardinality(Of(txs', for, from)) + Cardinality(Of(queue', for, from))
    BY DEF Times, Of
  <2> QED BY <1>3, <1>5, <2>1, <2>2 DEF Times
<1> QED BY <1>4, <1>5

LEMMA AnswerOwn ==
  ASSUME TypeOK, Waiting, OwnRequest, queue # << >>, NEW tx \in Nat, Answer(Head(queue), tx),
         queue' = Tail(queue), UNCHANGED anchored
  PROVE  OwnRequest'
<1>1. queue \in Seq(Requests) /\ 1 \in 1..Len(queue) /\ Head(queue) = queue[1]
      /\ main \in LoopStates /\ high \in LoopStates
  BY TypeParts
<1>2. \A i \in 1..Len(queue') : i + 1 \in 1..Len(queue) /\ queue'[i] = queue[i + 1] /\ i + 1 # 1
  BY <1>1
<1>3. \A i \in 1..Len(queue') : queue'[i].waits = "main" => queue[1].waits # "main"
  BY <1>1, <1>2 DEF Waiting
<1>4. \A i \in 1..Len(queue') : queue'[i].waits \in HighSig => queue[1].waits \notin HighSig
  BY <1>1, <1>2 DEF Waiting
<1>5. /\ queue[1].waits # "main" => main' = main
      /\ queue[1].waits \notin HighSig => high' = high
      /\ high' = high \/ high'.step # "anchored"
  BY <1>1, AnsweredType DEF Answer
<1> QED BY <1>2, <1>3, <1>4, <1>5 DEF OwnRequest

(* A loop that gets its hash still claims its range.                       *)
LEMMA AnswerClaims ==
  ASSUME TypeOK, Waiting, queue # << >>, NEW tx \in Nat \ {0}, Answer(Head(queue), tx),
         UNCHANGED <<rows, anchored>>
  PROVE  \A for, from : Claimed(for, from) => Claimed(for, from)'
<1>1. main \in LoopStates /\ high \in LoopStates
  BY TypeParts
<1>2. /\ main'.from = main.from /\ (main.step # "idle" => main'.step # "idle")
      /\ high'.from = high.from /\ high'.event = high.event
      /\ high.step # "idle" => high'.step # "idle"
  BY <1>1, AnsweredType DEF Answer
<1>3. LastAnchored' = LastAnchored
  BY DEF LastAnchored
<1> QED BY <1>2, <1>3 DEF Claimed

LEMMA RequestOwn ==
  ASSUME TypeOK, Waiting, OwnRequest, NEW by \in Callers, NEW at \in Nat, NEW to \in Nat,
         Request(by, at, to), UNCHANGED anchored,
         \/ /\ by = "main" /\ main.step = "idle" /\ main' = Sending(by, at, to) /\ high' = high
         \/ /\ by \in HighSig /\ high.step = "idle" /\ high' = Sending(by, at, to) /\ main' = main
  PROVE  OwnRequest'
<1> DEFINE r == [for |-> by, from |-> at, to |-> to, waits |-> by]
<1>1. r \in Requests /\ queue' = Append(queue, r) /\ r.for = by /\ r.from = at /\ r.waits = by
  BY DEF Requests, Request
<1> HIDE DEF r
<1>2. queue \in Seq(Requests)
  BY TypeParts
<1>3. /\ Len(queue') = Len(queue) + 1 /\ queue'[Len(queue) + 1] = r
      /\ \A i \in 1..Len(queue) : queue'[i] = queue[i]
      /\ \A i \in 1..Len(queue') : i \in 1..Len(queue) \/ i = Len(queue) + 1
  BY <1>1, <1>2
<1>4. \A i \in 1..Len(queue) : queue[i].waits = "main" => main.step = "sending"
  BY DEF Waiting
<1>5. \A i \in 1..Len(queue) : queue[i].waits \in HighSig => high.step = "sending"
  BY DEF Waiting
<1>6. "main" \notin HighSig
  OBVIOUS
<1>7. PICK s : s = Sending(by, at, to) /\ s.step = "sending" /\ s.event = by /\ s.from = at
  BY SendingType
<1>8. CASE by = "main" /\ main.step = "idle" /\ main' = s /\ high' = high
  BY <1>1, <1>3, <1>4, <1>6, <1>7, <1>8 DEF OwnRequest
<1>9. CASE by \in HighSig /\ high.step = "idle" /\ high' = s /\ main' = main
  BY <1>1, <1>3, <1>5, <1>6, <1>7, <1>9 DEF OwnRequest
<1> QED BY <1>7, <1>8, <1>9

(* A step that leaves both loops, what they record, and every request and  *)
(* transaction for what it is for.                                         *)
LEMMA PaidStays ==
  ASSUME TypeOK, TypeOK', Paid, OwnRequest, UNCHANGED <<queue, main, high, rows, anchored>>,
         faults' >= faults, Len(txs') = Len(txs),
         \A i \in 1..Len(txs) : txs'[i].for = txs[i].for /\ txs'[i].from = txs[i].from
  PROVE  Paid' /\ OwnRequest'
<1>1. \A for, from : Times(for, from)' = Times(for, from)
  BY TimesSame
<1>2. \A for, from : Claimed(for, from)' = Claimed(for, from)
  BY DEF Claimed, LastAnchored
<1>3. \A for, from : Times(for, from)' <= Times(for, from)
  <2>1. \A for, from : Times(for, from) \in Nat
    BY TimesType
  <2> QED BY <1>1, <2>1
<1>4. Paid'
  BY <1>2, <1>3, PaidKept
<1> QED BY <1>4 DEF OwnRequest

LEMMA PaidStep ==
  ASSUME TypeOK, TypeOK', Waiting, FollowInv, Paid, OwnRequest, [Next]_vars
  PROVE  Paid' /\ OwnRequest'
<1> USE DEF workerVars, contractVars
<1>0. /\ queue \in Seq(Requests) /\ txs \in Seq(Txs) /\ main \in LoopStates /\ high \in LoopStates
      /\ RowTypes /\ MainNext /\ faults \in Nat /\ (Fault => faults' >= faults)
  <2>1. faults \in Nat /\ (Fault => faults' = faults + 1)
    BY DEF TypeOK, Fault
  <2>2. RowTypes /\ MainNext
    BY RowFacts DEF FollowInv
  <2>3. queue \in Seq(Requests) /\ txs \in Seq(Txs) /\ main \in LoopStates /\ high \in LoopStates
    BY TypeParts
  <2> QED BY <2>1, <2>2, <2>3
<1>1. CASE AppendRow \/ ChangeKey \/ UNCHANGED vars
  BY <1>0, <1>1, PaidStays DEF AppendRow, ChangeKey, vars
<1>2. ASSUME NEW w \in Wallets, Rotate(w) PROVE Paid' /\ OwnRequest'
  BY <1>0, <1>2, PaidStays DEF Rotate, RotateCommitter
<1>3. ASSUME NEW i \in Pending, Execute(i) \/ Drop(i) PROVE Paid' /\ OwnRequest'
  <2>1. PICK status \in {"done", "reverted", "dropped"} : txs' = [txs EXCEPT ![i].status = status]
    BY <1>3 DEF Execute, Drop
  <2>2. i \in 1..Len(txs) /\ txs[i] \in Txs
    BY <1>0 DEF Pending
  <2>3. /\ Len(txs') = Len(txs)
        /\ \A j \in 1..Len(txs) : txs'[j].for = txs[j].for /\ txs'[j].from = txs[j].from
    <3>1. txs' = [txs EXCEPT ![i] = [txs[i] EXCEPT !.status = status]]
      BY <2>1
    <3>2. /\ [txs[i] EXCEPT !.status = status].for = txs[i].for
          /\ [txs[i] EXCEPT !.status = status].from = txs[i].from
      BY <2>2 DEF Txs
    <3> QED BY <1>0, <2>2, <3>1, <3>2
  <2> QED BY <1>0, <1>3, <2>3, PaidStays DEF Execute, Drop
<1>4. CASE MainTick
  <2>1. PICK from, to : /\ from = LastAnchored + 1 /\ to = Lesser(tail, from + MaxBatch - 1)
                        /\ main' = Sending("main", from, to) /\ Request("main", from, to)
    BY <1>4 DEF MainTick
  <2>2. from \in Nat /\ to \in Nat /\ "main" \in Callers
    BY <1>4, <2>1, NextRange DEF MainTick, Callers, TypeOK
  <2>3. main'.step = "sending" /\ main'.from = from /\ main.step = "idle"
        /\ UNCHANGED <<high, rows, anchored, txs, faults>>
    BY <1>4, <2>1, <2>2, SendingType DEF MainTick
  <2>4. LastAnchored' = LastAnchored
    BY <2>3 DEF LastAnchored
  <2>5. ~Claimed("main", from) /\ Claimed("main", from)'
    BY <1>0, <2>1, <2>3 DEF Claimed, RowTypes
  <2>6. \A f, n : Claimed(f, n) => Claimed(f, n)'
    BY <2>3, <2>4 DEF Claimed
  <2>7. Paid'
    BY <2>1, <2>2, <2>3, <2>5, <2>6, PaidRequest
  <2> QED BY <2>1, <2>2, <2>3, <2>7, RequestOwn
<1>5. ASSUME NEW e \in HighSig, HighSigTick(e) PROVE Paid' /\ OwnRequest'
  <2>1. PICK s : s = Stamp[e] /\ s \in Nat /\ e \in Callers /\ e # "main"
    BY DEF Callers
  <2>2. high' = Sending(e, s, s) /\ Request(e, s, s) /\ high.step = "idle" /\ anchored[e] = 0
        /\ UNCHANGED <<main, rows, anchored, txs, faults>>
    BY <1>5, <2>1 DEF HighSigTick
  <2>3. high'.step = "sending" /\ high'.from = s /\ high'.event = e
    BY <2>1, <2>2, SendingType
  <2>4. ~Claimed(e, s) /\ Claimed(e, s)'
    BY <2>1, <2>2, <2>3 DEF Claimed
  <2>5. \A f, n : Claimed(f, n) => Claimed(f, n)'
    BY <2>2 DEF Claimed, LastAnchored
  <2>6. Paid'
    BY <2>1, <2>2, <2>4, <2>5, PaidRequest
  <2> QED BY <2>1, <2>2, <2>6, RequestOwn
<1>6. ASSUME UNCHANGED <<txs, queue>> PROVE \A f, n : Times(f, n)' <= Times(f, n)
  <2>1. \A f, n : Times(f, n)' = Times(f, n)
    BY <1>6 DEF Times, Of
  <2>2. \A f, n : Times(f, n) \in Nat
    BY TimesType
  <2> QED BY <2>1, <2>2
<1>7. CASE InsertRow
  <2>1. main.step = "sent" /\ main' = Idle /\ UNCHANGED <<txs, queue, anchored, high>>
    BY <1>7 DEF InsertRow
  <2>2. OwnRequest'
    BY <2>1 DEF Waiting, OwnRequest
  <2>3. CASE Fault
    BY <1>6, <2>1, <2>2, <2>3, PaidByFault
  <2>4. CASE rows' = Append(rows, [from |-> main.from, to |-> main.to, tx |-> main.tx]) /\ UNCHANGED faults
    <3>1. [from |-> main.from, to |-> main.to, tx |-> main.tx] \in [from : Nat, to : Nat, tx : Nat]
      BY <1>0 DEF LoopStates
    <3>2. Len(rows') = Len(rows) + 1 /\ rows'[Len(rows) + 1].to = main.to
      BY <1>0, <1>7, <2>1, <2>4, <3>1, RowInserted DEF FollowInv, InsertRow
    <3>3. RowTypes'
      BY RowFacts, PTL
    <3>4. main.from = LastAnchored + 1 /\ main.from <= main.to
      BY <1>0, <2>1 DEF MainNext
    <3>5. LastAnchored' = main.to /\ LastAnchored <= LastAnchored' /\ main.from <= LastAnchored'
      <4>1. /\ LastAnchored \in Nat /\ Len(rows) \in Nat /\ main.to \in Nat
            /\ LastAnchored' = (IF Len(rows') = 0 THEN 0 ELSE rows'[Len(rows')].to)
        BY <1>0, <3>3 DEF RowTypes
      <4>2. Len(rows') # 0 /\ LastAnchored' = main.to
        BY <3>2, <4>1
      <4> QED BY <3>4, <4>1, <4>2
    <3>6. \A f \in Callers, n \in Nat : Claimed(f, n) => Claimed(f, n)'
      <4>1. LastAnchored \in Nat /\ LastAnchored' \in Nat
        BY <1>0, <3>3 DEF RowTypes
      <4> QED BY <2>1, <3>5, <4>1 DEF Claimed
    <3>7. Paid'
      BY <1>0, <1>6, <2>1, <2>4, <3>6, PaidKept
    <3> QED BY <2>2, <3>7
  <2> QED BY <1>7, <2>3, <2>4 DEF InsertRow
<1>8. CASE SetAnchorTx
  <2>1. high.step = "sent" /\ UNCHANGED <<txs, queue, main, rows>>
    BY <1>8 DEF SetAnchorTx
  <2>2. \A i \in 1..Len(queue) : queue[i].waits \notin HighSig
    BY <2>1 DEF Waiting
  <2>3. CASE Fault /\ high' = Idle /\ UNCHANGED anchored
    <3>1. OwnRequest'
      BY <2>1, <2>2, <2>3, IdleType DEF OwnRequest
    <3> QED BY <1>6, <2>1, <2>3, <3>1, PaidByFault
  <2>4. CASE /\ anchored' = [anchored EXCEPT ![high.event] = high.tx]
             /\ high' = [high EXCEPT !.step = "anchored"] /\ UNCHANGED faults
    <3>1. high.event \in HighSig /\ high.tx # 0 /\ anchored \in [HighSig -> Nat]
      <4>1. TxsKnown /\ anchored \in [HighSig -> Nat]
        BY TypeParts
      <4> QED BY <2>1, <4>1 DEF TxsKnown
    <3>2. /\ anchored'[high.event] # 0 /\ \A e \in HighSig : anchored[e] # 0 => anchored'[e] # 0
          /\ high'.step = "anchored" /\ high'.event = high.event
      BY <1>0, <2>4, <3>1 DEF LoopStates
    <3>3. OwnRequest'
      BY <2>1, <2>2, <3>2 DEF OwnRequest
    <3>4. \A f \in Callers, n \in Nat : Claimed(f, n) => Claimed(f, n)'
      BY <2>1, <3>2 DEF Claimed, LastAnchored, Callers
    <3>5. Paid'
      BY <1>0, <1>6, <2>1, <2>4, <3>4, PaidKept
    <3> QED BY <3>3, <3>5
  <2> QED BY <1>8, <2>3, <2>4 DEF SetAnchorTx
<1>9. CASE RecordPublic
  <2>1. high.step = "anchored" /\ high' = Idle /\ UNCHANGED <<txs, queue, main, rows, anchored>>
        /\ faults' >= faults
    BY <1>0, <1>9 DEF RecordPublic
  <2>2. \A i \in 1..Len(queue) : queue[i].waits \notin HighSig
    BY <2>1 DEF Waiting
  <2>3. OwnRequest'
    BY <2>1, <2>2, IdleType DEF OwnRequest
  <2>4. \A f \in Callers, n \in Nat : Claimed(f, n) => Claimed(f, n)'
    BY <2>1 DEF Claimed, LastAnchored, OwnRequest
  <2>5. Paid'
    BY <1>6, <2>1, <2>4, PaidKept
  <2> QED BY <2>3, <2>5
<1>10. CASE Timeout \/ Crash
  <2>1. PICK callers : /\ queue' = Abandoned(callers) /\ Fault /\ UNCHANGED <<txs, anchored>>
                       /\ main' = main \/ "main" \in callers
                       /\ high' = high \/ (HighSig \subseteq callers /\ high' = Idle)
    BY <1>10 DEF Timeout, Crash, Callers
  <2>2. /\ Len(queue') = Len(queue)
        /\ \A i \in 1..Len(queue) :
             /\ queue'[i].for = queue[i].for /\ queue'[i].from = queue[i].from
             /\ queue'[i].waits = (IF queue[i].waits \in callers THEN "nobody" ELSE queue[i].waits)
    BY <2>1, AbandonedFor
  <2>3. "nobody" \notin HighSig
    OBVIOUS
  <2>4. OwnRequest'
    BY <2>1, <2>2, <2>3, IdleType DEF OwnRequest
  <2>5. \A f, n : Times(f, n)' = Times(f, n) /\ Times(f, n) \in Nat
    BY <2>1, <2>2, TimesSame, TimesType
  <2>6. \A f, n : Times(f, n)' <= Times(f, n)
    BY <2>5
  <2> QED BY <2>1, <2>4, <2>6, PaidByFault
<1>11. CASE Broadcast
  <2>1. /\ queue # << >> /\ queue' = Tail(queue) /\ UNCHANGED <<rows, anchored>>
        /\ txs' = Append(txs, [for |-> Head(queue).for, from |-> Head(queue).from,
                               to |-> Head(queue).to, by |-> wallet, status |-> "pending"])
        /\ \/ Answer(Head(queue), Len(txs) + 1) /\ UNCHANGED faults
           \/ Fault /\ Answer(Head(queue), 0)
    BY <1>11 DEF Broadcast
  <2>2. [for |-> Head(queue).for, from |-> Head(queue).from,
         to |-> Head(queue).to, by |-> wallet, status |-> "pending"] \in Txs
    <3>1. Head(queue) \in Requests
      BY <1>0, <2>1
    <3> QED BY <3>1, TypeParts DEF Requests, Txs
  <2>3. \A f, n : Times(f, n)' <= Times(f, n)
    BY <2>1, <2>2, TimesServed
  <2>4. CASE Answer(Head(queue), Len(txs) + 1) /\ UNCHANGED faults
    <3>1. PICK tx \in Nat \ {0} : tx = Len(txs) + 1
      BY <1>0
    <3>2. OwnRequest' /\ \A f, n : Claimed(f, n) => Claimed(f, n)'
      BY <2>1, <2>4, <3>1, AnswerOwn, AnswerClaims
    <3>3. Paid'
      BY <1>0, <2>3, <2>4, <3>2, PaidKept
    <3> QED BY <3>2, <3>3
  <2>5. CASE Fault /\ Answer(Head(queue), 0)
    BY <2>1, <2>3, <2>5, AnswerOwn, PaidByFault
  <2> QED BY <2>1, <2>4, <2>5
<1>12. CASE Refuse
  <2>1. /\ queue # << >> /\ queue' = Tail(queue) /\ UNCHANGED <<rows, anchored, txs, faults>>
        /\ Answer(Head(queue), 0)
    BY <1>12 DEF Refuse
  <2>2. OwnRequest'
    BY <2>1, AnswerOwn
  <2>3. \A f, n : Times(f, n)'
          <= Times(f, n) - (IF Head(queue).for = f /\ Head(queue).from = n THEN 1 ELSE 0)
    BY <2>1, TimesServed
  <2>4. \A f, n : Times(f, n) \in Nat /\ Times(f, n)' \in Nat
    BY TimesType, PrimedTimesType
  <2>5. /\ Head(queue).waits = "main" => Head(queue).for = "main" /\ Head(queue).from = main.from
        /\ Head(queue).waits \in HighSig
             => Head(queue).for = high.event /\ Head(queue).from = high.from
    <3>1. 1 \in 1..Len(queue) /\ Head(queue) = queue[1]
      BY <1>0, <2>1
    <3> QED BY <3>1 DEF OwnRequest
  <2>6. /\ Head(queue).waits # "main" => main' = main
        /\ Head(queue).waits \notin HighSig => high' = high
    BY <2>1 DEF Answer
  <2>7. \A f \in Callers, n \in Nat :
          Claimed(f, n) => Claimed(f, n)' \/ (Head(queue).for = f /\ Head(queue).from = n)
    BY <2>1, <2>5, <2>6 DEF Claimed, LastAnchored
  <2>8. \A f \in Callers, n \in Nat : Claimed(f, n) => Claimed(f, n)' \/ Times(f, n)' < Times(f, n)
    BY <2>3, <2>4, <2>7
  <2>9. \A f, n : Times(f, n)' <= Times(f, n)
    BY <2>3, <2>4
  <2>10. Paid'
    BY <1>0, <2>1, <2>8, <2>9, PaidKept
  <2> QED BY <2>2, <2>10
<1> QED BY <1>1, <1>2, <1>3, <1>4, <1>5, <1>7, <1>8, <1>9, <1>10, <1>11, <1>12 DEF Next

(* worker-anchor: "the on-chain commit isn't duplicated".  A range of rows *)
(* or a high-significance event is broadcast once, and once more at most   *)
(* for every fault, whatever is lost, refused, late or restarted.          *)
THEOREM OneTx == Spec => []OneTxPerFault
<1>1. Init => Paid /\ OwnRequest
  <2> SUFFICES ASSUME Init PROVE Paid /\ OwnRequest
    OBVIOUS
  <2>1. txs = << >> /\ queue = << >> /\ faults = 0 /\ high.step = "idle"
    BY IdleType DEF Init
  <2>2. \A f, n : Of(txs, f, n) = {} /\ Of(queue, f, n) = {}
    BY <2>1 DEF Of
  <2>3. \A f, n : Times(f, n) = 0
    <3>1. Cardinality({}) = 0
      BY FS_EmptySet
    <3> QED BY <2>2, <3>1 DEF Times
  <2> QED BY <2>1, <2>3 DEF Paid, OwnRequest
<1>2. TypeOK /\ TypeOK' /\ Waiting /\ FollowInv /\ Paid /\ OwnRequest /\ [Next]_vars
        => Paid' /\ OwnRequest'
  BY PaidStep
<1>3. TypeOK /\ Paid => OneTxPerFault
  <2> SUFFICES ASSUME TypeOK, Paid, NEW i \in 1..Len(txs)
               PROVE  Cardinality(Of(txs, txs[i].for, txs[i].from)) <= 1 + faults
    BY DEF OneTxPerFault, Of
  <2>1. txs \in Seq(Txs) /\ queue \in Seq(Requests) /\ faults \in Nat
    <3>1. faults \in Nat
      BY DEF TypeOK
    <3> QED BY <3>1, TypeParts
  <2>2. PICK f \in Callers, n \in Nat : f = txs[i].for /\ n = txs[i].from
    <3>1. txs[i] \in Txs
      BY <2>1
    <3> QED BY <3>1 DEF Txs
  <2>3. Times(f, n) <= faults + 1
    <3>1. Times(f, n) <= faults + (IF Claimed(f, n) THEN 1 ELSE 0)
      BY DEF Paid
    <3>2. Times(f, n) \in Nat
      BY TimesType
    <3> QED BY <2>1, <3>1, <3>2
  <2>4. Cardinality(Of(txs, f, n)) \in Nat
    BY <2>1, OfType
  <2>5. Cardinality(Of(queue, f, n)) \in Nat
    BY <2>1, OfType
  <2> QED BY <2>1, <2>2, <2>3, <2>4, <2>5 DEF Times
<1> QED BY <1>1, <1>2, <1>3, Follows, PTL DEF Spec

(* Whatever worker, signer and network do, the contract runs as            *)
(* VIGILAnchor: all they can do to it is to call commit or rotateCommitter.*)
THEOREM ContractImplemented == Spec => ContractSpec
<1>1. Init => ContractInit
  BY DEF Init
<1>2. TypeOK /\ [Next]_vars => [ContractNext]_contractVars
  <2> SUFFICES ASSUME TypeOK, [Next]_vars PROVE [ContractNext]_contractVars
    OBVIOUS
  <2>1. ASSUME NEW i \in Pending, Execute(i) PROVE [ContractNext]_contractVars
    <3>1. txs[i] \in Txs
      BY TypeParts DEF Pending
    <3>2. txs[i].by \in Wallets /\ txs[i].from \in Nat /\ txs[i].to \in Nat
      BY <3>1 DEF Txs
    <3> QED BY <2>1, <3>2 DEF Execute, ContractNext
  <2>2. ASSUME NEW w \in Wallets, Rotate(w) PROVE [ContractNext]_contractVars
    BY <2>2 DEF Rotate, ContractNext
  <2>3. ASSUME NEW i \in Pending, Drop(i) PROVE UNCHANGED contractVars
    BY <2>3 DEF Drop
  <2>4. ASSUME NEW e \in HighSig, HighSigTick(e) PROVE UNCHANGED contractVars
    BY <2>4 DEF HighSigTick
  <2>5. CASE AppendRow \/ MainTick \/ InsertRow \/ SetAnchorTx \/ RecordPublic
    BY <2>5 DEF AppendRow, MainTick, InsertRow, SetAnchorTx, RecordPublic
  <2>6. CASE Timeout \/ Crash \/ Broadcast \/ Refuse \/ ChangeKey \/ UNCHANGED vars
    BY <2>6 DEF Timeout, Crash, Broadcast, Refuse, ChangeKey, vars
  <2> QED BY <2>1, <2>2, <2>3, <2>4, <2>5, <2>6 DEF Next
<1> QED BY <1>1, <1>2, TypeCorrect, PTL DEF Spec, ContractSpec
==============================================================================
