-------------------------- MODULE FederationProofs --------------------------
(***************************************************************************)
(* Proofs about FederationStream, for any envelopes, batch size and number *)
(* of faults: every waiting handler can be resolved, what is acknowledged  *)
(* in the region is accounted for, and extra events at the core need       *)
(* broken calls.                                                           *)
(***************************************************************************)
EXTENDS FederationStream, TLAPS

USE FederationAssumption DEF FederationAssumption

(***************************************************************************)
(* Type correctness.                                                       *)
(***************************************************************************)

(* A flushed batch goes to the end of the chain. *)
LEMMA ChainGrows ==
  ASSUME chain \in Seq(Batches), NEW b \in Batches, chain' = Append(chain, b)
  PROVE  /\ chain' \in Seq(Batches) /\ Len(chain') = Len(chain) + 1
         /\ chain'[Len(chain) + 1] = b
         /\ \A i \in 1..Len(chain) : chain'[i] = chain[i]
  OBVIOUS

(* The open call takes the batch at the head of the chain. *)
LEMMA ChainShrinks ==
  ASSUME chain \in Seq(Batches), chain # << >>, chain' = Tail(chain)
  PROVE  /\ chain' \in Seq(Batches) /\ Len(chain') = Len(chain) - 1
         /\ Len(chain) \in Nat \ {0} /\ Head(chain) = chain[1] /\ Head(chain) \in Batches
         /\ \A i \in 1..Len(chain') : chain'[i] = chain[i + 1]
  OBVIOUS

LEMMA FlushType ==
  ASSUME chain \in Seq(Batches), NEW envs \in SUBSET Envelopes,
         NEW waiting \in SUBSET Envelopes, CloseBatch(envs, waiting)
  PROVE  chain' \in Seq(Batches) /\ pending' \subseteq Envelopes /\ resolvers' \subseteq Envelopes
<1>1. [envs |-> envs, waiters |-> envs \intersect waiting] \in Batches
  BY DEF Batches
<1> QED BY <1>1, ChainGrows DEF CloseBatch

LEMMA PushType ==
  ASSUME TypeOK, NEW e \in Envelopes, Push(e)
  PROVE  chain' \in Seq(Batches) /\ pending' \subseteq Envelopes /\ resolvers' \subseteq Envelopes
<1>1. pending \union {e} \in SUBSET Envelopes /\ resolvers \union {e} \in SUBSET Envelopes
  BY DEF TypeOK
<1>2. CASE CloseBatch(pending \union {e}, resolvers \union {e})
  BY <1>1, <1>2, FlushType DEF TypeOK
<1>3. CASE ~CloseBatch(pending \union {e}, resolvers \union {e})
  BY <1>1, <1>3 DEF Push, TypeOK
<1> QED BY <1>2, <1>3

(* An envelope the core receives adds one event to those of its repeated   *)
(* XADDs, and only with an answer that lets the agent acknowledge it.      *)
LEMMA ReceiveCounts ==
  ASSUME TypeOK, NEW e \in Envelopes, NEW ans \in Answers, Receive(e, ans)
  PROVE  /\ \A f \in Envelopes :
              /\ published[f] \in Nat /\ published'[f] \in Nat /\ published[f] <= published'[f]
              /\ repeats[f] \in Nat /\ repeats'[f] \in Nat
              /\ f # e => published'[f] = published[f] /\ repeats'[f] = repeats[f]
         /\ published'[e] + repeats[e] <= published[e] + repeats'[e] + 1
         /\ ans \notin Acks => published' = published /\ repeats' = repeats
         /\ ans = "accepted" => published'[e] > 0
<1>1. /\ published \in [Envelopes -> Nat] /\ repeats \in [Envelopes -> Nat]
  BY DEF TypeOK
<1>2. CASE \/ Kind[e] = "garbled" /\ UNCHANGED <<published, repeats>> /\ ans # "accepted"
           \/ ans \in Verdicts(e) /\ UNCHANGED <<published, repeats>>
  BY <1>1, <1>2 DEF Verdicts, Kinds
<1>3. ASSUME NEW again \in 0..MaxFaults, NEW last \in {0, 1}, Xadd(e, again + last, again),
             ans \in Acks, ans = "accepted" => last = 1
      PROVE  /\ \A f \in Envelopes :
                  /\ published'[f] = IF f = e THEN published[f] + (again + last) ELSE published[f]
                  /\ repeats'[f] = IF f = e THEN repeats[f] + again ELSE repeats[f]
             /\ ans = "accepted" => last = 1
  BY <1>1, <1>3 DEF Xadd
<1> QED BY <1>1, <1>2, <1>3 DEF Receive, OnAccepted, Acks

LEMMA ReceiveType ==
  ASSUME TypeOK, NEW e \in Envelopes, NEW ans \in Answers, Receive(e, ans)
  PROVE  /\ published' \in [Envelopes -> Nat] /\ repeats' \in [Envelopes -> Nat]
         /\ threw' \subseteq Envelopes /\ faults' \in Nat
<1>1. ASSUME NEW again \in 0..MaxFaults, NEW runs \in Nat, Xadd(e, runs, again)
      PROVE  published' \in [Envelopes -> Nat] /\ repeats' \in [Envelopes -> Nat]
  BY <1>1 DEF TypeOK, Xadd
<1>2. faults \in Nat /\ threw \subseteq Envelopes
  BY DEF TypeOK
<1>3. CASE UNCHANGED <<published, repeats>>
  BY <1>2, <1>3 DEF TypeOK, Receive, OnAccepted
<1>4. CASE ~UNCHANGED <<published, repeats>>
  <2>1. \E again \in 0..MaxFaults, last \in {0, 1} :
          /\ Xadd(e, again + last, again)
          /\ faults' \in {faults + again, faults + again + 1}
          /\ threw' \in {threw, threw \union {e}}
    BY <1>4 DEF Receive, OnAccepted
  <2> QED BY <1>1, <1>2, <2>1
<1> QED BY <1>3, <1>4

LEMMA AbandonType ==
  ASSUME TypeOK, NEW got, Abandon(got)
  PROVE  leftover' \in [Envelopes -> Nat]
  BY DEF TypeOK, Abandon

LEMMA NoBatchType == NoBatch \in Batches /\ None \in [Envelopes -> Answers \union {"none"}]
  BY DEF NoBatch, Batches, None

LEMMA ResolveType ==
  ASSUME TypeOK, NEW ans \in [Envelopes -> Answers \union {"none"}], Resolve(ans)
  PROVE  /\ entry' \in [Envelopes -> Entries]
         /\ answer' \in [Envelopes -> Answers \union {"none"}]
  BY DEF TypeOK, Resolve, Entries

LEMMA InitType == Init => TypeOK
<1> SUFFICES ASSUME Init PROVE TypeOK
  OBVIOUS
<1>1. << >> \in Seq(Batches)
  OBVIOUS
<1> QED BY <1>1, NoBatchType DEF Init, TypeOK, Entries

(* Every variable keeps to its type. *)
LEMMA TypeStep == TypeOK /\ [Next]_vars => TypeOK'
<1> SUFFICES ASSUME TypeOK, [Next]_vars PROVE TypeOK'
  OBVIOUS
<1>1. ASSUME NEW e \in Envelopes, Handle(e) PROVE TypeOK'
  <2>1. CASE Kind[e] = "foreign"
    BY <1>1, <2>1 DEF Handle, TypeOK, clientVars, callVars, coreVars, bounds, Entries
  <2>2. CASE Kind[e] # "foreign"
    <3>1. chain' \in Seq(Batches) /\ pending' \subseteq Envelopes /\ resolvers' \subseteq Envelopes
      BY <1>1, <2>2, PushType DEF Handle
    <3>2. /\ attempts' = [attempts EXCEPT ![e] = @ + 1]
          /\ entry' = [entry EXCEPT ![e] = "waiting"]
      BY <1>1, <2>2 DEF Handle
    <3>3. attempts' \in [Envelopes -> Nat] /\ entry' \in [Envelopes -> Entries]
      BY <3>2 DEF TypeOK, Entries
    <3> QED BY <1>1, <3>1, <3>3 DEF Handle, TypeOK, callVars, coreVars, bounds
  <2> QED BY <2>1, <2>2
<1>2. ASSUME NEW e \in Envelopes, Settle(e) PROVE TypeOK'
  <2>1. \E next \in Entries : entry' = [entry EXCEPT ![e] = next]
    BY <1>2 DEF Settle, AfterRetry, Entries
  <2>2. entry' \in [Envelopes -> Entries]
    BY <2>1 DEF TypeOK
  <2> QED BY <1>2, <2>2 DEF Settle, TypeOK, clientVars, callVars, coreVars, bounds
<1>3. ASSUME NEW e \in Envelopes, ReclaimWaiting(e) \/ Redeliver(e) PROVE TypeOK'
  <2>1. entry' \in [Envelopes -> Entries] /\ skipped' \subseteq Envelopes
    BY <1>3 DEF ReclaimWaiting, Redeliver, TypeOK, Entries
  <2> QED BY <1>3, <2>1
       DEF ReclaimWaiting, Redeliver, TypeOK, clientVars, callVars, coreVars, bounds
<1>4. ASSUME NEW e \in Envelopes, NEW ans \in Answers, ReceiveOpen(e, ans) PROVE TypeOK'
  <2>1. /\ published' \in [Envelopes -> Nat] /\ repeats' \in [Envelopes -> Nat]
        /\ threw' \subseteq Envelopes /\ faults' \in Nat
    BY <1>4, ReceiveType DEF ReceiveOpen
  <2> QED BY <1>4, <2>1 DEF ReceiveOpen, TypeOK, queueVars, clientVars
<1>5. ASSUME NEW e \in Envelopes, NEW ans \in Answers, ReceiveLeftover(e, ans) PROVE TypeOK'
  <2>1. /\ published' \in [Envelopes -> Nat] /\ repeats' \in [Envelopes -> Nat]
        /\ threw' \subseteq Envelopes /\ faults' \in Nat
    BY <1>5, ReceiveType DEF ReceiveLeftover
  <2>2. leftover' \in [Envelopes -> Nat]
    BY <1>5 DEF ReceiveLeftover, TypeOK
  <2> QED BY <1>5, <2>1, <2>2 DEF ReceiveLeftover, TypeOK, queueVars, clientVars, callVars
<1>6. ASSUME Flush PROVE TypeOK'
  <2>1. chain' \in Seq(Batches) /\ pending' \subseteq Envelopes /\ resolvers' \subseteq Envelopes
    BY <1>6, FlushType DEF Flush, TypeOK
  <2> QED BY <1>6, <2>1 DEF Flush, TypeOK, queueVars, callVars, coreVars, bounds
<1>7. ASSUME OpenCall PROVE TypeOK'
  <2>1. chain' \in Seq(Batches) /\ Head(chain) \in Batches
    BY <1>7, ChainShrinks DEF OpenCall, TypeOK
  <2>2. todo' \subseteq Envelopes /\ batch' \in Batches /\ link' \in {"none", "live", "dead"}
    BY <1>7, <2>1 DEF OpenCall, Batches
  <2> QED BY <1>7, <2>1, <2>2, NoBatchType DEF OpenCall, TypeOK, queueVars, coreVars, bounds
<1>8. ASSUME Acknowledge PROVE TypeOK'
  <2>1. /\ entry' \in [Envelopes -> Entries]
        /\ answer' \in [Envelopes -> Answers \union {"none"}]
    BY <1>8, ResolveType DEF Acknowledge, TypeOK
  <2> QED BY <1>8, <2>1, NoBatchType
       DEF Acknowledge, CloseCall, TypeOK, clientVars, coreVars, bounds
<1>9. ASSUME CallFailed PROVE TypeOK'
  <2>1. [e \in Envelopes |-> "KEY_UNKNOWN"] \in [Envelopes -> Answers \union {"none"}]
    BY DEF Answers, Codes
  <2>2. /\ entry' \in [Envelopes -> Entries]
        /\ answer' \in [Envelopes -> Answers \union {"none"}]
    BY <1>9, <2>1, ResolveType DEF CallFailed
  <2> QED BY <1>9, <2>2, NoBatchType DEF CallFailed, CloseCall, TypeOK, clientVars, coreVars
<1>10. ASSUME Disconnect PROVE TypeOK'
  <2>1. leftover' \in [Envelopes -> Nat]
    BY <1>10, AbandonType DEF Disconnect
  <2> QED BY <1>10, <2>1 DEF Disconnect, TypeOK, queueVars, clientVars
<1>11. ASSUME CoreCrash \/ CoreStart \/ InstallKey PROVE TypeOK'
  BY <1>11 DEF CoreCrash, CoreStart, InstallKey, TypeOK, queueVars, clientVars, callVars, bounds
<1>12. ASSUME AgentCrash PROVE TypeOK'
  <2>1. leftover' \in [Envelopes -> Nat]
    BY <1>12, AbandonType DEF AgentCrash
  <2>2. entry' \in [Envelopes -> Entries]
    BY <1>12 DEF AgentCrash, TypeOK, Entries
  <2>3. chain' \in Seq(Batches)
    BY <1>12 DEF AgentCrash, ClientGone
  <2> QED BY <1>12, <2>1, <2>2, <2>3, NoBatchType DEF AgentCrash, ClientGone, CloseCall, TypeOK
<1>13. ASSUME AgentStopped PROVE TypeOK'
  <2>1. chain' \in Seq(Batches) /\ batch' \in Batches /\ reply' = None
    BY <1>13, NoBatchType DEF AgentStopped, ClientGone, CloseCall
  <2> QED BY <1>13, <2>1, NoBatchType DEF AgentStopped, ClientGone, CloseCall, TypeOK,
       queueVars, coreVars, bounds
<1>14. ASSUME AgentStop \/ AgentStart PROVE TypeOK'
  BY <1>14 DEF AgentStop, AgentStart, TypeOK, queueVars, clientVars, callVars, coreVars, bounds
<1>15. CASE UNCHANGED vars
  BY <1>15 DEF vars, TypeOK, queueVars, clientVars, callVars, coreVars, bounds
<1> QED BY <1>1, <1>2, <1>3, <1>4, <1>5, <1>6, <1>7, <1>8, <1>9, <1>10, <1>11, <1>12, <1>13,
     <1>14, <1>15 DEF Next

(* Every variable keeps to its type, whatever the envelopes and the faults. *)
THEOREM TypeCorrect == Spec => []TypeOK
<1> QED BY InitType, TypeStep, PTL DEF Spec

(***************************************************************************)
(* Every waiting handler can be resolved.                                  *)
(***************************************************************************)

(* Flushing envs, the pending batch or the pending batch and one more,     *)
(* moves their resolvers into the last batch of the chain.                 *)
LEMMA FlushKeeps ==
  ASSUME TypeOK, EveryWaiterResolvable, NEW envs \in SUBSET Envelopes,
         CloseBatch(envs, envs), pending \subseteq envs,
         \A e \in envs \ pending : entry[e] # "waiting",
         \A e \in Envelopes : entry'[e] = "waiting" <=> e \in envs \/ entry[e] = "waiting",
         batch' = batch
  PROVE  EveryWaiterResolvable'
<1> DEFINE b == [envs |-> envs, waiters |-> envs \intersect envs] n == Len(chain)
<1>1. b \in Batches /\ b.waiters = envs /\ b.envs = envs
  BY DEF Batches
<1>2. /\ chain' \in Seq(Batches) /\ Len(chain') = n + 1 /\ chain'[n + 1] = b
      /\ \A i \in 1..n : chain'[i] = chain[i]
  BY <1>1, ChainGrows DEF CloseBatch, TypeOK
<1>3. n \in Nat /\ \A i \in 1..(n + 1) : i \in 1..n \/ i = n + 1
  BY DEF TypeOK
<1>4. pending' = {} /\ resolvers' = {}
  BY DEF CloseBatch
<1>5. ASSUME NEW e \in Envelopes, NEW i \in 1..(n + 1)
      PROVE  InChain(e, i)' <=> (i \in 1..n /\ InChain(e, i)) \/ (i = n + 1 /\ e \in envs)
  BY <1>1, <1>2, <1>3 DEF InChain
<1>6. \A i \in 1..(n + 1) : chain'[i].waiters = chain'[i].envs
  BY <1>1, <1>2, <1>3 DEF EveryWaiterResolvable
<1>7. ASSUME NEW e \in Envelopes, e \in envs, NEW i \in 1..n PROVE ~InChain(e, i)
  BY <1>7 DEF EveryWaiterResolvable
<1>8. ASSUME NEW e \in Envelopes, e \in envs PROVE e \notin batch.waiters
  BY <1>8 DEF EveryWaiterResolvable
<1>9. ASSUME NEW e \in Envelopes
      PROVE  entry'[e] = "waiting" <=> \/ e \in pending' \union batch'.waiters
                                     \/ \E i \in 1..(n + 1) : InChain(e, i)'
  <2>1. entry[e] = "waiting" <=> \/ e \in pending \union batch.waiters
                                \/ \E i \in 1..n : InChain(e, i)
    BY DEF EveryWaiterResolvable
  <2>2. (\E i \in 1..(n + 1) : InChain(e, i)') <=> e \in envs \/ \E i \in 1..n : InChain(e, i)
    BY <1>3, <1>5
  <2> QED BY <1>4, <2>1, <2>2
<1>10. ASSUME NEW e \in Envelopes, NEW i \in 1..(n + 1), InChain(e, i)'
       PROVE  /\ e \notin pending' \union batch'.waiters
              /\ \A j \in 1..(n + 1) : InChain(e, j)' => i = j
  <2>1. CASE e \in envs
    BY <1>3, <1>4, <1>5, <1>7, <1>8, <1>10, <2>1
  <2>2. CASE e \notin envs
    BY <1>3, <1>4, <1>5, <1>10, <2>2 DEF EveryWaiterResolvable
  <2> QED BY <2>1, <2>2
<1>11. resolvers' = pending' /\ batch'.waiters = batch'.envs
  BY <1>4 DEF EveryWaiterResolvable
<1> QED BY <1>2, <1>4, <1>6, <1>9, <1>10, <1>11 DEF EveryWaiterResolvable

(* What an action leaves alone, as far as the waiting handlers go. *)
LEMMA WaitersUntouched ==
  ASSUME EveryWaiterResolvable, UNCHANGED <<pending, resolvers, chain, batch>>,
         \A e \in Envelopes : entry'[e] = "waiting" <=> entry[e] = "waiting"
  PROVE  EveryWaiterResolvable'
  BY DEF EveryWaiterResolvable, InChain

(* Once the open call has resolved its batch, no handler waits for it. *)
LEMMA ResolveKeeps ==
  ASSUME TypeOK, EveryWaiterResolvable, NEW ans, Resolve(ans), CloseCall,
         UNCHANGED clientVars
  PROVE  EveryWaiterResolvable'
<1>1. batch' = NoBatch /\ NoBatch.waiters = {} /\ NoBatch.envs = {}
  BY DEF CloseCall, NoBatch
<1>2. \A e \in Envelopes : entry'[e] = "waiting" <=> entry[e] = "waiting" /\ e \notin batch.waiters
  BY DEF Resolve, TypeOK
<1> QED BY <1>1, <1>2 DEF EveryWaiterResolvable, InChain, clientVars

(* A client that is gone, and its handlers with it, leaves nothing behind. *)
LEMMA GoneKeeps ==
  ASSUME ClientGone, \A e \in Envelopes : entry'[e] # "waiting"
  PROVE  EveryWaiterResolvable'
<1>1. /\ batch'.waiters = {} /\ batch'.envs = {} /\ pending' = {} /\ resolvers' = {}
      /\ chain' = << >> /\ Len(chain') = 0 /\ 1..0 = {}
  BY DEF ClientGone, CloseCall, NoBatch
<1> QED BY <1>1 DEF EveryWaiterResolvable

(* The open call, what it still has to hear of, and its answers. *)
CallShape ==
  /\ link = "none" => batch = NoBatch
  /\ link # "live" => todo = {}
  /\ todo \subseteq batch.envs
  /\ link = "live" => \A e \in batch.envs \ todo : reply[e] \in Answers

LEMMA OpenKeeps ==
  ASSUME TypeOK, EveryWaiterResolvable, CallShape, OpenCall
  PROVE  EveryWaiterResolvable'
<1> DEFINE n == Len(chain)
<1>1. /\ chain' \in Seq(Batches) /\ Len(chain') = n - 1 /\ n \in Nat \ {0}
      /\ batch' = chain[1] /\ \A i \in 1..(n - 1) : chain'[i] = chain[i + 1]
  BY ChainShrinks DEF OpenCall, TypeOK
<1>2. batch.waiters = {} /\ UNCHANGED <<entry, pending, resolvers>>
  BY DEF OpenCall, CallShape, NoBatch, queueVars
<1>3. 1 \in 1..n /\ \A i \in 1..(n - 1) : i + 1 \in 1..n /\ i + 1 # 1
  BY <1>1
<1>4. \A i \in 1..n : i = 1 \/ (i - 1 \in 1..(n - 1) /\ (i - 1) + 1 = i)
  BY <1>1
<1>5. ASSUME NEW e \in Envelopes, NEW i \in 1..(n - 1) PROVE InChain(e, i)' <=> InChain(e, i + 1)
  BY <1>1, <1>3 DEF InChain
<1>6. \A e \in Envelopes : e \in batch'.waiters <=> InChain(e, 1)
  BY <1>1, <1>3 DEF InChain
<1>7. /\ resolvers' = pending' /\ batch'.waiters = batch'.envs
      /\ \A i \in 1..(n - 1) : chain'[i].waiters = chain'[i].envs
  <2>1. resolvers = pending /\ \A i \in 1..n : chain[i].waiters = chain[i].envs
    BY DEF EveryWaiterResolvable
  <2>2. \A i \in 1..(n - 1) : chain[i + 1].waiters = chain[i + 1].envs
    BY <1>3, <2>1
  <2>3. resolvers' = pending' /\ batch'.waiters = batch'.envs
    BY <1>1, <1>2, <1>3, <2>1
  <2> QED BY <1>1, <2>2, <2>3
<1>8. ASSUME NEW e \in Envelopes
      PROVE  /\ entry'[e] = "waiting" <=> \/ e \in pending' \union batch'.waiters
                                         \/ \E i \in 1..(n - 1) : InChain(e, i)'
             /\ ~(e \in pending' /\ e \in batch'.waiters)
  <2>1. (\E i \in 1..n : InChain(e, i)) <=> InChain(e, 1) \/ \E i \in 1..(n - 1) : InChain(e, i + 1)
    BY <1>3, <1>4
  <2> QED BY <1>2, <1>3, <1>5, <1>6, <2>1 DEF EveryWaiterResolvable
<1>9. ASSUME NEW e \in Envelopes, NEW i \in 1..(n - 1), InChain(e, i)'
      PROVE  /\ e \notin pending' \union batch'.waiters
             /\ \A j \in 1..(n - 1) : InChain(e, j)' => i = j
  <2>1. InChain(e, i + 1) /\ i + 1 \in 1..n
    BY <1>3, <1>5, <1>9
  <2>2. e \notin pending /\ \A j \in 1..n : InChain(e, j) => i + 1 = j
    BY <2>1 DEF EveryWaiterResolvable
  <2>3. e \notin batch'.waiters
    BY <1>3, <1>6, <2>2
  <2>4. ASSUME NEW j \in 1..(n - 1), InChain(e, j)' PROVE i = j
    <3>1. InChain(e, j + 1) /\ j + 1 \in 1..n
      BY <1>3, <1>5, <2>4
    <3>2. i + 1 = j + 1
      BY <2>2, <3>1
    <3> QED BY <1>1, <3>2
  <2> QED BY <1>2, <2>2, <2>3, <2>4
<1> QED BY <1>1, <1>7, <1>8, <1>9 DEF EveryWaiterResolvable

LEMMA ShapeStep == TypeOK /\ CallShape /\ [Next]_vars => CallShape'
<1> SUFFICES ASSUME TypeOK, CallShape, [Next]_vars PROVE CallShape'
  OBVIOUS
<1>1. ASSUME CloseCall PROVE CallShape'
  BY <1>1 DEF CloseCall, CallShape, NoBatch
<1>2. ASSUME OpenCall PROVE CallShape'
  <2>1. \/ link' = "live" /\ todo' = batch'.envs
        \/ link' = "dead" /\ todo' = {}
    BY <1>2 DEF OpenCall
  <2> QED BY <2>1 DEF CallShape
<1>3. ASSUME NEW e \in Envelopes, NEW ans \in Answers, ReceiveOpen(e, ans) PROVE CallShape'
  BY <1>3 DEF ReceiveOpen, CallShape, TypeOK
<1>4. ASSUME Disconnect \/ CoreCrash PROVE CallShape'
  BY <1>4 DEF Disconnect, CoreCrash, CallShape, TypeOK
<1>5. ASSUME UNCHANGED callVars PROVE CallShape'
  BY <1>5 DEF CallShape, callVars
<1>6. ASSUME Acknowledge \/ CallFailed \/ AgentCrash \/ AgentStopped PROVE CloseCall
  BY <1>6 DEF Acknowledge, CallFailed, AgentCrash, AgentStopped, ClientGone
<1>7. ASSUME \/ \E e \in Envelopes : Handle(e) \/ Settle(e) \/ ReclaimWaiting(e) \/ Redeliver(e)
             \/ \E e \in Envelopes, ans \in Answers : ReceiveLeftover(e, ans)
             \/ Flush \/ CoreStart \/ InstallKey \/ AgentStop \/ AgentStart \/ UNCHANGED vars
      PROVE  UNCHANGED callVars
  BY <1>7 DEF Handle, Settle, ReclaimWaiting, Redeliver, ReceiveLeftover, Flush, CoreStart,
       InstallKey, AgentStop, AgentStart, vars
<1> QED BY <1>1, <1>2, <1>3, <1>4, <1>5, <1>6, <1>7 DEF Next

LEMMA WaitersStep ==
  TypeOK /\ CallShape /\ EveryWaiterResolvable /\ [Next]_vars => EveryWaiterResolvable'
<1> SUFFICES ASSUME TypeOK, CallShape, EveryWaiterResolvable, [Next]_vars
             PROVE  EveryWaiterResolvable'
  OBVIOUS
<1>1. ASSUME NEW e \in Envelopes, Handle(e) PROVE EveryWaiterResolvable'
  <2>1. CASE Kind[e] = "foreign"
    <3>1. UNCHANGED <<pending, resolvers, chain, batch>> /\ entry[e] = "queued"
          /\ entry' = [entry EXCEPT ![e] = "dead"]
      BY <1>1, <2>1 DEF Handle, clientVars, callVars
    <3>2. \A f \in Envelopes : entry'[f] = "waiting" <=> entry[f] = "waiting"
      BY <3>1 DEF TypeOK
    <3> QED BY <3>1, <3>2, WaitersUntouched
  <2>2. CASE Kind[e] # "foreign"
    <3> DEFINE envs == pending \union {e}
    <3>1. Push(e) /\ batch' = batch /\ entry[e] = "queued"
          /\ entry' = [entry EXCEPT ![e] = "waiting"]
      BY <1>1, <2>2 DEF Handle, callVars
    <3>2. resolvers \union {e} = envs /\ envs \in SUBSET Envelopes /\ e \notin pending
      BY <3>1 DEF EveryWaiterResolvable, TypeOK
    <3>3. \A f \in Envelopes : entry'[f] = "waiting" <=> f = e \/ entry[f] = "waiting"
      BY <3>1 DEF TypeOK
    <3>4. CASE CloseBatch(envs, envs)
      <4>1. \A f \in envs \ pending : entry[f] # "waiting"
        BY <3>1
      <4>2. \A f \in Envelopes : entry'[f] = "waiting" <=> f \in envs \/ entry[f] = "waiting"
        BY <3>3 DEF EveryWaiterResolvable
      <4> QED BY <3>1, <3>2, <3>4, <4>1, <4>2, FlushKeeps
    <3>5. CASE pending' = envs /\ resolvers' = envs /\ UNCHANGED chain
      <4>1. e \notin batch.waiters /\ \A i \in 1..Len(chain) : ~InChain(e, i)
        BY <3>1 DEF EveryWaiterResolvable
      <4>2. \A f \in Envelopes, i \in 1..Len(chain) : InChain(f, i)' <=> InChain(f, i)
        BY <3>5 DEF InChain
      <4> QED BY <3>1, <3>2, <3>3, <3>5, <4>1, <4>2 DEF EveryWaiterResolvable
    <3> QED BY <3>1, <3>2, <3>4, <3>5 DEF Push
  <2> QED BY <2>1, <2>2
<1>2. ASSUME Flush PROVE EveryWaiterResolvable'
  <2>1. CloseBatch(pending, pending) /\ pending \in SUBSET Envelopes
        /\ batch' = batch /\ entry' = entry
    BY <1>2 DEF Flush, EveryWaiterResolvable, TypeOK, callVars, queueVars
  <2>2. \A e \in Envelopes : entry'[e] = "waiting" <=> e \in pending \/ entry[e] = "waiting"
    BY <2>1 DEF EveryWaiterResolvable
  <2> QED BY <2>1, <2>2, FlushKeeps
<1>3. ASSUME OpenCall PROVE EveryWaiterResolvable'
  BY <1>3, OpenKeeps
<1>4. ASSUME Acknowledge \/ CallFailed PROVE EveryWaiterResolvable'
  BY <1>4, ResolveKeeps DEF Acknowledge, CallFailed
<1>5. ASSUME NEW e \in Envelopes, Settle(e) \/ ReclaimWaiting(e) \/ Redeliver(e)
      PROVE  EveryWaiterResolvable'
  <2>1. UNCHANGED <<pending, resolvers, chain, batch>>
    BY <1>5 DEF Settle, ReclaimWaiting, Redeliver, clientVars, callVars
  <2>2. \A f \in Envelopes : entry'[f] = "waiting" <=> entry[f] = "waiting"
    BY <1>5 DEF Settle, AfterRetry, ReclaimWaiting, Redeliver, TypeOK
  <2> QED BY <2>1, <2>2, WaitersUntouched
<1>6. ASSUME AgentCrash \/ AgentStopped PROVE EveryWaiterResolvable'
  <2>1. ClientGone /\ \A e \in Envelopes : entry'[e] # "waiting"
    BY <1>6 DEF AgentCrash, AgentStopped, InFlight, TypeOK, queueVars
  <2> QED BY <2>1, GoneKeeps
<1>7. ASSUME \/ \E e \in Envelopes, ans \in Answers : ReceiveOpen(e, ans) \/ ReceiveLeftover(e, ans)
             \/ Disconnect \/ CoreCrash \/ CoreStart \/ InstallKey \/ AgentStop \/ AgentStart
             \/ UNCHANGED vars
      PROVE  EveryWaiterResolvable'
  <2>1. UNCHANGED <<entry, pending, resolvers, chain, batch>>
    BY <1>7 DEF ReceiveOpen, ReceiveLeftover, Disconnect, CoreCrash, CoreStart, InstallKey,
         AgentStop, AgentStart, vars, queueVars, clientVars, callVars
  <2> QED BY <2>1, WaitersUntouched
<1> QED BY <1>1, <1>2, <1>3, <1>4, <1>5, <1>6, <1>7 DEF Next

LEMMA InitShape == Init => CallShape /\ EveryWaiterResolvable
<1> SUFFICES ASSUME Init PROVE CallShape /\ EveryWaiterResolvable
  OBVIOUS
<1>1. CallShape
  BY DEF Init, CallShape
<1>2. 1..Len(chain) = {} /\ batch.waiters = {} /\ batch.envs = {}
  BY DEF Init, NoBatch
<1> QED BY <1>1, <1>2 DEF Init, EveryWaiterResolvable

(* No handler of the agent waits for a promise nobody can resolve: its     *)
(* resolver is in exactly one of the pending batch, a flushed batch and    *)
(* the open call.                                                          *)
THEOREM WaitersResolvable == Spec => []EveryWaiterResolvable
<1> QED BY InitType, TypeStep, InitShape, ShapeStep, WaitersStep, PTL DEF Spec

(***************************************************************************)
(* What is acknowledged in the region is accounted for at the core.        *)
(***************************************************************************)

(* The core has published the envelope or thrown for it. *)
Heard(e) == published[e] > 0 \/ e \in threw

(* What makes AckedIsAccounted inductive: an answer that lets the agent    *)
(* acknowledge is given only for an envelope the core has heard of.        *)
AccountInv ==
  /\ AckedIsAccounted
  /\ \A e \in Envelopes : answer[e] \in Acks \/ reply[e] \in Acks => Heard(e)

(* The core does not forget. *)
LEMMA HeardStays ==
  ASSUME TypeOK, [Next]_vars, NEW e \in Envelopes, Heard(e) PROVE Heard(e)'
<1>1. ASSUME NEW f \in Envelopes, NEW ans \in Answers, ReceiveOpen(f, ans) \/ ReceiveLeftover(f, ans)
      PROVE  Heard(e)'
  <2>1. threw \subseteq threw'
    BY <1>1 DEF ReceiveOpen, ReceiveLeftover, Receive, OnAccepted
  <2>2. published[e] \in Nat /\ published'[e] \in Nat /\ published[e] <= published'[e]
    BY <1>1, ReceiveCounts DEF ReceiveOpen, ReceiveLeftover
  <2> QED BY <2>1, <2>2 DEF Heard
<1>2. ASSUME UNCHANGED <<published, threw>> PROVE Heard(e)'
  BY <1>2 DEF Heard
<1> QED BY <1>1, <1>2 DEF Next, Handle, Settle, ReclaimWaiting, Redeliver, Flush, OpenCall,
     Acknowledge, CallFailed, Disconnect, CoreCrash, CoreStart, InstallKey, AgentCrash,
     AgentStop, AgentStopped, AgentStart, vars, coreVars

(* An envelope stays accounted for, and a redelivery is not forgotten. *)
LEMMA AccountStays ==
  ASSUME TypeOK, [Next]_vars, NEW e \in Envelopes,
         published[e] > 0 \/ e \in threw \cup skipped
  PROVE  published'[e] > 0 \/ e \in threw' \cup skipped'
<1>1. skipped \subseteq skipped'
  BY DEF Next, Handle, Settle, ReclaimWaiting, Redeliver, Flush, OpenCall, Acknowledge,
     CallFailed, ReceiveOpen, ReceiveLeftover, Disconnect, CoreCrash, CoreStart, InstallKey,
     AgentCrash, AgentStop, AgentStopped, AgentStart, vars, queueVars
<1> QED BY <1>1, HeardStays DEF Heard

LEMMA AccountStep == TypeOK /\ AccountInv /\ [Next]_vars => AccountInv'
<1> SUFFICES ASSUME TypeOK, AccountInv, [Next]_vars PROVE AccountInv'
  OBVIOUS
<1> USE DEF Acks
<1>1. \A e \in Envelopes : entry[e] = "acked" =>
        published'[e] > 0 \/ e \in threw' \cup skipped'
  BY AccountStays DEF AccountInv, AckedIsAccounted
<1>2. \A e \in Envelopes : answer[e] \in Acks \/ reply[e] \in Acks => Heard(e)'
  BY HeardStays DEF AccountInv
<1>3. ASSUME \A e \in Envelopes : entry'[e] = "acked" => entry[e] = "acked",
             \A e \in Envelopes : answer'[e] \in Acks \/ reply'[e] \in Acks =>
                                 answer[e] \in Acks \/ reply[e] \in Acks
      PROVE  AccountInv'
  BY <1>1, <1>2, <1>3 DEF AccountInv, AckedIsAccounted
<1>4. ASSUME NEW e \in Envelopes, Handle(e) PROVE AccountInv'
  <2>1. \A f \in Envelopes : entry'[f] = "acked" => entry[f] = "acked"
    BY <1>4 DEF Handle, TypeOK
  <2>2. answer' = answer /\ reply' = reply
    BY <1>4 DEF Handle, callVars
  <2> QED BY <1>3, <2>1, <2>2
<1>5. ASSUME NEW e \in Envelopes, Settle(e) PROVE AccountInv'
  <2>1. /\ answer' = [answer EXCEPT ![e] = "none"] /\ reply' = reply
        /\ UNCHANGED <<published, threw, skipped>>
    BY <1>5 DEF Settle, callVars, coreVars
  <2>2. \A f \in Envelopes : answer'[f] \in Acks => answer[f] \in Acks
    BY <2>1 DEF TypeOK
  <2>3. \A f \in Envelopes : f # e => entry'[f] = entry[f]
    BY <1>5 DEF Settle, TypeOK
  <2>4. ASSUME entry'[e] = "acked" PROVE answer[e] \in Acks \/ e \in skipped
    BY <1>5, <2>4 DEF Settle, AfterRetry, TypeOK
  <2>5. AckedIsAccounted'
    BY <1>1, <1>2, <2>1, <2>3, <2>4 DEF AckedIsAccounted, Heard
  <2> QED BY <1>2, <2>1, <2>2, <2>5 DEF AccountInv
<1>6. ASSUME NEW e \in Envelopes, ReclaimWaiting(e) \/ Redeliver(e) PROVE AccountInv'
  <2>1. answer' = answer /\ reply' = reply
    BY <1>6 DEF ReclaimWaiting, Redeliver, callVars
  <2>2. \A f \in Envelopes : entry'[f] = "acked" => entry[f] = "acked" \/ f \in skipped'
    BY <1>6 DEF ReclaimWaiting, Redeliver, TypeOK
  <2> QED BY <1>1, <1>2, <2>1, <2>2 DEF AccountInv, AckedIsAccounted
<1>7. ASSUME NEW e \in Envelopes, NEW ans \in Answers, ReceiveOpen(e, ans) PROVE AccountInv'
  <2>1. entry' = entry /\ answer' = answer /\ reply' = [reply EXCEPT ![e] = ans]
    BY <1>7 DEF ReceiveOpen, queueVars
  <2>2. ASSUME ans \in Acks PROVE Heard(e)'
    <3>1. ans = "accepted" \/ threw' = threw \union {e} \/ ans \in Verdicts(e)
      BY <1>7 DEF ReceiveOpen, Receive, OnAccepted
    <3>2. ans \notin Verdicts(e)
      BY <2>2 DEF Verdicts, Kinds
    <3>3. ans = "accepted" => published'[e] > 0
      BY <1>7, ReceiveCounts DEF ReceiveOpen
    <3> QED BY <3>1, <3>2, <3>3 DEF Heard
  <2>3. \A f \in Envelopes : reply'[f] \in Acks => Heard(f)'
    BY <1>2, <2>1, <2>2 DEF TypeOK
  <2> QED BY <1>1, <1>2, <2>1, <2>3 DEF AccountInv, AckedIsAccounted
<1>8. ASSUME Acknowledge \/ CallFailed PROVE AccountInv'
  <2>1. \A e \in Envelopes : entry'[e] = "acked" => entry[e] = "acked"
    BY <1>8 DEF Acknowledge, CallFailed, Resolve
  <2>2. \A e \in Envelopes : answer'[e] \in Acks \/ reply'[e] \in Acks =>
                             answer[e] \in Acks \/ reply[e] \in Acks
    BY <1>8 DEF Acknowledge, CallFailed, Resolve, CloseCall, None
  <2> QED BY <1>3, <2>1, <2>2
<1>9. ASSUME AgentCrash \/ AgentStopped PROVE AccountInv'
  <2>1. /\ reply' = None /\ (answer' = None \/ answer' = answer)
        /\ \A e \in Envelopes : entry'[e] = "acked" => entry[e] = "acked"
    BY <1>9 DEF AgentCrash, AgentStopped, ClientGone, CloseCall, queueVars
  <2> QED BY <1>3, <2>1 DEF None
<1>10. ASSUME OpenCall PROVE AccountInv'
  <2>1. entry' = entry /\ answer' = answer /\ reply' = None
    BY <1>10 DEF OpenCall, queueVars
  <2> QED BY <1>3, <2>1 DEF None
<1>11. ASSUME \/ \E e \in Envelopes, ans \in Answers : ReceiveLeftover(e, ans)
              \/ Flush \/ Disconnect \/ CoreCrash \/ CoreStart \/ InstallKey
              \/ AgentStop \/ AgentStart \/ UNCHANGED vars
       PROVE  AccountInv'
  <2>1. UNCHANGED <<entry, answer, reply>>
    BY <1>11 DEF ReceiveLeftover, Flush, Disconnect, CoreCrash, CoreStart, InstallKey,
         AgentStop, AgentStart, vars, queueVars, callVars
  <2> QED BY <1>3, <2>1
<1> QED BY <1>4, <1>5, <1>6, <1>7, <1>8, <1>9, <1>10, <1>11 DEF Next

LEMMA InitAccount == Init => AccountInv
  BY DEF Init, AccountInv, AckedIsAccounted, Acks, None

(* Nothing is acknowledged in the region that the core has neither         *)
(* published nor thrown for, unless the queue acknowledged a redelivery.   *)
THEOREM AckedAccounted == Spec => []AckedIsAccounted
<1>1. AccountInv => AckedIsAccounted
  BY DEF AccountInv
<1> QED BY <1>1, InitType, TypeStep, InitAccount, AccountStep, PTL DEF Spec

(***************************************************************************)
(* Extra events at the core need broken calls.                             *)
(***************************************************************************)

(* The present attempt of the envelope may have put an event on ADAPTER_OUT *)
(* and no break has been counted for that: its call has been answered, or   *)
(* is dead, or the envelope is acknowledged.                                *)
Spent(e) ==
  \/ /\ entry[e] = "waiting" /\ e \in batch.envs \ todo
     /\ link = "dead" \/ reply[e] \in Acks
  \/ entry[e] = "answered" /\ answer[e] \in Acks
  \/ entry[e] = "acked"

(* What may be on ADAPTER_OUT, or come there from abandoned calls: nothing  *)
(* without an attempt spent or broken, and else one for each of them and   *)
(* one for each repeated XADD.                                             *)
Allowance(e) ==
  IF Spent(e) THEN broken + 1 + repeats[e]
  ELSE IF broken = 0 THEN 0 ELSE broken + repeats[e]

BreaksInv == \A e \in Envelopes : published[e] + leftover[e] <= Allowance(e)

(* An action that publishes nothing and takes no allowance away. *)
LEMMA NothingNew ==
  ASSUME TypeOK, BreaksInv, UNCHANGED <<published, repeats, leftover, broken>>,
         \A e \in Envelopes : Spent(e) => Spent(e)'
  PROVE  BreaksInv'
<1>1. \A e \in Envelopes : published[e] \in Nat /\ repeats[e] \in Nat /\ leftover[e] \in Nat /\ broken \in Nat
  BY DEF TypeOK
<1>2. ASSUME NEW e \in Envelopes PROVE Allowance(e) <= Allowance(e)'
  BY <1>1 DEF Allowance
<1>3. ASSUME NEW e \in Envelopes PROVE published'[e] + leftover'[e] <= Allowance(e)'
  <2>1. published[e] + leftover[e] <= Allowance(e) /\ published' = published /\ leftover' = leftover
    BY DEF BreaksInv
  <2>2. Allowance(e) \in Nat /\ Allowance(e)' \in Nat
    BY <1>1 DEF Allowance
  <2> QED BY <1>1, <1>2, <2>1, <2>2
<1> QED BY <1>3 DEF BreaksInv

(* A break pays for whatever the calls it ends may have left behind. *)
LEMMA BreakPays ==
  ASSUME TypeOK, BreaksInv, broken' = broken + 1, published' = published, repeats' = repeats,
         \A e \in Envelopes : leftover'[e] = leftover[e]
                             \/ (leftover'[e] = leftover[e] + 1 /\ ~Spent(e))
  PROVE  BreaksInv'
<1>1. ASSUME NEW e \in Envelopes PROVE published'[e] + leftover'[e] <= Allowance(e)'
  <2>1. published[e] \in Nat /\ repeats[e] \in Nat /\ leftover[e] \in Nat /\ broken \in Nat
    BY DEF TypeOK
  <2>2. published[e] + leftover[e] <= Allowance(e)
    BY DEF BreaksInv
  <2>3. published'[e] + leftover'[e] <= repeats[e] + broken + 1
    BY <2>1, <2>2 DEF Allowance
  <2> QED BY <2>1, <2>3 DEF Allowance
<1> QED BY <1>1 DEF BreaksInv

(* An envelope of the open call waits. *)
LEMMA BatchWaits ==
  ASSUME EveryWaiterResolvable, CallShape, NEW e \in Envelopes, e \in batch.envs \union todo
  PROVE  e \in batch.envs /\ e \in batch.waiters /\ entry[e] = "waiting"
  BY DEF EveryWaiterResolvable, CallShape

(* What the core does with an envelope of the open call ... *)
LEMMA ReceiveOpenPays ==
  ASSUME TypeOK, EveryWaiterResolvable, CallShape, BreaksInv,
         NEW e \in Envelopes, NEW ans \in Answers, ReceiveOpen(e, ans)
  PROVE  BreaksInv'
<1>1. /\ link = "live" /\ e \in todo /\ link' = link /\ batch' = batch
      /\ todo' = todo \ {e} /\ reply' = [reply EXCEPT ![e] = ans]
      /\ entry' = entry /\ answer' = answer /\ leftover' = leftover /\ broken' = broken
  BY DEF ReceiveOpen, queueVars
<1>2. entry[e] = "waiting" /\ e \in batch.envs /\ ~Spent(e)
  BY <1>1, BatchWaits DEF Spent
<1>3. ASSUME NEW f \in Envelopes, f # e PROVE Spent(f) <=> Spent(f)'
  BY <1>1, <1>3 DEF Spent, TypeOK
<1>4. \A f \in Envelopes : leftover[f] \in Nat /\ broken \in Nat
  BY DEF TypeOK
<1>5. Receive(e, ans)
  BY DEF ReceiveOpen
<1>6. published'[e] + leftover'[e] <= Allowance(e)'
  <2>1. published[e] + leftover[e] <= Allowance(e)
    BY DEF BreaksInv
  <2>2. /\ published[e] \in Nat /\ published'[e] \in Nat
        /\ repeats[e] \in Nat /\ repeats'[e] \in Nat
        /\ published'[e] + repeats[e] <= published[e] + repeats'[e] + 1
        /\ ans \notin Acks => published' = published /\ repeats' = repeats
    BY <1>5, ReceiveCounts
  <2>3. CASE ans \notin Acks
    BY <1>1, <1>2, <1>4, <2>1, <2>2, <2>3 DEF Allowance
  <2>4. CASE ans \in Acks
    <3>1. Spent(e)'
      BY <1>1, <1>2, <2>4 DEF Spent, TypeOK
    <3> QED BY <1>1, <1>2, <1>4, <2>1, <2>2, <3>1 DEF Allowance
  <2> QED BY <2>3, <2>4
<1>7. ASSUME NEW f \in Envelopes, f # e PROVE published'[f] + leftover'[f] <= Allowance(f)'
  <2>1. published'[f] = published[f] /\ repeats'[f] = repeats[f]
    BY <1>5, <1>7, ReceiveCounts
  <2> QED BY <1>1, <1>3, <1>7, <2>1 DEF BreaksInv, Allowance
<1> QED BY <1>6, <1>7 DEF BreaksInv

(* ... and of an abandoned one, which turns a leftover into an event. *)
LEMMA ReceiveLeftoverPays ==
  ASSUME TypeOK, BreaksInv, NEW e \in Envelopes, NEW ans \in Answers, ReceiveLeftover(e, ans)
  PROVE  BreaksInv'
<1>1. /\ leftover[e] > 0 /\ leftover' = [leftover EXCEPT ![e] = @ - 1]
      /\ UNCHANGED <<entry, answer, link, batch, todo, reply, broken>>
  BY DEF ReceiveLeftover, queueVars, callVars
<1>2. \A f \in Envelopes : Spent(f)' = Spent(f)
  BY <1>1 DEF Spent
<1>3. Receive(e, ans)
  BY DEF ReceiveLeftover
<1>4. ASSUME NEW f \in Envelopes PROVE published'[f] + leftover'[f] <= Allowance(f)'
  <2>1. /\ published[f] \in Nat /\ published'[f] \in Nat
        /\ repeats[f] \in Nat /\ repeats'[f] \in Nat
    BY <1>3, ReceiveCounts
  <2>2. leftover[f] \in Nat /\ broken \in Nat /\ published[f] + leftover[f] <= Allowance(f)
    BY DEF BreaksInv, TypeOK
  <2>3. CASE f = e
    <3>1. leftover'[f] = leftover[f] - 1 /\ leftover[f] > 0
      BY <1>1, <2>3 DEF TypeOK
    <3>2. published'[f] + repeats[f] <= published[f] + repeats'[f] + 1
      BY <1>3, <2>3, ReceiveCounts
    <3> QED BY <1>1, <1>2, <2>1, <2>2, <3>1, <3>2 DEF Allowance
  <2>4. CASE f # e
    <3>1. leftover'[f] = leftover[f] /\ published'[f] = published[f] /\ repeats'[f] = repeats[f]
      BY <1>1, <1>3, <2>4, ReceiveCounts DEF TypeOK
    <3> QED BY <1>1, <1>2, <2>2, <3>1 DEF Allowance
  <2> QED BY <2>3, <2>4
<1> QED BY <1>4 DEF BreaksInv

LEMMA BreaksStep ==
  TypeOK /\ EveryWaiterResolvable /\ CallShape /\ BreaksInv /\ [Next]_vars => BreaksInv'
<1> SUFFICES ASSUME TypeOK, EveryWaiterResolvable, CallShape, BreaksInv, [Next]_vars
             PROVE  BreaksInv'
  OBVIOUS
<1>1. ASSUME NEW e \in Envelopes, Handle(e) PROVE BreaksInv'
  <2>1. /\ entry[e] = "queued" /\ \A f \in Envelopes : f # e => entry'[f] = entry[f]
        /\ UNCHANGED <<answer, link, batch, todo, reply, published, repeats, leftover, broken>>
    BY <1>1 DEF Handle, TypeOK, callVars, coreVars, bounds
  <2>2. \A f \in Envelopes : Spent(f) => Spent(f)'
    BY <2>1 DEF Spent
  <2> QED BY <2>1, <2>2, NothingNew
<1>2. ASSUME NEW e \in Envelopes, Settle(e) PROVE BreaksInv'
  <2>1. /\ entry[e] = "answered" /\ \A f \in Envelopes : f # e => entry'[f] = entry[f]
        /\ answer' = [answer EXCEPT ![e] = "none"]
        /\ UNCHANGED <<link, batch, todo, reply, published, repeats, leftover, broken>>
    BY <1>2 DEF Settle, TypeOK, callVars, coreVars, bounds
  <2>2. Spent(e) => entry'[e] = "acked"
    BY <1>2, <2>1 DEF Settle, Spent, Acks, Fatal, TypeOK
  <2>3. \A f \in Envelopes : Spent(f) => Spent(f)'
    BY <2>1, <2>2 DEF Spent, TypeOK
  <2> QED BY <2>1, <2>3, NothingNew
<1>3. ASSUME NEW e \in Envelopes, ReclaimWaiting(e) \/ Redeliver(e) PROVE BreaksInv'
  <2>1. /\ \A f \in Envelopes : entry'[f] = entry[f] \/ entry[f] = "interrupted"
        /\ UNCHANGED <<answer, link, batch, todo, reply, published, repeats, leftover, broken>>
    BY <1>3 DEF ReclaimWaiting, Redeliver, TypeOK, callVars, coreVars, bounds
  <2>2. \A f \in Envelopes : Spent(f) => Spent(f)'
    BY <2>1 DEF Spent
  <2> QED BY <2>1, <2>2, NothingNew
<1>4. ASSUME NEW e \in Envelopes, NEW ans \in Answers, ReceiveOpen(e, ans) PROVE BreaksInv'
  BY <1>4, ReceiveOpenPays
<1>5. ASSUME NEW e \in Envelopes, NEW ans \in Answers, ReceiveLeftover(e, ans) PROVE BreaksInv'
  BY <1>5, ReceiveLeftoverPays
<1>6. ASSUME OpenCall PROVE BreaksInv'
  <2>1. UNCHANGED <<entry, answer, published, repeats, leftover, broken>> /\ link = "none"
    BY <1>6 DEF OpenCall, queueVars, coreVars, bounds
  <2>2. \A e \in Envelopes : Spent(e) => Spent(e)'
    BY <2>1 DEF Spent, CallShape, NoBatch
  <2> QED BY <2>1, <2>2, NothingNew
<1>7. ASSUME Acknowledge PROVE BreaksInv'
  <2>1. /\ link = "live" /\ todo = {} /\ Resolve(reply)
        /\ UNCHANGED <<published, repeats, leftover, broken>>
    BY <1>7 DEF Acknowledge, coreVars, bounds
  <2>2. ASSUME NEW e \in Envelopes, Spent(e) PROVE Spent(e)'
    <3>1. CASE e \in batch.waiters
      <4>1. entry[e] = "waiting" /\ entry'[e] = "answered" /\ answer'[e] = reply[e]
        BY <2>1, <3>1, BatchWaits DEF Resolve, EveryWaiterResolvable
      <4>2. reply[e] \in Acks
        BY <2>1, <2>2, <4>1 DEF Spent
      <4> QED BY <4>1, <4>2 DEF Spent
    <3>2. CASE e \notin batch.waiters
      <4>1. entry'[e] = entry[e] /\ answer'[e] = answer[e]
        BY <2>1, <3>2 DEF Resolve
      <4>2. e \notin batch.envs
        BY <3>2 DEF EveryWaiterResolvable
      <4> QED BY <2>2, <4>1, <4>2 DEF Spent
    <3> QED BY <3>1, <3>2
  <2> QED BY <2>1, <2>2, NothingNew
<1>8. ASSUME CallFailed PROVE BreaksInv'
  <2>1. broken' = broken + 1 /\ published' = published /\ repeats' = repeats /\ leftover' = leftover
    BY <1>8 DEF CallFailed, coreVars
  <2>2. \A e \in Envelopes : leftover'[e] = leftover[e]
    BY <2>1
  <2> QED BY <2>1, <2>2, BreakPays
<1>9. ASSUME Disconnect PROVE BreaksInv'
  <2>1. /\ link = "live" /\ link' = "dead" /\ todo' = {}
        /\ UNCHANGED <<entry, answer, batch, reply, published, repeats, broken>>
    BY <1>9 DEF Disconnect, queueVars
  <2>2. PICK got \in SUBSET todo : Abandon(got)
    BY <1>9 DEF Disconnect
  <2>3. ASSUME NEW e \in Envelopes PROVE published'[e] + leftover'[e] <= Allowance(e)'
    <3>1. published[e] \in Nat /\ repeats[e] \in Nat /\ leftover[e] \in Nat /\ broken \in Nat
          /\ published[e] + leftover[e] <= Allowance(e)
      BY DEF TypeOK, BreaksInv
    <3>2. CASE e \in got
      <4>1. entry[e] = "waiting" /\ e \in batch.envs /\ ~Spent(e)
        BY <2>1, <2>2, <3>2, BatchWaits DEF Spent
      <4>2. Spent(e)' /\ leftover'[e] = leftover[e] + 1
        BY <2>1, <2>2, <3>2, <4>1 DEF Spent, Abandon
      <4> QED BY <2>1, <3>1, <4>1, <4>2 DEF Allowance
    <3>3. CASE e \notin got
      <4>1. leftover'[e] = leftover[e]
        BY <2>2, <3>1, <3>3 DEF Abandon
      <4>2. Spent(e) => Spent(e)'
        BY <2>1 DEF Spent
      <4> QED BY <2>1, <3>1, <4>1, <4>2 DEF Allowance
    <3> QED BY <3>2, <3>3
  <2> QED BY <2>3 DEF BreaksInv
<1>10. ASSUME CoreCrash PROVE BreaksInv'
  <2>1. /\ link' \in {link, "dead"} /\ todo' = {} /\ leftover' = [e \in Envelopes |-> 0]
        /\ UNCHANGED <<entry, answer, batch, reply, published, repeats, broken>>
    BY <1>10 DEF CoreCrash, queueVars
  <2>2. ASSUME NEW e \in Envelopes PROVE published'[e] + leftover'[e] <= Allowance(e)'
    <3>1. published[e] \in Nat /\ repeats[e] \in Nat /\ leftover[e] \in Nat /\ broken \in Nat
          /\ published[e] + leftover[e] <= Allowance(e)
      BY DEF TypeOK, BreaksInv
    <3>2. Spent(e) => Spent(e)'
      BY <2>1 DEF Spent
    <3>3. leftover'[e] = 0
      BY <2>1
    <3> QED BY <2>1, <3>1, <3>2, <3>3 DEF Allowance
  <2> QED BY <2>2 DEF BreaksInv
<1>11. ASSUME AgentCrash PROVE BreaksInv'
  <2>1. broken' = broken + 1 /\ published' = published /\ repeats' = repeats
    BY <1>11 DEF AgentCrash
  <2>2. PICK got \in SUBSET todo : Abandon(got)
    BY <1>11 DEF AgentCrash
  <2>3. ASSUME NEW e \in Envelopes
        PROVE  leftover'[e] = leftover[e] \/ (leftover'[e] = leftover[e] + 1 /\ ~Spent(e))
    <3>1. leftover[e] \in Nat
      BY DEF TypeOK
    <3>2. CASE e \in got
      <4>1. e \in todo /\ leftover'[e] = leftover[e] + 1
        BY <2>2, <3>2 DEF Abandon
      <4>2. ~Spent(e)
        BY <4>1, BatchWaits DEF Spent
      <4> QED BY <4>1, <4>2
    <3>3. CASE e \notin got
      <4>1. leftover'[e] = leftover[e] + 0
        BY <2>2, <3>3 DEF Abandon
      <4> QED BY <3>1, <4>1
    <3> QED BY <3>2, <3>3
  <2> QED BY <2>1, <2>3, BreakPays
<1>12. ASSUME AgentStopped PROVE BreaksInv'
  <2>1. InFlight = {} /\ UNCHANGED <<entry, answer, published, repeats, leftover, broken>>
    BY <1>12 DEF AgentStopped, queueVars, coreVars, bounds
  <2>2. \A e \in Envelopes : Spent(e) => Spent(e)'
    BY <2>1 DEF Spent, InFlight
  <2> QED BY <2>1, <2>2, NothingNew
<1>13. ASSUME Flush \/ CoreStart \/ InstallKey \/ AgentStop \/ AgentStart \/ UNCHANGED vars
       PROVE  BreaksInv'
  <2>1. UNCHANGED <<entry, answer, link, batch, todo, reply, published, repeats, leftover, broken>>
    BY <1>13 DEF Flush, CoreStart, InstallKey, AgentStop, AgentStart, vars, queueVars,
         callVars, coreVars, bounds
  <2>2. \A e \in Envelopes : Spent(e) => Spent(e)'
    BY <2>1 DEF Spent
  <2> QED BY <2>1, <2>2, NothingNew
<1> QED BY <1>1, <1>2, <1>3, <1>4, <1>5, <1>6, <1>7, <1>8, <1>9, <1>10, <1>11, <1>12, <1>13
     DEF Next

LEMMA InitBreaks == Init => BreaksInv
  BY DEF Init, BreaksInv, Allowance, Spent, NoBatch

LEMMA BreaksImply == TypeOK /\ BreaksInv => ExtraEventsNeedBreaks
<1> SUFFICES ASSUME TypeOK, BreaksInv, NEW e \in Envelopes
             PROVE  /\ published[e] <= 1 + broken + repeats[e]
                    /\ published[e] > 0 /\ entry[e] = "dead" => broken > 0
  BY DEF ExtraEventsNeedBreaks
<1>1. published[e] \in Nat /\ repeats[e] \in Nat /\ leftover[e] \in Nat /\ broken \in Nat
      /\ published[e] + leftover[e] <= Allowance(e)
  BY DEF TypeOK, BreaksInv
<1>2. published[e] <= 1 + broken + repeats[e]
  BY <1>1 DEF Allowance
<1>3. entry[e] = "dead" /\ broken = 0 => published[e] = 0
  BY <1>1 DEF Allowance, Spent
<1> QED BY <1>1, <1>2, <1>3

(* An envelope has an event at the core per broken call and per XADD sent  *)
(* again, and one more; and what is published and dead-lettered has met a  *)
(* broken call.                                                            *)
THEOREM EventsBounded == Spec => []ExtraEventsNeedBreaks
<1> QED BY InitType, TypeStep, InitShape, ShapeStep, WaitersStep, InitBreaks, BreaksStep,
        BreaksImply, PTL DEF Spec
=============================================================================
