--------------------------- MODULE AdapterProofs ---------------------------
(***************************************************************************)
(* Proofs about AdapterRunner and AdapterRepair, for any number of runs,   *)
(* events, proposals and faults.                                           *)
(***************************************************************************)
EXTENDS AdapterRepair, FiniteSetTheorems, TLAPS

USE RunnerAssumption, RepairAssumption

LEMMA NoRowType == NoRow \in Rows
  BY DEF NoRow, Rows, Statuses

(* What a run reports is a health row. *)
LEMMA ReportedType ==
  ASSUME RunnerTypeOK, NEW r \in Runs, NEW hint \in {"yes", "no"}
  PROVE  Reported(r, hint) \in Rows
<1>1. previous[r] \in Rows /\ outcome[r] \in Outcomes
  BY DEF RunnerTypeOK
<1>2. [previous[r] EXCEPT !.hint = "no"] \in Rows
      /\ [previous[r] EXCEPT !.hint = "no", !.status = "amber"] \in Rows
  BY <1>1 DEF Rows, Statuses
<1>3. ASSUME outcome[r] \notin {"green", "capped", "disallowed"}
      PROVE  [status |-> outcome[r], failures |-> previous[r].failures + 1, hint |-> hint] \in Rows
  BY <1>1, <1>3 DEF Rows, Statuses, Outcomes, Failures
<1> QED BY <1>2, <1>3, NoRowType DEF Reported

(* The runs that end have their locals back at the start. *)
LEMMA EndType ==
  ASSUME RunnerTypeOK, NEW ending, End(ending)
  PROVE  /\ pc' \in [Runs -> {"idle", "checking", "fetching", "inserting", "announcing",
                              "requesting", "reporting"}]
         /\ previous' \in [Runs -> Rows] /\ tier' \in [Runs -> Tiers]
         /\ todo' \in [Runs -> SUBSET Events] /\ current' \in [Runs -> SUBSET Events]
         /\ left' \in [Runs -> Nat] /\ outcome' \in [Runs -> Outcomes]
<1>1. /\ pc' = [r \in Runs |-> IF r \in ending THEN "idle" ELSE pc[r]]
      /\ previous' = [r \in Runs |-> IF r \in ending THEN NoRow ELSE previous[r]]
      /\ tier' = [r \in Runs |-> IF r \in ending THEN "hetzner-dc" ELSE tier[r]]
      /\ todo' = [r \in Runs |-> IF r \in ending THEN {} ELSE todo[r]]
      /\ current' = [r \in Runs |-> IF r \in ending THEN {} ELSE current[r]]
      /\ left' = [r \in Runs |-> IF r \in ending THEN 0 ELSE left[r]]
      /\ outcome' = [r \in Runs |-> IF r \in ending THEN "green" ELSE outcome[r]]
  BY DEF End
<1> QED BY <1>1, NoRowType DEF RunnerTypeOK, Tiers, Outcomes

LEMMA FaultType == ASSUME RunnerTypeOK, Fault PROVE faults' \in Nat
  BY DEF RunnerTypeOK, Fault

(* Every step of a run keeps its variables to their types. *)
LEMMA RunnerTypeStep ==
  ASSUME RunnerTypeOK, RunnerNext
  PROVE  RunnerTypeOK'
<1>1. ASSUME NEW r \in Runs, Start(r) PROVE RunnerTypeOK'
  <2>1. previous' \in [Runs -> Rows]
    BY <1>1, NoRowType DEF Start, RunnerTypeOK
  <2>2. faults' \in Nat /\ overlap' \in {"yes", "no"} /\ started' \in Nat
    BY <1>1, FaultType DEF Start, RunnerTypeOK
  <2> QED BY <1>1, <2>1, <2>2 DEF Start, RunnerTypeOK, storeVars, againVars
<1>2. ASSUME NEW r \in Runs, Check(r) PROVE RunnerTypeOK'
  <2>1. tier' \in [Runs -> Tiers] /\ outcome' \in [Runs -> Outcomes]
    BY <1>2, RunnerAssumption DEF Check, Endpoint, Tiers, Outcomes, RunnerTypeOK
  <2> QED BY <1>2, <2>1 DEF Check, RunnerTypeOK, storeVars, againVars
<1>3. ASSUME NEW r \in Runs, FetchFails(r) PROVE RunnerTypeOK'
  <2>1. outcome' \in [Runs -> Outcomes] /\ escalated' \in Tiers \union {"none"}
    BY <1>3 DEF FetchFails, Outcomes, RunnerTypeOK
  <2> QED BY <1>3, <2>1 DEF FetchFails, RunnerTypeOK, storeVars, againVars
<1>4. ASSUME NEW r \in Runs, Fetch(r) PROVE RunnerTypeOK'
  BY <1>4 DEF Fetch, RunnerTypeOK, storeVars, againVars
<1>5. ASSUME NEW r \in Runs, Close(r) PROVE RunnerTypeOK'
  BY <1>5 DEF Close, RunnerTypeOK, storeVars, againVars, Outcomes
<1>6. ASSUME NEW r \in Runs, CommandFails(r) PROVE RunnerTypeOK'
  <2>1. /\ stored' \subseteq Events /\ announced' \in [Events -> Nat]
        /\ requested' \in [Events -> Nat] /\ used' \in Nat
    <3>1. CASE used' \in {used, used + 1} /\ UNCHANGED storeVars
      BY <3>1 DEF RunnerTypeOK, storeVars
    <3>2. CASE /\ \E e \in todo[r] : stored' \in {stored, stored \union {e}}
               /\ UNCHANGED <<announced, requested, used>>
      BY <3>2 DEF RunnerTypeOK
    <3>3. CASE /\ \E e \in current[r] : announced' \in {announced, [announced EXCEPT ![e] = @ + 1]}
               /\ UNCHANGED <<stored, requested, used>>
      BY <3>3 DEF RunnerTypeOK
    <3>4. CASE /\ \E e \in current[r] : requested' \in {requested, [requested EXCEPT ![e] = @ + 1]}
               /\ UNCHANGED <<stored, announced, used>>
      BY <3>4 DEF RunnerTypeOK
    <3> QED BY <1>6, <3>1, <3>2, <3>3, <3>4 DEF CommandFails
  <2>2. /\ Fault /\ cut' = cut + 1 /\ outcome' = [outcome EXCEPT ![r] = "red"]
        /\ todo' = [todo EXCEPT ![r] = {}] /\ current' = [current EXCEPT ![r] = {}]
        /\ left' = [left EXCEPT ![r] = 0] /\ pc' = [pc EXCEPT ![r] = "reporting"]
        /\ UNCHANGED <<againVars, previous, tier, health, escalated, started, streak, overlap>>
    BY <1>6 DEF CommandFails
  <2>3. faults' \in Nat /\ cut' \in Nat /\ outcome' \in [Runs -> Outcomes]
    BY <2>2, FaultType DEF RunnerTypeOK, Outcomes, Failures
  <2> QED BY <2>1, <2>2, <2>3 DEF RunnerTypeOK, againVars
<1>7. ASSUME NEW r \in Runs, Report(r) PROVE RunnerTypeOK'
  <2>1. health' \in Rows
    BY <1>7, ReportedType DEF Report
  <2>2. streak' \in Nat
    BY <1>7 DEF Report, RunnerTypeOK
  <2> QED BY <1>7, <2>1, <2>2, EndType DEF Report, RunnerTypeOK, storeVars, againVars
<1>8. ASSUME NEW r \in Runs, RunDies(r) PROVE RunnerTypeOK'
  BY <1>8, EndType, FaultType DEF RunDies, RunnerTypeOK, storeVars, againVars
<1>9. ASSUME NEW r \in Runs, NEW e \in Events, Insert(r, e) PROVE RunnerTypeOK'
  BY <1>9 DEF Insert, RunnerTypeOK, againVars
<1>10. ASSUME NEW r \in Runs, NEW e \in Events, Announce(r, e) PROVE RunnerTypeOK'
  <2>1. announced' \in [Events -> Nat]
    BY <1>10 DEF Announce, RunnerTypeOK
  <2>2. Continue(r, left[r])
    BY <1>10 DEF Announce
  <2> QED BY <1>10, <2>1, <2>2 DEF Announce, Continue, RunnerTypeOK, againVars
<1>11. ASSUME NEW r \in Runs, NEW e \in Events, Request(r, e) PROVE RunnerTypeOK'
  BY <1>11 DEF Request, Continue, RunnerTypeOK, againVars
<1>12. ASSUME Crash PROVE RunnerTypeOK'
  <2>1. Cardinality(Underway) \in Nat
    BY FS_Subset, FS_CardinalityType, RunnerAssumption DEF Underway
  <2>2. cut' \in Nat /\ faults' \in Nat
    BY <1>12, <2>1, FaultType DEF Crash, RunnerTypeOK
  <2> QED BY <1>12, <2>2, EndType DEF Crash, RunnerTypeOK, storeVars, againVars
<1>13. ASSUME NewDay \/ Forget PROVE RunnerTypeOK'
  BY <1>13 DEF NewDay, Forget, RunnerTypeOK, runVars, storeVars, againVars
<1>14. ASSUME NEW r \in Runs, Resend(r) PROVE RunnerTypeOK'
  <2>1. /\ announced' \in [Events -> Nat] /\ reannounced' \in [Events -> Nat]
        /\ requested' \in [Events -> Nat] /\ rerequested' \in [Events -> Nat] /\ used' \in Nat
    <3>1. CASE /\ \E e \in current[r] :
                    /\ announced' = [announced EXCEPT ![e] = @ + 1]
                    /\ reannounced' = [reannounced EXCEPT ![e] = @ + 1]
               /\ UNCHANGED <<requested, rerequested, used>>
      BY <3>1 DEF RunnerTypeOK
    <3>2. CASE /\ \E e \in current[r] :
                    /\ requested' = [requested EXCEPT ![e] = @ + 1]
                    /\ rerequested' = [rerequested EXCEPT ![e] = @ + 1]
               /\ UNCHANGED <<announced, reannounced, used>>
      BY <3>2 DEF RunnerTypeOK
    <3>3. CASE used' = used + 1 /\ UNCHANGED <<announced, requested, againVars>>
      BY <3>3 DEF RunnerTypeOK, againVars
    <3> QED BY <1>14, <3>1, <3>2, <3>3 DEF Resend
  <2>2. /\ UNCHANGED <<runVars, stored, health, escalated, started, cut, streak, overlap>>
        /\ faults' \in Nat
    BY <1>14, FaultType DEF Resend
  <2> QED BY <2>1, <2>2 DEF RunnerTypeOK, runVars
<1> QED BY <1>1, <1>2, <1>3, <1>4, <1>5, <1>6, <1>7, <1>8, <1>9, <1>10, <1>11, <1>12, <1>13, <1>14
     DEF RunnerNext

(***************************************************************************)
(* What a run is publishing.                                               *)
(***************************************************************************)
Holds(r, e) == e \in current[r]

HolderShape ==
  \A r \in Runs, e \in Events : Holds(r, e) =>
    /\ e \in stored
    /\ \A s \in Runs : Holds(s, e) => r = s
    /\ \A f \in Events : Holds(r, f) => e = f
    /\ \/ pc[r] = "announcing" /\ announced[e] = reannounced[e] /\ requested[e] = 0
          /\ rerequested[e] = 0 /\ left[r] = Urls[e]
       \/ pc[r] = "requesting" /\ announced[e] = 1 + reannounced[e]
          /\ requested[e] + left[r] = Urls[e] + rerequested[e] /\ left[r] > 0

StoredFirst ==
  \A e \in Events : e \notin stored =>
    announced[e] = 0 /\ requested[e] = 0 /\ reannounced[e] = 0 /\ rerequested[e] = 0

PublishInv == PublishedOnce /\ HolderShape /\ StoredFirst

(* A step that publishes nothing, and after which no run holds more than   *)
(* it did, disturbs none of this.                                          *)
LEMMA PublishesNothing ==
  ASSUME PublishInv, UNCHANGED storeVars,
         \A r \in Runs, e \in Events : Holds(r, e)' =>
           Holds(r, e) /\ pc'[r] = pc[r] /\ left'[r] = left[r]
  PROVE  PublishInv'
<1>1. PublishedOnce' /\ StoredFirst'
  BY DEF PublishInv, PublishedOnce, StoredFirst, storeVars, againVars
<1>2. HolderShape'
  BY DEF PublishInv, HolderShape, storeVars, againVars
<1> QED BY <1>1, <1>2 DEF PublishInv

LEMMA EndHolds ==
  ASSUME NEW ending, End(ending)
  PROVE  \A r \in Runs, e \in Events : Holds(r, e)' =>
           Holds(r, e) /\ pc'[r] = pc[r] /\ left'[r] = left[r]
  BY DEF End, Holds

LEMMA InsertPublish ==
  ASSUME RunnerTypeOK, PublishInv, NEW r \in Runs, NEW e \in Events, Insert(r, e)
  PROVE  PublishInv'
<1>1. /\ stored' = stored \union {e} /\ announced' = announced /\ requested' = requested
      /\ reannounced' = reannounced /\ rerequested' = rerequested
  BY DEF Insert, againVars
<1>2. PublishedOnce' /\ StoredFirst'
  BY <1>1 DEF PublishInv, PublishedOnce, StoredFirst
<1>3. CASE e \in stored
  <2>1. UNCHANGED <<pc, current, left>> /\ stored' = stored
    BY <1>1, <1>3 DEF Insert
  <2> QED BY <1>1, <1>2, <2>1 DEF PublishInv, HolderShape, Holds
<1>4. CASE e \notin stored
  <2>1. /\ current' = [current EXCEPT ![r] = {e}] /\ left' = [left EXCEPT ![r] = Urls[e]]
        /\ pc' = [pc EXCEPT ![r] = "announcing"]
    BY <1>4 DEF Insert
  <2>2. \A s \in Runs : ~Holds(s, e)
    BY <1>4 DEF PublishInv, HolderShape
  <2>3. announced[e] = 0 /\ requested[e] = 0 /\ reannounced[e] = 0 /\ rerequested[e] = 0
    BY <1>4 DEF PublishInv, StoredFirst
  <2>4. \A s \in Runs, f \in Events : Holds(s, f)' <=> IF s = r THEN f = e ELSE Holds(s, f)
    BY <2>1 DEF Holds, RunnerTypeOK
  <2>5. \A s \in Runs : s # r => pc'[s] = pc[s] /\ left'[s] = left[s]
    BY <2>1 DEF RunnerTypeOK
  <2>6. pc'[r] = "announcing" /\ left'[r] = Urls[e]
    BY <2>1 DEF RunnerTypeOK
  <2>7. ASSUME NEW s \in Runs, NEW f \in Events, Holds(s, f)'
        PROVE  /\ f \in stored'
               /\ \A t \in Runs : Holds(t, f)' => s = t
               /\ \A g \in Events : Holds(s, g)' => f = g
               /\ \/ pc'[s] = "announcing" /\ announced'[f] = reannounced'[f]
                     /\ requested'[f] = 0 /\ rerequested'[f] = 0 /\ left'[s] = Urls[f]
                  \/ pc'[s] = "requesting" /\ announced'[f] = 1 + reannounced'[f]
                     /\ requested'[f] + left'[s] = Urls[f] + rerequested'[f] /\ left'[s] > 0
    <3>1. CASE s = r
      <4>1. f = e
        BY <2>4, <2>7, <3>1
      <4> QED BY <1>1, <2>2, <2>3, <2>4, <2>6, <3>1, <4>1
    <3>2. CASE s # r
      <4>1. Holds(s, f) /\ f # e
        BY <2>2, <2>4, <2>7, <3>2
      <4> QED BY <1>1, <2>4, <2>5, <3>2, <4>1 DEF PublishInv, HolderShape
    <3> QED BY <3>1, <3>2
  <2>8. HolderShape'
    BY <2>7 DEF HolderShape
  <2> QED BY <1>2, <2>8 DEF PublishInv
<1> QED BY <1>3, <1>4

(* Announce and Request: one envelope more of what the run holds. *)
LEMMA EnvelopePublish ==
  ASSUME RunnerTypeOK, PublishInv, NEW r \in Runs, NEW e \in Events,
         Announce(r, e) \/ Request(r, e)
  PROVE  PublishInv'
<1> DEFINE n == IF pc[r] = "announcing" THEN left[r] ELSE left[r] - 1
<1>1. /\ Holds(r, e) /\ stored' = stored /\ Continue(r, n)
      /\ reannounced' = reannounced /\ rerequested' = rerequested
      /\ \/ pc[r] = "announcing" /\ announced' = [announced EXCEPT ![e] = @ + 1]
            /\ requested' = requested
         \/ pc[r] = "requesting" /\ left[r] > 0 /\ announced' = announced
            /\ requested' = [requested EXCEPT ![e] = @ + 1]
  BY DEF Announce, Request, Holds, againVars
<1>2. /\ e \in stored /\ Urls[e] \in Nat /\ left[r] \in Nat
      /\ \A s \in Runs : Holds(s, e) => s = r
      /\ \A f \in Events : Holds(r, f) => f = e
      /\ announced[e] \in Nat /\ requested[e] \in Nat
      /\ reannounced[e] \in Nat /\ rerequested[e] \in Nat
  BY <1>1, RunnerAssumption DEF PublishInv, HolderShape, RunnerTypeOK
<1>3. /\ announced'[e] = 1 + reannounced[e] /\ requested'[e] + n = Urls[e] + rerequested[e]
      /\ n \in Nat
      /\ \A f \in Events : f # e => announced'[f] = announced[f] /\ requested'[f] = requested[f]
  <2>1. CASE pc[r] = "announcing"
    BY <1>1, <1>2, <2>1 DEF PublishInv, HolderShape, RunnerTypeOK
  <2>2. CASE pc[r] = "requesting"
    <3>1. /\ announced[e] = 1 + reannounced[e] /\ left[r] > 0
          /\ requested[e] + left[r] = Urls[e] + rerequested[e]
      BY <1>1, <2>2 DEF PublishInv, HolderShape
    <3>2. announced' = announced /\ requested' = [requested EXCEPT ![e] = @ + 1]
      BY <1>1, <2>2
    <3>3. /\ requested'[e] = requested[e] + 1
          /\ \A f \in Events : f # e => requested'[f] = requested[f]
      BY <3>2 DEF RunnerTypeOK
    <3> QED BY <1>2, <2>2, <3>1, <3>2, <3>3
  <2> QED BY <1>1, <2>1, <2>2
<1> HIDE DEF n
<1>4. PublishedOnce' /\ StoredFirst'
  BY <1>1, <1>2, <1>3 DEF PublishInv, PublishedOnce, StoredFirst, RunnerTypeOK
<1>5. /\ \A s \in Runs, f \in Events : Holds(s, f)' =>
           Holds(s, f) /\ (s = r => f = e /\ pc'[s] = "requesting" /\ left'[s] = n /\ n # 0)
      /\ \A s \in Runs : s # r => pc'[s] = pc[s] /\ left'[s] = left[s]
  BY <1>1, <1>2 DEF Continue, Holds, RunnerTypeOK
<1>6. ASSUME NEW s \in Runs, NEW f \in Events, Holds(s, f)'
      PROVE  /\ f \in stored'
             /\ \A t \in Runs : Holds(t, f)' => s = t
             /\ \A g \in Events : Holds(s, g)' => f = g
             /\ \/ pc'[s] = "announcing" /\ announced'[f] = reannounced'[f]
                   /\ requested'[f] = 0 /\ rerequested'[f] = 0 /\ left'[s] = Urls[f]
                \/ pc'[s] = "requesting" /\ announced'[f] = 1 + reannounced'[f]
                   /\ requested'[f] + left'[s] = Urls[f] + rerequested'[f] /\ left'[s] > 0
  <2>1. Holds(s, f) /\ \A t \in Runs : Holds(t, f)' => Holds(t, f)
    BY <1>5, <1>6
  <2>2. /\ f \in stored' /\ \A t \in Runs : Holds(t, f)' => s = t
        /\ \A g \in Events : Holds(s, g)' => f = g
    BY <1>1, <1>5, <2>1 DEF PublishInv, HolderShape
  <2>3. CASE s = r
    BY <1>1, <1>3, <1>5, <1>6, <2>2, <2>3
  <2>4. CASE s # r
    <3>1. f # e
      BY <1>2, <2>1, <2>4
    <3>2. pc'[s] = pc[s] /\ left'[s] = left[s] /\ announced'[f] = announced[f]
          /\ requested'[f] = requested[f]
      BY <1>3, <1>5, <2>4, <3>1
    <3> QED BY <1>1, <2>1, <2>2, <3>2 DEF PublishInv, HolderShape
  <2> QED BY <2>3, <2>4
<1>7. HolderShape'
  BY <1>6 DEF HolderShape
<1> QED BY <1>4, <1>7 DEF PublishInv

(* A command that fails publishes once more at most, and lets go.          *)
LEMMA FailurePublish ==
  ASSUME RunnerTypeOK, PublishInv, NEW r \in Runs, CommandFails(r)
  PROVE  PublishInv'
<1>1. /\ current' = [current EXCEPT ![r] = {}] /\ left' = [left EXCEPT ![r] = 0]
      /\ pc' = [pc EXCEPT ![r] = "reporting"]
      /\ reannounced' = reannounced /\ rerequested' = rerequested
  BY DEF CommandFails, againVars
<1>2. \A s \in Runs, f \in Events : Holds(s, f)' => s # r /\ Holds(s, f)
  BY <1>1 DEF Holds, RunnerTypeOK
<1>3. \A s \in Runs : s # r => pc'[s] = pc[s] /\ left'[s] = left[s]
  BY <1>1 DEF RunnerTypeOK
<1>4. /\ stored \subseteq stored'
      /\ \A f \in Events : announced'[f] # announced[f] \/ requested'[f] # requested[f]
                             => Holds(r, f)
      /\ PublishedOnce' /\ StoredFirst'
  <2>1. CASE UNCHANGED storeVars
    BY <2>1 DEF PublishInv, PublishedOnce, StoredFirst, storeVars, againVars
  <2>2. CASE /\ \E e \in todo[r] : stored' \in {stored, stored \union {e}}
             /\ UNCHANGED <<announced, requested, used>>
    BY <1>1, <2>2 DEF PublishInv, PublishedOnce, StoredFirst
  <2>3. CASE /\ pc[r] = "announcing"
             /\ \E e \in current[r] : announced' \in {announced, [announced EXCEPT ![e] = @ + 1]}
             /\ UNCHANGED <<stored, requested, used>>
    <3>1. PICK e \in current[r] : announced' \in {announced, [announced EXCEPT ![e] = @ + 1]}
      BY <2>3
    <3>2. e \in Events /\ Holds(r, e)
      BY <3>1 DEF Holds, RunnerTypeOK
    <3>3. /\ announced[e] = reannounced[e] /\ requested[e] = 0 /\ e \in stored
          /\ reannounced[e] \in Nat /\ announced[e] \in Nat
      BY <2>3, <3>2 DEF PublishInv, HolderShape, RunnerTypeOK
    <3>4. announced'[e] \in {announced[e], announced[e] + 1} /\ \A f \in Events : f # e => announced'[f] = announced[f]
      BY <3>1, <3>2, <3>3 DEF RunnerTypeOK
    <3> QED BY <1>1, <2>3, <3>2, <3>3, <3>4 DEF PublishInv, PublishedOnce, StoredFirst
  <2>4. CASE /\ pc[r] = "requesting"
             /\ \E e \in current[r] : requested' \in {requested, [requested EXCEPT ![e] = @ + 1]}
             /\ UNCHANGED <<stored, announced, used>>
    <3>1. PICK e \in current[r] : requested' \in {requested, [requested EXCEPT ![e] = @ + 1]}
      BY <2>4
    <3>2. e \in Events /\ Holds(r, e)
      BY <3>1 DEF Holds, RunnerTypeOK
    <3>3. /\ announced[e] = 1 + reannounced[e] /\ e \in stored /\ left[r] > 0
          /\ requested[e] + left[r] = Urls[e] + rerequested[e]
      BY <2>4, <3>2 DEF PublishInv, HolderShape
    <3>4. /\ \A f \in Events : f # e => requested'[f] = requested[f]
          /\ requested'[e] \in {requested[e], requested[e] + 1}
      BY <3>1, <3>2 DEF RunnerTypeOK
    <3>5. /\ requested[e] \in Nat /\ left[r] \in Nat /\ Urls[e] \in Nat
          /\ rerequested[e] \in Nat /\ reannounced[e] \in Nat
      BY <3>2, RunnerAssumption DEF RunnerTypeOK
    <3>6. requested'[e] <= Urls[e] + rerequested[e]
      BY <3>3, <3>4, <3>5
    <3> QED BY <1>1, <3>6, <2>4, <3>2, <3>3, <3>4, <3>5 DEF PublishInv, PublishedOnce, StoredFirst
  <2> QED BY <2>1, <2>2, <2>3, <2>4 DEF CommandFails
<1>5. HolderShape'
  <2>1. ASSUME NEW s \in Runs, NEW f \in Events, Holds(s, f)'
        PROVE  Holds(s, f) /\ s # r /\ announced'[f] = announced[f] /\ requested'[f] = requested[f]
    <3>1. Holds(s, f) /\ s # r
      BY <1>2, <2>1
    <3>2. ~Holds(r, f)
      BY <3>1 DEF PublishInv, HolderShape
    <3> QED BY <1>4, <3>1, <3>2
  <2> QED BY <1>1, <1>2, <1>3, <1>4, <2>1 DEF PublishInv, HolderShape
<1> QED BY <1>4, <1>5 DEF PublishInv

(* An XADD that is sent again: the envelope and its record together.       *)
LEMMA ResendPublish ==
  ASSUME RunnerTypeOK, PublishInv, NEW r \in Runs, Resend(r)
  PROVE  PublishInv'
<1>1. /\ stored' = stored /\ pc' = pc /\ left' = left
      /\ \A s \in Runs, f \in Events : Holds(s, f)' <=> Holds(s, f)
  BY DEF Resend, runVars, Holds
<1>2. \/ UNCHANGED storeVars
      \/ \E e \in current[r] :
           \/ /\ pc[r] = "announcing" /\ UNCHANGED <<requested, rerequested>>
              /\ announced' = [announced EXCEPT ![e] = @ + 1]
              /\ reannounced' = [reannounced EXCEPT ![e] = @ + 1]
           \/ /\ pc[r] = "requesting" /\ UNCHANGED <<announced, reannounced>>
              /\ requested' = [requested EXCEPT ![e] = @ + 1]
              /\ rerequested' = [rerequested EXCEPT ![e] = @ + 1]
  BY DEF Resend, storeVars
<1>3. CASE UNCHANGED storeVars
  BY <1>1, <1>3, PublishesNothing
<1>4. ASSUME NEW e \in current[r], pc[r] = "announcing", UNCHANGED <<requested, rerequested>>,
             announced' = [announced EXCEPT ![e] = @ + 1],
             reannounced' = [reannounced EXCEPT ![e] = @ + 1]
      PROVE  PublishInv'
  <2>1. e \in Events /\ Holds(r, e) /\ e \in stored
    BY DEF Holds, RunnerTypeOK, PublishInv, HolderShape
  <2>2. /\ announced'[e] = announced[e] + 1 /\ reannounced'[e] = reannounced[e] + 1
        /\ \A f \in Events : f # e => announced'[f] = announced[f] /\ reannounced'[f] = reannounced[f]
        /\ announced[e] \in Nat /\ reannounced[e] \in Nat
    BY <1>4, <2>1 DEF RunnerTypeOK
  <2>3. PublishedOnce' /\ StoredFirst'
    BY <1>1, <1>4, <2>1, <2>2 DEF PublishInv, PublishedOnce, StoredFirst
  <2>4. HolderShape'
    <3>1. \A s \in Runs : Holds(s, e) => pc[s] = "announcing"
      BY <1>4, <2>1 DEF PublishInv, HolderShape
    <3> QED BY <1>1, <1>4, <2>1, <2>2, <3>1 DEF PublishInv, HolderShape
  <2> QED BY <2>3, <2>4 DEF PublishInv
<1>5. ASSUME NEW e \in current[r], pc[r] = "requesting", UNCHANGED <<announced, reannounced>>,
             requested' = [requested EXCEPT ![e] = @ + 1],
             rerequested' = [rerequested EXCEPT ![e] = @ + 1]
      PROVE  PublishInv'
  <2>1. e \in Events /\ Holds(r, e) /\ e \in stored
    BY DEF Holds, RunnerTypeOK, PublishInv, HolderShape
  <2>2. /\ requested'[e] = requested[e] + 1 /\ rerequested'[e] = rerequested[e] + 1
        /\ \A f \in Events : f # e => requested'[f] = requested[f] /\ rerequested'[f] = rerequested[f]
        /\ requested[e] \in Nat /\ rerequested[e] \in Nat /\ Urls[e] \in Nat /\ left[r] \in Nat
    BY <1>5, <2>1, RunnerAssumption DEF RunnerTypeOK
  <2>3. announced[e] = 1 + reannounced[e] /\ reannounced[e] \in Nat
    BY <1>5, <2>1 DEF PublishInv, HolderShape, RunnerTypeOK
  <2>4. PublishedOnce' /\ StoredFirst'
    BY <1>1, <1>5, <2>1, <2>2, <2>3 DEF PublishInv, PublishedOnce, StoredFirst
  <2>5. HolderShape'
    <3>1. \A s \in Runs : Holds(s, e) => s = r
      BY <2>1 DEF PublishInv, HolderShape
    <3>2. requested'[e] + left[r] = Urls[e] + rerequested'[e] /\ left[r] > 0
      BY <1>5, <2>1, <2>2 DEF PublishInv, HolderShape
    <3> QED BY <1>1, <1>5, <2>1, <2>2, <3>1, <3>2 DEF PublishInv, HolderShape
  <2> QED BY <2>4, <2>5 DEF PublishInv
<1> QED BY <1>2, <1>3, <1>4, <1>5

(* Every step of the runs. *)
LEMMA RunnerPublish ==
  ASSUME RunnerTypeOK, PublishInv, RunnerNext
  PROVE  PublishInv'
<1>1. ASSUME NEW r \in Runs, Start(r) \/ Check(r) \/ FetchFails(r) \/ Fetch(r) \/ Close(r)
      PROVE  PublishInv'
  <2>1. pc[r] \notin {"announcing", "requesting"}
    BY <1>1 DEF Start, Check, FetchFails, Fetch, Close
  <2>2. \A e \in Events : ~Holds(r, e)
    BY <2>1 DEF PublishInv, HolderShape
  <2>3. UNCHANGED <<current, left, storeVars>> /\ \A s \in Runs : s # r => pc'[s] = pc[s]
    BY <1>1 DEF Start, Check, FetchFails, Fetch, Close, RunnerTypeOK
  <2>4. \A s \in Runs, e \in Events : Holds(s, e)' =>
          Holds(s, e) /\ pc'[s] = pc[s] /\ left'[s] = left[s]
    BY <2>2, <2>3 DEF Holds
  <2> QED BY <2>3, <2>4, PublishesNothing
<1>2. ASSUME NEW r \in Runs, Report(r) \/ RunDies(r) PROVE PublishInv'
  <2>1. End({r}) /\ UNCHANGED storeVars
    BY <1>2 DEF Report, RunDies
  <2> QED BY <2>1, EndHolds, PublishesNothing
<1>3. ASSUME NEW r \in Runs, CommandFails(r) PROVE PublishInv'
  BY <1>3, FailurePublish
<1>4. ASSUME NEW r \in Runs, NEW e \in Events, Insert(r, e) PROVE PublishInv'
  BY <1>4, InsertPublish
<1>5. ASSUME NEW r \in Runs, NEW e \in Events, Announce(r, e) \/ Request(r, e) PROVE PublishInv'
  BY <1>5, EnvelopePublish
<1>6. ASSUME Crash PROVE PublishInv'
  <2>1. End(Runs) /\ UNCHANGED storeVars
    BY <1>6 DEF Crash
  <2> QED BY <2>1, EndHolds, PublishesNothing
<1>7. ASSUME NewDay \/ Forget PROVE PublishInv'
  <2>1. UNCHANGED <<runVars, storeVars>>
    BY <1>7 DEF NewDay, Forget
  <2> QED BY <2>1, PublishesNothing DEF runVars, Holds
<1>8. ASSUME NEW r \in Runs, Resend(r) PROVE PublishInv'
  BY <1>8, ResendPublish
<1> QED BY <1>1, <1>2, <1>3, <1>4, <1>5, <1>6, <1>7, <1>8 DEF RunnerNext

(***************************************************************************)
(* What a run that is cut short loses.                                     *)
(***************************************************************************)
LEMMA UnpublishedFinite ==
  ASSUME RunnerTypeOK
  PROVE  IsFiniteSet(Unpublished) /\ Cardinality(Unpublished) \in Nat
  BY FS_Subset, FS_CardinalityType, RunnerAssumption DEF Unpublished, RunnerTypeOK

LEMMA UnionBound ==
  ASSUME NEW S, NEW T, IsFiniteSet(S), IsFiniteSet(T)
  PROVE  /\ IsFiniteSet(S \union T) /\ Cardinality(S \union T) \in Nat
         /\ Cardinality(S) \in Nat /\ Cardinality(T) \in Nat
         /\ Cardinality(S \union T) <= Cardinality(S) + Cardinality(T)
<1>1. /\ IsFiniteSet(S \union T) /\ IsFiniteSet(S \cap T)
      /\ Cardinality(S \union T) = Cardinality(S) + Cardinality(T) - Cardinality(S \cap T)
  BY FS_Union, FS_Intersection
<1>2. /\ Cardinality(S) \in Nat /\ Cardinality(T) \in Nat
      /\ Cardinality(S \cap T) \in Nat /\ Cardinality(S \union T) \in Nat
  BY <1>1, FS_CardinalityType
<1> QED BY <1>1, <1>2

LEMMA HandIsHeld == \A e \in Events : e \in InHand <=> \E r \in Runs : Holds(r, e)
  BY DEF InHand, Holds

(* A step after which nothing more is unpublished than before. *)
LEMMA LosesNothing ==
  ASSUME RunnerTypeOK, EachCutLosesOne, Unpublished' \subseteq Unpublished,
         cut' \in Nat, cut' >= cut
  PROVE  EachCutLosesOne'
<1>1. IsFiniteSet(Unpublished) /\ Cardinality(Unpublished) \in Nat
  BY UnpublishedFinite
<1>2. Cardinality(Unpublished') <= Cardinality(Unpublished) /\ Cardinality(Unpublished') \in Nat
  BY <1>1, FS_Subset, FS_CardinalityType
<1> QED BY <1>1, <1>2 DEF EachCutLosesOne, RunnerTypeOK

(* At most one event in hand for each run under way. *)
LEMMA HandsFull ==
  ASSUME RunnerTypeOK, PublishInv
  PROVE  /\ IsFiniteSet(InHand) /\ IsFiniteSet(Underway)
         /\ Cardinality(InHand) <= Cardinality(Underway)
         /\ Cardinality(InHand) \in Nat /\ Cardinality(Underway) \in Nat
<1> DEFINE holder == [e \in InHand |-> CHOOSE r \in Runs : Holds(r, e)]
<1>1. IsFiniteSet(Underway) /\ Cardinality(Underway) \in Nat
  BY FS_Subset, FS_CardinalityType, RunnerAssumption DEF Underway
<1>2. InHand \subseteq Events
  BY DEF InHand, RunnerTypeOK
<1>3. \A e \in InHand : holder[e] \in Runs /\ Holds(holder[e], e)
  BY HandIsHeld, <1>2
<1>4. \A e \in InHand : holder[e] \in Underway
  BY <1>2, <1>3 DEF PublishInv, HolderShape, Underway
<1>5. \A e, f \in InHand : holder[e] = holder[f] => e = f
  BY <1>2, <1>3 DEF PublishInv, HolderShape
<1>6. holder \in Injection(InHand, Underway)
  BY <1>4, <1>5 DEF Injection, IsInjective
<1> QED BY <1>1, <1>6, FS_Injection, FS_CardinalityType

LEMMA RunnerCut ==
  ASSUME RunnerTypeOK, PublishInv, EachCutLosesOne, RunnerNext, RunnerTypeOK', PublishInv'
  PROVE  EachCutLosesOne'
<1>1. ASSUME NEW r \in Runs, Start(r) \/ Check(r) \/ FetchFails(r) \/ Fetch(r) \/ Close(r)
      PROVE  EachCutLosesOne'
  <2>1. UNCHANGED <<current, storeVars, cut>>
    BY <1>1 DEF Start, Check, FetchFails, Fetch, Close
  <2>2. Unpublished' = Unpublished /\ cut' \in Nat /\ cut' >= cut
    BY <2>1 DEF Unpublished, InHand, storeVars, againVars, RunnerTypeOK
  <2> QED BY <2>2, LosesNothing
<1>2. ASSUME NEW r \in Runs, Report(r) \/ RunDies(r) PROVE EachCutLosesOne'
  <2>1. End({r}) /\ UNCHANGED storeVars /\ cut' \in {cut, cut + 1}
        /\ pc[r] \notin {"announcing", "requesting"}
    BY <1>2 DEF Report, RunDies
  <2>2. \A e \in Events : ~Holds(r, e)
    BY <2>1 DEF PublishInv, HolderShape
  <2>3. current' = [s \in Runs |-> IF s \in {r} THEN {} ELSE current[s]]
    BY <2>1 DEF End
  <2>4. \A e \in Events : (e \in InHand)' <=> e \in InHand
    BY <2>2, <2>3 DEF InHand, Holds
  <2>5. Unpublished' \subseteq Unpublished /\ cut' \in Nat /\ cut' >= cut
    BY <2>1, <2>4 DEF Unpublished, storeVars, againVars, RunnerTypeOK
  <2> QED BY <2>5, LosesNothing
<1>3. ASSUME NEW r \in Runs, NEW e \in Events, Insert(r, e) PROVE EachCutLosesOne'
  <2>1. cut' = cut /\ announced' = announced /\ requested' = requested
        /\ stored' = stored \union {e} /\ rerequested' = rerequested
    BY <1>3 DEF Insert, againVars
  <2>2. \A s \in Runs, f \in Events : Holds(s, f) => Holds(s, f)'
    <3>1. pc[r] = "inserting" /\ (current' = current \/ current' = [current EXCEPT ![r] = {e}])
      BY <1>3 DEF Insert
    <3>2. \A f \in Events : ~Holds(r, f)
      BY <3>1 DEF PublishInv, HolderShape
    <3> QED BY <3>1, <3>2 DEF Holds, RunnerTypeOK
  <2>3. e \notin stored => Holds(r, e)'
    BY <1>3 DEF Insert, Holds, RunnerTypeOK
  <2>4. Unpublished' \subseteq Unpublished
    BY <2>1, <2>2, <2>3 DEF Unpublished, RunnerTypeOK, InHand, Holds
  <2> QED BY <2>1, <2>4, LosesNothing DEF RunnerTypeOK
<1>4. ASSUME NEW r \in Runs, NEW e \in Events, Announce(r, e) \/ Request(r, e)
      PROVE  EachCutLosesOne'
  <2> DEFINE n == IF pc[r] = "announcing" THEN left[r] ELSE left[r] - 1
  <2>1. /\ cut' = cut /\ stored' = stored /\ Holds(r, e) /\ Continue(r, n)
        /\ rerequested' = rerequested
        /\ \/ pc[r] = "announcing" /\ announced' = [announced EXCEPT ![e] = @ + 1]
              /\ requested' = requested
           \/ pc[r] = "requesting" /\ announced' = announced
              /\ requested' = [requested EXCEPT ![e] = @ + 1]
    BY <1>4 DEF Announce, Request, Holds, againVars
  <2>2. \A s \in Runs, f \in Events : Holds(s, f) /\ ~Holds(s, f)' => s = r /\ f = e /\ n = 0
    BY <2>1 DEF Continue, Holds, RunnerTypeOK, PublishInv, HolderShape
  <2>3. n = 0 => announced'[e] > 0 /\ requested'[e] = Urls[e] + rerequested[e]
    <3>1. /\ left[r] \in Nat /\ requested[e] \in Nat /\ announced[e] \in Nat /\ Urls[e] \in Nat
          /\ reannounced[e] \in Nat /\ rerequested[e] \in Nat
      BY <2>1, RunnerAssumption DEF RunnerTypeOK
    <3>2. CASE pc[r] = "announcing"
      <4>1. /\ announced[e] = reannounced[e] /\ requested[e] = 0
            /\ rerequested[e] = 0 /\ left[r] = Urls[e]
        BY <2>1, <3>2 DEF PublishInv, HolderShape
      <4>2. announced'[e] = announced[e] + 1 /\ requested' = requested
        BY <2>1, <3>2 DEF RunnerTypeOK
      <4> QED BY <3>1, <3>2, <4>1, <4>2
    <3>3. CASE pc[r] = "requesting"
      <4>1. announced[e] > 0 /\ requested[e] + left[r] = Urls[e] + rerequested[e]
        BY <2>1, <3>1, <3>3 DEF PublishInv, HolderShape
      <4>2. announced' = announced /\ requested'[e] = requested[e] + 1
        BY <2>1, <3>3 DEF RunnerTypeOK
      <4> QED BY <3>1, <3>3, <4>1, <4>2
    <3> QED BY <2>1, <3>2, <3>3
  <2>4. \A f \in Events : f # e => announced'[f] = announced[f] /\ requested'[f] = requested[f]
    BY <2>1 DEF RunnerTypeOK
  <2> HIDE DEF n
  <2>5. ASSUME NEW f \in Unpublished' PROVE f \in Unpublished
    <3>1. f \in Events /\ f \in stored /\ ~(f \in InHand)'
      BY <2>1, <2>5 DEF Unpublished, RunnerTypeOK
    <3>2. CASE f = e
      <4>1. n = 0
        BY <2>1, <2>2, <3>1, <3>2 DEF InHand, Holds
      <4>2. announced'[e] > 0 /\ ~(requested'[e] < Urls[e] + rerequested'[e])
        <5>1. announced'[e] > 0 /\ requested'[e] = Urls[e] + rerequested'[e]
          BY <2>1, <2>3, <4>1
        <5>2. requested'[e] \in Nat
          BY DEF RunnerTypeOK
        <5> QED BY <5>1, <5>2
      <4>3. announced'[e] \in Nat
        BY DEF RunnerTypeOK
      <4> QED BY <2>5, <3>2, <4>2, <4>3 DEF Unpublished
    <3>3. CASE f # e
      <4>1. f \notin InHand
        BY <2>2, <3>1, <3>3 DEF InHand, Holds
      <4> QED BY <2>1, <2>4, <2>5, <3>1, <3>3, <4>1 DEF Unpublished
    <3> QED BY <3>2, <3>3
  <2> QED BY <2>1, <2>5, LosesNothing DEF RunnerTypeOK
<1>5. ASSUME NEW r \in Runs, CommandFails(r) PROVE EachCutLosesOne'
  <2>1. /\ cut' = cut + 1 /\ current' = [current EXCEPT ![r] = {}]
        /\ rerequested' = rerequested
    BY <1>5 DEF CommandFails, againVars
  <2>2. \E x : Unpublished' \subseteq Unpublished \union {x}
    <3>1. \A s \in Runs, f \in Events : Holds(s, f) /\ ~Holds(s, f)' => s = r
      BY <2>1 DEF Holds, RunnerTypeOK
    <3>2. CASE pc[r] = "inserting"
      <4>1. \A f \in Events : ~Holds(r, f)
        BY <3>2 DEF PublishInv, HolderShape
      <4>2. announced' = announced /\ requested' = requested
            /\ \E x : stored' \subseteq stored \union {x}
        BY <3>2, <1>5 DEF CommandFails, storeVars
      <4>3. PICK x : stored' \subseteq stored \union {x}
        BY <4>2
      <4>4. Unpublished' \subseteq Unpublished \union {x}
        BY <2>1, <3>1, <4>1, <4>2, <4>3 DEF Unpublished, InHand, Holds, RunnerTypeOK
      <4> QED BY <4>4
    <3>3. CASE pc[r] \in {"announcing", "requesting"}
      <4>1. PICK x \in current[r] :
                 \/ announced' \in {announced, [announced EXCEPT ![x] = @ + 1]}
                    /\ UNCHANGED <<stored, requested>>
                 \/ requested' \in {requested, [requested EXCEPT ![x] = @ + 1]}
                    /\ UNCHANGED <<stored, announced>>
        BY <3>3, <1>5 DEF CommandFails
      <4>2. \A f \in Events : Holds(r, f) => f = x
        BY <4>1 DEF PublishInv, HolderShape, Holds, RunnerTypeOK
      <4>3. /\ stored' = stored
            /\ \A f \in Events : f # x => announced'[f] = announced[f] /\ requested'[f] = requested[f]
        BY <4>1 DEF RunnerTypeOK
      <4>4. Unpublished' \subseteq Unpublished \union {x}
        BY <2>1, <3>1, <4>2, <4>3 DEF Unpublished, InHand, Holds, RunnerTypeOK
      <4> QED BY <4>4
    <3> QED BY <3>2, <3>3, <1>5 DEF CommandFails
  <2>3. PICK x : Unpublished' \subseteq Unpublished \union {x}
    BY <2>2
  <2>4. IsFiniteSet(Unpublished \union {x}) /\ Cardinality(Unpublished \union {x}) \in Nat
        /\ Cardinality(Unpublished \union {x}) <= Cardinality(Unpublished) + 1
    <3>1. IsFiniteSet({x}) /\ Cardinality({x}) = 1
      BY FS_Singleton
    <3> QED BY <3>1, UnpublishedFinite, UnionBound
  <2>5. Cardinality(Unpublished') <= Cardinality(Unpublished \union {x})
        /\ Cardinality(Unpublished') \in Nat
    BY <2>3, <2>4, FS_Subset, FS_CardinalityType
  <2> QED BY <2>1, <2>4, <2>5, UnpublishedFinite DEF EachCutLosesOne, RunnerTypeOK
<1>6. ASSUME Crash PROVE EachCutLosesOne'
  <2>1. cut' = cut + Cardinality(Underway) /\ UNCHANGED storeVars
    BY <1>6 DEF Crash
  <2>2. Unpublished' \subseteq Unpublished \union InHand
    BY <2>1 DEF Unpublished, storeVars, againVars
  <2>3. /\ IsFiniteSet(Unpublished) /\ Cardinality(Unpublished) \in Nat
        /\ IsFiniteSet(InHand) /\ Cardinality(InHand) <= Cardinality(Underway)
        /\ Cardinality(InHand) \in Nat /\ Cardinality(Underway) \in Nat
    BY UnpublishedFinite, HandsFull
  <2>5. /\ IsFiniteSet(Unpublished \union InHand) /\ Cardinality(Unpublished \union InHand) \in Nat
        /\ Cardinality(Unpublished \union InHand) <= Cardinality(Unpublished) + Cardinality(InHand)
    BY <2>3, UnionBound
  <2>6. Cardinality(Unpublished') <= Cardinality(Unpublished \union InHand)
        /\ Cardinality(Unpublished') \in Nat
    BY <2>2, <2>5, FS_Subset, FS_CardinalityType
  <2> QED BY <2>1, <2>3, <2>5, <2>6 DEF EachCutLosesOne, RunnerTypeOK
<1>7. ASSUME NewDay \/ Forget PROVE EachCutLosesOne'
  <2>1. UNCHANGED <<runVars, storeVars, cut>>
    BY <1>7 DEF NewDay, Forget
  <2>2. Unpublished' = Unpublished
    BY <2>1 DEF Unpublished, InHand, runVars, storeVars, againVars
  <2> QED BY <2>1, <2>2, LosesNothing DEF RunnerTypeOK
<1>8. ASSUME NEW r \in Runs, Resend(r) PROVE EachCutLosesOne'
  <2>1. UNCHANGED <<current, stored, cut>>
    BY <1>8 DEF Resend, runVars
  <2>2. \A f \in Events : f \notin InHand =>
           /\ announced'[f] = announced[f] /\ requested'[f] = requested[f]
           /\ rerequested'[f] = rerequested[f]
    BY <1>8 DEF Resend, againVars, InHand, RunnerTypeOK
  <2>3. Unpublished' = Unpublished
    BY <2>1, <2>2 DEF Unpublished, InHand, RunnerTypeOK
  <2> QED BY <2>1, <2>3, LosesNothing DEF RunnerTypeOK
<1> QED BY <1>1, <1>2, <1>3, <1>4, <1>5, <1>6, <1>7, <1>8 DEF RunnerNext

(***************************************************************************)
(* The repair's own variables.                                             *)
(***************************************************************************)
RepairTypeOK ==
  /\ critical \in {"yes", "no"} /\ registered \in {"yes", "no"}
  /\ selector \in 0..MaxProposals
  /\ repairing \in {"yes", "no"}
  /\ status \in [Proposals -> Open \union Decided \union {"none"}]
  /\ decidedBy \in [Proposals -> Deciders]
  /\ log \in [Proposals -> Seq([match : {0, 1}, divergence : {0, 1}])]
  /\ listed \subseteq Proposals /\ tested \subseteq Proposals /\ passed \subseteq Proposals

LEMMA ShadowRowType ==
  ASSUME NEW fetched
  PROVE  ShadowRow(fetched) \in [match : {0, 1}, divergence : {0, 1}]
  BY DEF ShadowRow

(* A step of the repair, and of nothing else. *)
RepairStep ==
  \/ DailySweep \/ Propose \/ HourlySweep \/ RepairCrash
  \/ \E p \in Proposals : ShadowTest(p) \/ Judge(p) \/ Promote(p)
  \/ \E p \in Proposals, decision \in Decided : Decide(p, decision)

LEMMA RepairLeavesRunner == ASSUME RepairStep PROVE UNCHANGED runnerVars
<1>1. ASSUME NEW p \in Proposals, ShadowTest(p) \/ Judge(p) \/ Promote(p)
      PROVE  UNCHANGED runnerVars
  BY <1>1 DEF ShadowTest, Judge, Promote
<1>2. ASSUME NEW p \in Proposals, NEW decision \in Decided, Decide(p, decision)
      PROVE  UNCHANGED runnerVars
  BY <1>2 DEF Decide
<1>3. ASSUME DailySweep \/ Propose \/ HourlySweep \/ RepairCrash PROVE UNCHANGED runnerVars
  BY <1>3 DEF DailySweep, Propose, HourlySweep, RepairCrash
<1> QED BY <1>1, <1>2, <1>3 DEF RepairStep

LEMMA RepairTypeStep ==
  ASSUME RepairTypeOK, RepairStep
  PROVE  RepairTypeOK'
<1>1. ASSUME DailySweep PROVE RepairTypeOK'
  BY <1>1 DEF DailySweep, RepairTypeOK
<1>2. ASSUME Propose PROVE RepairTypeOK'
  <2>1. status' \in [Proposals -> Open \union Decided \union {"none"}]
    <3>1. CASE UNCHANGED status
      BY <3>1 DEF RepairTypeOK
    <3>2. CASE \E p \in Proposals :
                 status' = [status EXCEPT ![p] = "shadow_testing"]
      BY <3>2 DEF RepairTypeOK, Open
    <3> QED BY <1>2, <3>1, <3>2 DEF Propose
  <2> QED BY <1>2, <2>1 DEF Propose, RepairTypeOK
<1>3. ASSUME HourlySweep PROVE RepairTypeOK'
  BY <1>3 DEF HourlySweep, RepairTypeOK
<1>4. ASSUME RepairCrash PROVE RepairTypeOK'
  BY <1>4 DEF RepairCrash, RepairTypeOK
<1>5. ASSUME NEW p \in Proposals, ShadowTest(p) PROVE RepairTypeOK'
  <2>1. PICK fetched \in {"yes", "no"} : log' = [log EXCEPT ![p] = Append(@, ShadowRow(fetched))]
    BY <1>5 DEF ShadowTest
  <2>2. Append(log[p], ShadowRow(fetched)) \in Seq([match : {0, 1}, divergence : {0, 1}])
    BY ShadowRowType DEF RepairTypeOK
  <2>3. log' \in [Proposals -> Seq([match : {0, 1}, divergence : {0, 1}])]
    BY <2>1, <2>2 DEF RepairTypeOK
  <2>4. /\ listed' \subseteq Proposals /\ tested' \subseteq Proposals
        /\ UNCHANGED <<critical, registered, selector, repairing, status, decidedBy, passed>>
    BY <1>5 DEF ShadowTest, RepairTypeOK
  <2> QED BY <2>3, <2>4 DEF RepairTypeOK
<1>6. ASSUME NEW p \in Proposals, Judge(p) PROVE RepairTypeOK'
  <2>1. /\ tested' \subseteq Proposals /\ passed' \subseteq Proposals
        /\ UNCHANGED <<critical, registered, selector, repairing, status, decidedBy, log, listed>>
    BY <1>6 DEF Judge, RepairTypeOK
  <2> QED BY <2>1 DEF RepairTypeOK
<1>7. ASSUME NEW p \in Proposals, Promote(p) PROVE RepairTypeOK'
  <2>1. /\ status' \in [Proposals -> Open \union Decided \union {"none"}]
        /\ decidedBy' \in [Proposals -> Deciders]
    BY <1>7 DEF Promote, RepairTypeOK, Open, Decided, Deciders
  <2> QED BY <1>7, <2>1 DEF Promote, RepairTypeOK
<1>8. ASSUME NEW p \in Proposals, NEW decision \in Decided, Decide(p, decision)
      PROVE  RepairTypeOK'
  <2>1. selector' \in 0..MaxProposals
    BY <1>8 DEF Decide, RepairTypeOK, Proposals
  <2>2. /\ status' \in [Proposals -> Open \union Decided \union {"none"}]
        /\ decidedBy' \in [Proposals -> Deciders]
    BY <1>8 DEF Decide, RepairTypeOK, Deciders
  <2> QED BY <1>8, <2>1, <2>2 DEF Decide, RepairTypeOK
<1> QED BY <1>1, <1>2, <1>3, <1>4, <1>5, <1>6, <1>7, <1>8 DEF RepairStep

LEMMA TypeParts == TypeOK <=> RunnerTypeOK /\ RepairTypeOK
  BY DEF TypeOK, RepairTypeOK

LEMMA InitType == ASSUME Init PROVE TypeOK
<1>1. RunnerTypeOK
  BY NoRowType DEF Init, RunnerInit, RunnerTypeOK, Tiers, Outcomes
<1>2. RepairTypeOK
  BY DEF Init, RepairTypeOK, Deciders
<1> QED BY <1>1, <1>2, TypeParts

(* The three kinds of step. *)
LEMMA Steps ==
  ASSUME [Next]_vars
  PROVE  \/ RunnerNext /\ UNCHANGED repairVars
         \/ RepairStep /\ UNCHANGED runnerVars
         \/ UNCHANGED runnerVars /\ UNCHANGED repairVars
<1>1. CASE RepairStep
  BY <1>1, RepairLeavesRunner
<1>2. CASE RunnerNext /\ UNCHANGED repairVars
  BY <1>2
<1>3. CASE UNCHANGED vars
  BY <1>3 DEF vars
<1>4. Next => (RunnerNext /\ UNCHANGED repairVars) \/ RepairStep
  BY DEF Next, RepairStep
<1> QED BY <1>1, <1>2, <1>3, <1>4

LEMMA RunnerTypeKept == ASSUME RunnerTypeOK, UNCHANGED runnerVars PROVE RunnerTypeOK'
  BY DEF RunnerTypeOK, runnerVars, runVars, storeVars, againVars

LEMMA RepairTypeKept == ASSUME RepairTypeOK, UNCHANGED repairVars PROVE RepairTypeOK'
  BY DEF RepairTypeOK, repairVars

LEMMA TypeStep == ASSUME TypeOK, [Next]_vars PROVE TypeOK'
<1>1. RunnerTypeOK /\ RepairTypeOK
  BY TypeParts
<1>2. RunnerTypeOK'
  BY <1>1, Steps, RunnerTypeStep, RunnerTypeKept
<1>3. RepairTypeOK'
  BY <1>1, Steps, RepairTypeStep, RepairTypeKept
<1> QED BY <1>2, <1>3 DEF TypeOK, RepairTypeOK

(* Type correctness of the runs and of the repair, whatever their number. *)
THEOREM TypeCorrect == Spec => []TypeOK
<1>1. Init => TypeOK
  BY InitType
<1>2. TypeOK /\ [Next]_vars => TypeOK'
  BY TypeStep
<1> QED BY <1>1, <1>2, PTL DEF Spec

(***************************************************************************)
(* What is published, and what is lost.                                    *)
(***************************************************************************)
PublishingInv == TypeOK /\ PublishInv /\ EachCutLosesOne

LEMMA InitPublishing == ASSUME Init PROVE PublishingInv
<1>1. TypeOK
  BY InitType
<1>2. PublishInv
  BY RunnerAssumption DEF Init, RunnerInit, PublishInv, PublishedOnce, HolderShape, StoredFirst, Holds
<1>3. Unpublished = {} /\ cut = 0
  BY DEF Init, RunnerInit, Unpublished
<1>4. EachCutLosesOne
  BY <1>3, FS_EmptySet DEF EachCutLosesOne
<1> QED BY <1>1, <1>2, <1>4 DEF PublishingInv

LEMMA PublishingStep == ASSUME PublishingInv, [Next]_vars PROVE PublishingInv'
<1>1. TypeOK /\ TypeOK' /\ RunnerTypeOK /\ RunnerTypeOK' /\ PublishInv /\ EachCutLosesOne
  BY TypeStep, TypeParts DEF PublishingInv, TypeOK
<1>2. CASE RunnerNext
  <2>1. PublishInv'
    BY <1>1, <1>2, RunnerPublish
  <2>2. EachCutLosesOne'
    BY <1>1, <1>2, <2>1, RunnerCut
  <2> QED BY <1>1, <2>1, <2>2 DEF PublishingInv
<1>3. CASE UNCHANGED runnerVars
  <2>1. UNCHANGED <<pc, current, left, stored, announced, requested, reannounced, rerequested, cut>>
    BY <1>3 DEF runnerVars, runVars, storeVars, againVars
  <2>2. PublishInv'
    BY <1>1, <2>1 DEF PublishInv, PublishedOnce, HolderShape, StoredFirst, Holds
  <2>3. EachCutLosesOne'
    BY <1>1, <2>1 DEF EachCutLosesOne, Unpublished, InHand
  <2> QED BY <1>1, <2>2, <2>3 DEF PublishingInv
<1> QED BY <1>2, <1>3, Steps

LEMMA Publishing == Spec => []PublishingInv
<1>1. Init => PublishingInv
  BY InitPublishing
<1>2. PublishingInv /\ [Next]_vars => PublishingInv'
  BY PublishingStep
<1> QED BY <1>1, <1>2, PTL DEF Spec

(* An event and each of its document URLs are published once at most, the  *)
(* event first and its row before that, however many runs overlap.         *)
THEOREM EventsPublishedOnce == Spec => []PublishedOnce
<1>1. PublishingInv => PublishedOnce
  BY DEF PublishingInv, PublishInv
<1> QED BY <1>1, Publishing, PTL

(* No more stored events are kept from the pipeline than runs have been    *)
(* cut short.                                                              *)
THEOREM CutsBoundLosses == Spec => []EachCutLosesOne
<1>1. PublishingInv => EachCutLosesOne
  BY DEF PublishingInv
<1> QED BY <1>1, Publishing, PTL

(***************************************************************************)
(* The decisions about a proposal.                                         *)
(***************************************************************************)
LEMMA DecisionStep ==
  ASSUME RepairTypeOK, CriticalNeedsSignOff, RepairStep
  PROVE  CriticalNeedsSignOff'
<1>0. selector # 0 => selector \in Proposals
  BY DEF RepairTypeOK, Proposals
<1>1. ASSUME DailySweep \/ HourlySweep \/ RepairCrash PROVE CriticalNeedsSignOff'
  BY <1>1 DEF DailySweep, HourlySweep, RepairCrash, CriticalNeedsSignOff
<1>2. ASSUME Propose PROVE CriticalNeedsSignOff'
  <2>1. UNCHANGED <<critical, decidedBy, selector>>
    BY <1>2 DEF Propose
  <2>2. \A p \in Proposals : status'[p] = "promoted" <=> status[p] = "promoted"
    BY <1>2 DEF Propose, RepairTypeOK
  <2> QED BY <1>0, <2>1, <2>2 DEF CriticalNeedsSignOff
<1>3. ASSUME NEW p \in Proposals, ShadowTest(p) \/ Judge(p) PROVE CriticalNeedsSignOff'
  BY <1>3 DEF ShadowTest, Judge, CriticalNeedsSignOff
<1>4. ASSUME NEW p \in Proposals, Promote(p) PROVE CriticalNeedsSignOff'
  <2>1. UNCHANGED <<critical, selector>>
    BY <1>4 DEF Promote
  <2>2. CASE UNCHANGED <<status, decidedBy>>
    BY <2>1, <2>2 DEF CriticalNeedsSignOff
  <2>3. CASE /\ status[p] = "shadow_testing" /\ critical = "yes" /\ UNCHANGED decidedBy
             /\ status' = [status EXCEPT ![p] = "awaiting_approval"]
    <3>1. \A q \in Proposals : status'[q] = "promoted" <=> status[q] = "promoted"
      BY <2>3 DEF RepairTypeOK
    <3> QED BY <1>0, <2>1, <2>3, <3>1 DEF CriticalNeedsSignOff
  <2>4. CASE /\ critical # "yes" /\ status' = [status EXCEPT ![p] = "promoted"]
    <3>1. \A q \in Proposals : status[q] = "promoted" => status'[q] = "promoted"
      BY <2>4 DEF RepairTypeOK
    <3> QED BY <1>0, <2>1, <2>4, <3>1 DEF CriticalNeedsSignOff
  <2> QED BY <1>4, <2>2, <2>3, <2>4 DEF Promote
<1>5. ASSUME NEW p \in Proposals, NEW decision \in Decided, Decide(p, decision)
      PROVE  CriticalNeedsSignOff'
  <2>1. /\ status[p] # "promoted" /\ critical' = critical
        /\ status' = [status EXCEPT ![p] = decision]
        /\ decidedBy' = [decidedBy EXCEPT ![p] = "operator"]
        /\ selector' = IF decision = "promoted" /\ registered = "yes" THEN p ELSE selector
    BY <1>5 DEF Decide, Open
  <2>2. \A q \in Proposals : q # p => status'[q] = status[q] /\ decidedBy'[q] = decidedBy[q]
    BY <2>1 DEF RepairTypeOK
  <2>3. status'[p] = decision /\ decidedBy'[p] = "operator"
    BY <2>1 DEF RepairTypeOK
  <2>4. selector' # 0 => status'[selector'] = "promoted"
    <3>1. CASE selector' = selector
      <4>1. selector # 0 => selector # p
        BY <2>1 DEF CriticalNeedsSignOff
      <4> QED BY <1>0, <2>2, <3>1, <4>1 DEF CriticalNeedsSignOff
    <3>2. CASE selector' = p /\ decision = "promoted"
      BY <2>3, <3>2
    <3> QED BY <2>1, <3>1, <3>2
  <2> QED BY <2>1, <2>2, <2>3, <2>4 DEF CriticalNeedsSignOff
<1> QED BY <1>1, <1>2, <1>3, <1>4, <1>5 DEF RepairStep

DecidedInv == TypeOK /\ CriticalNeedsSignOff

LEMMA Deciding == Spec => []DecidedInv
<1>1. Init => DecidedInv
  <2> SUFFICES ASSUME Init PROVE DecidedInv
    OBVIOUS
  <2>1. CriticalNeedsSignOff
    BY DEF Init, CriticalNeedsSignOff
  <2> QED BY <2>1, InitType DEF DecidedInv
<1>2. DecidedInv /\ [Next]_vars => DecidedInv'
  <2> SUFFICES ASSUME DecidedInv, [Next]_vars PROVE DecidedInv'
    OBVIOUS
  <2>1. TypeOK /\ TypeOK' /\ RepairTypeOK /\ CriticalNeedsSignOff
    BY TypeStep, TypeParts DEF DecidedInv
  <2>2. CASE RepairStep
    BY <2>1, <2>2, DecisionStep DEF DecidedInv
  <2>3. CASE UNCHANGED repairVars
    BY <2>1, <2>3 DEF DecidedInv, CriticalNeedsSignOff, repairVars
  <2> QED BY <2>2, <2>3, Steps
<1> QED BY <1>1, <1>2, PTL DEF Spec

(* A critical source's proposal is promoted by the operator only, and the  *)
(* live selector is one that was promoted, for any number of proposals and *)
(* however the sweeps' reads and writes fall around the decisions.         *)
THEOREM SignOffHolds == Spec => []CriticalNeedsSignOff
<1>1. DecidedInv => CriticalNeedsSignOff
  BY DEF DecidedInv
<1> QED BY <1>1, Deciding, PTL

LEMMA DecidedStays ==
  ASSUME RepairTypeOK, [Next]_vars, NEW q \in Proposals, status[q] \in Decided
  PROVE  status'[q] = status[q] /\ decidedBy'[q] = decidedBy[q]
<1>1. CASE UNCHANGED repairVars
  BY <1>1 DEF repairVars
<1>2. CASE DailySweep \/ HourlySweep \/ RepairCrash
  BY <1>2 DEF DailySweep, HourlySweep, RepairCrash
<1>3. CASE Propose
  BY <1>3 DEF Propose, RepairTypeOK, Decided
<1>4. ASSUME NEW p \in Proposals, ShadowTest(p) \/ Judge(p)
      PROVE  status'[q] = status[q] /\ decidedBy'[q] = decidedBy[q]
  BY <1>4 DEF ShadowTest, Judge
<1>5. ASSUME NEW p \in Proposals, Promote(p)
      PROVE  status'[q] = status[q] /\ decidedBy'[q] = decidedBy[q]
  BY <1>5 DEF Promote, RepairTypeOK, Decided
<1>6. ASSUME NEW p \in Proposals, NEW decision \in Decided, Decide(p, decision)
      PROVE  status'[q] = status[q] /\ decidedBy'[q] = decidedBy[q]
  BY <1>6 DEF Decide, RepairTypeOK, Decided, Open
<1> QED BY <1>1, <1>2, <1>3, <1>4, <1>5, <1>6, Steps DEF RepairStep

(* Neither a stale click nor a sweep that read a proposal before the       *)
(* decision changes it.                                                    *)
THEOREM DecisionsStand == Spec => DecisionIsFinal
<1>1. TypeOK /\ [Next]_vars =>
        [\A p \in Proposals : status[p] \in Decided =>
           status'[p] = status[p] /\ decidedBy'[p] = decidedBy[p]]_vars
  BY DecidedStays, TypeParts
<1> QED BY <1>1, TypeCorrect, PTL DEF Spec, DecisionIsFinal

(***************************************************************************)
(* The daily cap: a run past its pre-flight may still be counted.          *)
(***************************************************************************)
Past == {r \in Runs : pc[r] \in {"fetching", "inserting", "announcing", "requesting"}}

CapInv == DailyCap > 0 => used + Cardinality(Past) < DailyCap + Cardinality(Runs) + faults

LEMMA PastFinite ==
  /\ IsFiniteSet(Past) /\ Cardinality(Past) \in Nat
  /\ Cardinality(Runs) \in Nat /\ Cardinality(Past) <= Cardinality(Runs)
  BY FS_Subset, FS_CardinalityType, RunnerAssumption DEF Past

LEMMA PastFinitePrime ==
  /\ IsFiniteSet(Past') /\ Cardinality(Past') \in Nat
  /\ Cardinality(Runs) \in Nat /\ Cardinality(Past') <= Cardinality(Runs)
  BY FS_Subset, FS_CardinalityType, RunnerAssumption DEF Past

LEMMA FaultsGrow == ASSUME RunnerNext PROVE faults' \in {faults, faults + 1}
<1>1. Crash \/ NewDay \/ Forget => faults' \in {faults, faults + 1}
  BY DEF Crash, NewDay, Forget, Fault
<1>2. \A r \in Runs, e \in Events : Insert(r, e) \/ Announce(r, e) \/ Request(r, e)
        => faults' = faults
  BY DEF Insert, Announce, Request
<1>3. \A r \in Runs : Start(r) \/ Check(r) \/ FetchFails(r) \/ Fetch(r) \/ Close(r)
        => faults' \in {faults, faults + 1}
  BY DEF Start, Check, FetchFails, Fetch, Close, Fault
<1>4. \A r \in Runs : CommandFails(r) \/ Resend(r) \/ Report(r) \/ RunDies(r)
        => faults' \in {faults, faults + 1}
  BY DEF CommandFails, Resend, Report, RunDies, Fault
<1> QED BY <1>1, <1>2, <1>3, <1>4 DEF RunnerNext

LEMMA PastShrinks ==
  ASSUME CapInv, RunnerTypeOK, Past' \subseteq Past, used' <= used, used' \in Nat,
         faults' \in {faults, faults + 1}
  PROVE  CapInv'
<1>1. Cardinality(Past') <= Cardinality(Past)
  BY PastFinite, FS_Subset
<1> QED BY <1>1, PastFinite, PastFinitePrime, RunnerAssumption DEF CapInv, RunnerTypeOK

LEMMA PastLeaves ==
  ASSUME CapInv, RunnerTypeOK, NEW r \in Past, Past' \subseteq Past \ {r},
         used' \in {used, used + 1}, faults' \in {faults, faults + 1}
  PROVE  CapInv'
<1>1. /\ IsFiniteSet(Past \ {r}) /\ Cardinality(Past \ {r}) = Cardinality(Past) - 1
  BY PastFinite, FS_RemoveElement
<1>2. Cardinality(Past') <= Cardinality(Past \ {r})
  BY <1>1, FS_Subset
<1> QED BY <1>1, <1>2, PastFinite, PastFinitePrime, RunnerAssumption DEF CapInv, RunnerTypeOK

LEMMA RunnerCap ==
  ASSUME RunnerTypeOK, CapInv, RunnerNext, RunnerTypeOK'
  PROVE  CapInv'
<1>0. /\ used \in Nat /\ used' \in Nat /\ faults \in Nat
      /\ faults' \in Nat /\ faults' \in {faults, faults + 1}
  BY FaultsGrow DEF RunnerTypeOK
<1>1. ASSUME NEW r \in Runs, Start(r) \/ FetchFails(r) \/ Fetch(r) PROVE CapInv'
  <2>1. used' = used /\ \A s \in Runs : s # r => pc'[s] = pc[s]
    BY <1>1 DEF Start, FetchFails, Fetch, RunnerTypeOK
  <2>2. \/ pc'[r] \in {"checking", "reporting"}
        \/ pc[r] = "fetching"
    BY <1>1 DEF Start, FetchFails, Fetch, RunnerTypeOK
  <2>3. Past' \subseteq Past
    BY <2>1, <2>2 DEF Past
  <2> QED BY <1>0, <2>1, <2>3, PastShrinks
<1>2. ASSUME NEW r \in Runs, Check(r) PROVE CapInv'
  <2>1. used' = used
    BY <1>2 DEF Check
  <2>2. CASE Allowed
    <3>1. DailyCap > 0 => used < DailyCap
      BY <2>2 DEF Allowed
    <3> QED BY <1>0, <2>1, <3>1, PastFinitePrime, RunnerAssumption DEF CapInv
  <2>3. CASE ~Allowed
    <3>1. pc' = [pc EXCEPT ![r] = "reporting"]
      BY <1>2, <2>3 DEF Check
    <3>2. Past' \subseteq Past
      BY <3>1 DEF Past, RunnerTypeOK
    <3> QED BY <1>0, <2>1, <3>2, PastShrinks
  <2> QED BY <2>2, <2>3
<1>3. ASSUME NEW r \in Runs, Close(r) PROVE CapInv'
  <2>1. r \in Past /\ used' = used + 1 /\ pc' = [pc EXCEPT ![r] = "reporting"]
    BY <1>3 DEF Close, Past
  <2>2. Past' \subseteq Past \ {r}
    BY <2>1 DEF Past, RunnerTypeOK
  <2> QED BY <1>0, <2>1, <2>2, PastLeaves
<1>4. ASSUME NEW r \in Runs, CommandFails(r) PROVE CapInv'
  <2>1. r \in Past /\ pc' = [pc EXCEPT ![r] = "reporting"] /\ used' \in {used, used + 1}
    BY <1>4 DEF CommandFails, Past
  <2>2. Past' \subseteq Past \ {r}
    BY <2>1 DEF Past, RunnerTypeOK
  <2> QED BY <1>0, <2>1, <2>2, PastLeaves
<1>5. ASSUME NEW ending \in SUBSET Runs, End(ending), used' = used PROVE CapInv'
  <2>1. pc' = [s \in Runs |-> IF s \in ending THEN "idle" ELSE pc[s]]
    BY <1>5 DEF End
  <2>2. Past' \subseteq Past
    BY <2>1 DEF Past
  <2> QED BY <1>0, <1>5, <2>2, PastShrinks
<1>6. ASSUME NEW r \in Runs, Report(r) \/ RunDies(r) PROVE CapInv'
  BY <1>5, <1>6 DEF Report, RunDies
<1>7. ASSUME NEW r \in Runs, NEW e \in Events, Insert(r, e) \/ Announce(r, e) \/ Request(r, e)
      PROVE  CapInv'
  <2>1. r \in Past /\ used' = used /\ \A s \in Runs : s # r => pc'[s] = pc[s]
    BY <1>7 DEF Insert, Announce, Request, Continue, Past, RunnerTypeOK
  <2>2. Past' \subseteq Past
    BY <2>1 DEF Past
  <2> QED BY <1>0, <2>1, <2>2, PastShrinks
<1>8. ASSUME Crash PROVE CapInv'
  BY <1>5, <1>8 DEF Crash
<1>9. ASSUME NewDay \/ Forget PROVE CapInv'
  <2>1. pc' = pc /\ used' <= used
    BY <1>0, <1>9 DEF NewDay, Forget, runVars
  <2>2. Past' \subseteq Past
    BY <2>1 DEF Past
  <2> QED BY <1>0, <2>1, <2>2, PastShrinks
<1>10. ASSUME NEW r \in Runs, Resend(r) PROVE CapInv'
  <2>1. Past' = Past /\ used' \in {used, used + 1} /\ faults' = faults + 1
    BY <1>10 DEF Resend, Fault, Past, runVars
  <2> QED BY <1>0, <2>1, PastFinite, RunnerAssumption DEF CapInv
<1> QED BY <1>1, <1>2, <1>3, <1>4, <1>6, <1>7, <1>8, <1>9, <1>10 DEF RunnerNext

(***************************************************************************)
(* consecutive_failures, while one run is under way at a time.             *)
(***************************************************************************)
HealthInv ==
  overlap = "no" =>
    /\ \A r, s \in Underway : r = s
    /\ faults = 0 => /\ health.failures = streak
                    /\ \A r \in Underway : previous[r].failures = health.failures

LEMMA RunnerHealth ==
  ASSUME RunnerTypeOK, HealthInv, RunnerNext
  PROVE  HealthInv'
<1>1. ASSUME NEW r \in Runs, Start(r) PROVE HealthInv'
  <2>1. SUFFICES ASSUME overlap' = "no" PROVE HealthInv'
    BY DEF HealthInv
  <2>2. Underway = {} /\ overlap = "no"
    BY <1>1, <2>1 DEF Start
  <2>3. pc' = [pc EXCEPT ![r] = "checking"] /\ UNCHANGED <<health, streak>>
    BY <1>1 DEF Start
  <2>4. Underway' = {r}
    BY <2>2, <2>3 DEF Underway, RunnerTypeOK
  <2>5. ASSUME faults' = 0
        PROVE  health'.failures = streak' /\ previous'[r].failures = health'.failures
    <3>1. faults \in Nat /\ faults' # faults + 1
      BY <2>5 DEF RunnerTypeOK
    <3>2. previous' = [previous EXCEPT ![r] = health] /\ faults' = faults
      BY <1>1, <3>1 DEF Start, Fault
    <3>3. previous'[r] = health
      BY <3>2 DEF RunnerTypeOK
    <3> QED BY <2>2, <2>3, <2>5, <3>2, <3>3 DEF HealthInv
  <2> QED BY <2>4, <2>5 DEF HealthInv
<1>2. ASSUME Underway' \subseteq Underway, UNCHANGED <<health, streak, overlap>>,
             faults' = faults \/ faults' = faults + 1,
             \A r \in Underway' : previous'[r] = previous[r]
      PROVE  HealthInv'
  <2>1. faults' = 0 => faults = 0
    BY <1>2 DEF RunnerTypeOK
  <2> QED BY <1>2, <2>1 DEF HealthInv
<1>3. ASSUME NEW r \in Runs,
             \/ Check(r) \/ FetchFails(r) \/ Fetch(r) \/ Close(r) \/ CommandFails(r) \/ Resend(r)
             \/ \E e \in Events : Insert(r, e) \/ Announce(r, e) \/ Request(r, e)
      PROVE  HealthInv'
  <2>1. /\ r \in Underway /\ UNCHANGED <<health, streak, overlap, previous>>
        /\ \A s \in Runs : s # r => pc'[s] = pc[s]
    BY <1>3 DEF Check, FetchFails, Fetch, Close, CommandFails, Resend, Insert, Announce,
                Request, Continue, Underway, RunnerTypeOK, runVars
  <2>2. faults' = faults \/ faults' = faults + 1
    BY <1>3 DEF Check, FetchFails, Fetch, Close, CommandFails, Resend, Insert, Announce, Request,
                Fault
  <2>3. Underway' \subseteq Underway
    BY <2>1 DEF Underway
  <2> QED BY <1>2, <2>1, <2>2, <2>3
<1>4. ASSUME NEW ending \in SUBSET Runs, End(ending)
      PROVE  /\ Underway' = Underway \ ending
             /\ \A r \in Underway' : previous'[r] = previous[r]
  BY <1>4 DEF End, Underway
<1>5. ASSUME NEW r \in Runs, Report(r) PROVE HealthInv'
  <2>1. SUFFICES ASSUME overlap' = "no" PROVE HealthInv'
    BY DEF HealthInv
  <2>2. End({r}) /\ UNCHANGED <<overlap, faults>> /\ r \in Underway
    BY <1>5 DEF Report, Underway
  <2>3. Underway = {r} /\ Underway' = {}
    BY <1>4, <2>1, <2>2 DEF HealthInv
  <2>4. ASSUME faults' = 0 PROVE health'.failures = streak'
    <3>1. previous[r].failures = streak /\ streak \in Nat
      BY <2>1, <2>2, <2>4 DEF HealthInv, RunnerTypeOK
    <3>2. PICK hint \in {"yes", "no"} : health' = Reported(r, hint)
      BY <1>5 DEF Report
    <3>3. streak' = CASE outcome[r] = "green" -> 0
                      [] outcome[r] \in Failures -> streak + 1
                      [] OTHER -> streak
      BY <1>5 DEF Report
    <3>4. previous[r] \in Rows /\ outcome[r] \in Outcomes
      BY DEF RunnerTypeOK
    <3>5. CASE outcome[r] = "green"
      <4>1. streak' = 0
        BY <3>3, <3>5 DEF Failures
      <4>2. health' = NoRow
        BY <3>2, <3>5 DEF Reported
      <4> QED BY <4>1, <4>2 DEF NoRow
    <3>6. CASE outcome[r] \in {"capped", "disallowed"}
      <4>1. streak' = streak
        BY <3>3, <3>6 DEF Failures
      <4>2. [previous[r] EXCEPT !.hint = "no"].failures = previous[r].failures
            /\ [previous[r] EXCEPT !.hint = "no", !.status = "amber"].failures
                 = previous[r].failures
        BY <3>4 DEF Rows
      <4> QED BY <3>1, <3>2, <3>6, <4>1, <4>2 DEF Reported
    <3>7. CASE outcome[r] \in Failures
      BY <3>1, <3>2, <3>3, <3>7 DEF Reported, Failures
    <3> QED BY <3>4, <3>5, <3>6, <3>7 DEF Outcomes
  <2> QED BY <2>3, <2>4 DEF HealthInv
<1>6. ASSUME NEW r \in Runs, RunDies(r) PROVE HealthInv'
  <2>1. /\ End({r}) /\ UNCHANGED <<health, streak, overlap>> /\ faults' = faults + 1
    BY <1>6 DEF RunDies, Fault
  <2> QED BY <1>2, <1>4, <2>1
<1>7. ASSUME Crash PROVE HealthInv'
  <2>1. /\ End(Runs) /\ UNCHANGED <<health, streak, overlap>> /\ faults' = faults + 1
    BY <1>7 DEF Crash, Fault
  <2> QED BY <1>2, <1>4, <2>1
<1>8. ASSUME NewDay \/ Forget PROVE HealthInv'
  BY <1>8 DEF NewDay, Forget, runVars, HealthInv, Underway
<1> QED BY <1>1, <1>3, <1>5, <1>6, <1>7, <1>8 DEF RunnerNext

CountingInv == TypeOK /\ CapInv /\ HealthInv

LEMMA Counting == Spec => []CountingInv
<1>1. Init => CountingInv
  <2> SUFFICES ASSUME Init PROVE CountingInv
    OBVIOUS
  <2>1. Past = {} /\ Underway = {} /\ used = 0
    BY DEF Init, RunnerInit, Past, Underway
  <2>2. Cardinality(Past) = 0
    BY <2>1, FS_EmptySet
  <2>3. Cardinality(Runs) \in Nat /\ DailyCap \in Nat
    BY PastFinite, RunnerAssumption
  <2>4. CapInv
    BY <2>1, <2>2, <2>3 DEF CapInv, Init, RunnerInit
  <2>5. HealthInv
    BY <2>1 DEF Init, RunnerInit, HealthInv, NoRow
  <2> QED BY <2>4, <2>5, InitType DEF CountingInv
<1>2. CountingInv /\ [Next]_vars => CountingInv'
  <2> SUFFICES ASSUME CountingInv, [Next]_vars PROVE CountingInv'
    OBVIOUS
  <2>1. TypeOK /\ TypeOK' /\ RunnerTypeOK /\ RunnerTypeOK' /\ CapInv /\ HealthInv
    BY TypeStep, TypeParts DEF CountingInv, TypeOK
  <2>2. CASE RunnerNext
    <3>1. CapInv'
      BY <2>1, <2>2, RunnerCap
    <3>2. HealthInv'
      BY <2>1, <2>2, RunnerHealth
    <3> QED BY <2>1, <3>1, <3>2 DEF CountingInv
  <2>3. CASE UNCHANGED runnerVars
    <3>1. UNCHANGED <<pc, previous, health, used, streak, overlap, faults>>
      BY <2>3 DEF runnerVars, runVars
    <3> QED BY <2>1, <3>1 DEF CountingInv, CapInv, Past, HealthInv, Underway
  <2> QED BY <2>2, <2>3, Steps
<1> QED BY <1>1, <1>2, PTL DEF Spec

(* However many runs overlap, they exceed the cap by one each at most, and *)
(* by one for each increment that is sent again.                           *)
THEOREM CapHolds == Spec => []CapExceededByOverlap
<1>1. CountingInv => CapExceededByOverlap
  <2> SUFFICES ASSUME CountingInv PROVE CapExceededByOverlap
    OBVIOUS
  <2>1. used \in Nat /\ DailyCap \in Nat /\ faults \in Nat
    BY TypeParts, RunnerAssumption DEF CountingInv, RunnerTypeOK
  <2> QED BY <2>1, PastFinite DEF CountingInv, CapInv, CapExceededByOverlap
<1> QED BY <1>1, Counting, PTL

(* While runs do not overlap and no command fails, the failures counted    *)
(* are the failures since a run was green.                                 *)
THEOREM FailuresCounted == Spec => []HealthCountsStreak
<1>1. CountingInv => HealthCountsStreak
  BY DEF CountingInv, HealthInv, HealthCountsStreak
<1> QED BY <1>1, Counting, PTL
=============================================================================
