--------------------------- MODULE AdapterRepair ---------------------------
(***************************************************************************)
(* The repair of one source's selector (apps/worker-adapter-repair) beside *)
(* the runs that report it broken, and the decisions of the dashboard's    *)
(* operator (apps/dashboard/src/lib/adapter-repair.server.ts).             *)
(***************************************************************************)
EXTENDS AdapterRunner, Sequences

CONSTANTS
  RepairAfter,   \* consecutive failures that make a source broken: 3
  Window,        \* shadow tests a judgement looks back on: 48
  MaxProposals,  \* bound: proposals
  MaxRows        \* bound: shadow tests of a proposal

ASSUME RepairAssumption ==
  /\ RepairAfter \in Nat \ {0} /\ Window \in Nat \ {0}
  /\ MaxProposals \in Nat /\ MaxRows \in Nat

VARIABLES
  critical,    \* whether the source is one of CRITICAL_ADAPTERS
  registered,  \* whether it has a row in adapter_selector_registry
  selector,    \* the proposal whose selector the row has; 0 is the first one
  repairing,   \* whether the daily sweep has found it broken
  status,      \* per proposal, its status
  decidedBy,   \* per proposal, decided_by
  log,         \* per proposal, its rows of adapter_repair_shadow_log
  listed,      \* proposals an hourly sweep has read and not tested yet
  tested,      \* those it has tested and not judged yet
  passed       \* those whose counts it has read, and found good

repairVars == <<critical, registered, selector, repairing, status, decidedBy, log, listed, tested,
                passed>>
vars == <<runnerVars, repairVars>>

Proposals == 1..MaxProposals
Open    == {"shadow_testing", "awaiting_approval"}
Decided == {"promoted", "rejected"}
Deciders == {"nobody", "auto-promotion", "operator"}

Init ==
  /\ RunnerInit
  /\ critical \in {"yes", "no"} /\ registered \in {"yes", "no"} /\ selector = 0
  /\ repairing = "no"
  /\ status = [p \in Proposals |-> "none"] /\ decidedBy = [p \in Proposals |-> "nobody"]
  /\ log = [p \in Proposals |-> << >>]
  /\ listed = {} /\ tested = {} /\ passed = {}

-----------------------------------------------------------------------------
(* findBrokenSources: next_scheduled_at is null in every row a run writes, *)
(* and the page's URL has to be found in last_error.                       *)
DailySweep ==
  /\ repairing = "no"
  /\ health.status = "first_contact_failed" /\ health.failures >= RepairAfter
  /\ health.hint = "yes"
  /\ repairing' = "yes"
  /\ UNCHANGED <<runnerVars, critical, registered, selector, status, decidedBy, log, listed, tested,
                 passed>>

(* generateProposal, once the page is fetched and the model has answered. *)
Propose ==
  /\ repairing = "yes" /\ repairing' = "no"
  /\ \/ UNCHANGED status
     \/ \E p \in Proposals :
          /\ status[p] = "none" /\ \A q \in 1..(p - 1) : status[q] # "none"
          /\ status' = [status EXCEPT ![p] = "shadow_testing"]
  /\ UNCHANGED <<runnerVars, critical, registered, selector, decidedBy, log, listed, tested, passed>>

(* hourlyShadowSweep reads the proposals under test; the registry's row    *)
(* has the page to test them on.                                           *)
HourlySweep ==
  /\ registered = "yes"
  /\ listed' = listed \union {p \in Proposals : status[p] = "shadow_testing"}
  /\ UNCHANGED <<runnerVars, critical, registered, selector, repairing, status, decidedBy, log, tested,
                 passed>>

(* runShadowTest, with the shims the sweep passes: applyOld finds nothing, *)
(* applyNew an empty object whenever there is a page to apply it to.       *)
ShadowRow(fetched) ==
  LET old == 0  new == IF fetched = "yes" THEN 1 ELSE 0 IN
  [match |-> new, divergence |-> IF old = new THEN 0 ELSE 1]

ShadowTest(p) ==
  /\ p \in listed /\ listed' = listed \ {p} /\ tested' = tested \union {p}
  /\ Len(log[p]) < MaxRows
  /\ \E fetched \in {"yes", "no"} : log' = [log EXCEPT ![p] = Append(@, ShadowRow(fetched))]
  /\ UNCHANGED <<runnerVars, critical, registered, selector, repairing, status, decidedBy, passed>>

(* The most recent rows, and how many of them a query counts. *)
Recent(p) == {i \in DOMAIN log[p] : i > Len(log[p]) - Window}
Matches(p)     == Cardinality({i \in Recent(p) : log[p][i].match = 1})
Divergences(p) == Cardinality({i \in Recent(p) : log[p][i].divergence = 1})

(* divergence < 5 %, new_match >= 90 %. *)
Clean(p) ==
  /\ Cardinality(Recent(p)) >= Window
  /\ 20 * Divergences(p) < Cardinality(Recent(p))
  /\ 10 * Matches(p) >= 9 * Cardinality(Recent(p))

(* maybePromote, up to what it reads. *)
Judge(p) ==
  /\ p \in tested /\ tested' = tested \ {p}
  /\ passed' = IF (IF critical = "yes" THEN Len(log[p]) >= Window ELSE Clean(p))
                 THEN passed \union {p} ELSE passed
  /\ UNCHANGED <<runnerVars, critical, registered, selector, repairing, status, decidedBy, log, listed>>

(* Mutant: the update does not look at the status again. *)
PromoteAnyway(p) ==
  /\ p \in passed /\ passed' = passed \ {p}
  /\ IF critical = "yes"
       THEN status' = [status EXCEPT ![p] = "awaiting_approval"] /\ UNCHANGED decidedBy
       ELSE /\ status' = [status EXCEPT ![p] = "promoted"]
            /\ decidedBy' = [decidedBy EXCEPT ![p] = "auto-promotion"]
  /\ UNCHANGED <<runnerVars, critical, registered, selector, repairing, log, listed, tested>>

(* Mutant: a critical source is promoted by its shadow tests like another. *)
PromoteCritical(p) ==
  /\ p \in passed /\ passed' = passed \ {p}
  /\ IF status[p] # "shadow_testing" THEN UNCHANGED <<status, decidedBy>>
     ELSE /\ status' = [status EXCEPT ![p] = "promoted"]
          /\ decidedBy' = [decidedBy EXCEPT ![p] = "auto-promotion"]
  /\ UNCHANGED <<runnerVars, critical, registered, selector, repairing, log, listed, tested>>

(* Its update, which matches a proposal still under test only. *)
Promote(p) ==
  /\ p \in passed /\ passed' = passed \ {p}
  /\ IF status[p] # "shadow_testing" THEN UNCHANGED <<status, decidedBy>>
     ELSE IF critical = "yes"
       THEN status' = [status EXCEPT ![p] = "awaiting_approval"] /\ UNCHANGED decidedBy
       ELSE /\ status' = [status EXCEPT ![p] = "promoted"]
            /\ decidedBy' = [decidedBy EXCEPT ![p] = "auto-promotion"]
  /\ UNCHANGED <<runnerVars, critical, registered, selector, repairing, log, listed, tested>>

(* decideProposal, one transaction. *)
Decide(p, decision) ==
  /\ status[p] \in Open
  /\ status' = [status EXCEPT ![p] = decision]
  /\ decidedBy' = [decidedBy EXCEPT ![p] = "operator"]
  /\ selector' = IF decision = "promoted" /\ registered = "yes" THEN p ELSE selector
  /\ UNCHANGED <<runnerVars, critical, registered, repairing, log, listed, tested, passed>>

(* The repair worker restarts: its sweeps are gone. *)
RepairCrash ==
  /\ repairing = "yes" \/ listed \union tested \union passed # {}
  /\ repairing' = "no" /\ listed' = {} /\ tested' = {} /\ passed' = {}
  /\ UNCHANGED <<runnerVars, critical, registered, selector, status, decidedBy, log>>

Next ==
  \/ RunnerNext /\ UNCHANGED repairVars
  \/ DailySweep \/ Propose \/ HourlySweep \/ RepairCrash
  \/ \E p \in Proposals : ShadowTest(p) \/ Judge(p) \/ Promote(p)
  \/ \E p \in Proposals, decision \in Decided : Decide(p, decision)

Spec == Init /\ [][Next]_vars

-----------------------------------------------------------------------------
TypeOK ==
  /\ RunnerTypeOK
  /\ critical \in {"yes", "no"} /\ registered \in {"yes", "no"}
  /\ selector \in 0..MaxProposals
  /\ repairing \in {"yes", "no"}
  /\ status \in [Proposals -> Open \union Decided \union {"none"}]
  /\ decidedBy \in [Proposals -> Deciders]
  /\ log \in [Proposals -> Seq([match : {0, 1}, divergence : {0, 1}])]
  /\ listed \subseteq Proposals /\ tested \subseteq Proposals /\ passed \subseteq Proposals

(* "critical adapters always require manual sign-off": whatever the sweeps *)
(* have read and when, a proposal of one is promoted by the operator only; *)
(* and the selector that is live is never one that was turned down.        *)
CriticalNeedsSignOff ==
  /\ critical = "yes" =>
       \A p \in Proposals : status[p] = "promoted" => decidedBy[p] = "operator"
  /\ selector # 0 => status[selector] = "promoted"

(* "a stale UI click cannot promote a non-existent or already-decided      *)
(* proposal", and neither can a sweep that read it before the decision.    *)
DecisionIsFinal ==
  [][\A p \in Proposals : status[p] \in Decided =>
       status'[p] = status[p] /\ decidedBy'[p] = decidedBy[p]]_vars

=============================================================================
