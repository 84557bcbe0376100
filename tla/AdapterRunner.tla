--------------------------- MODULE AdapterRunner ---------------------------
(***************************************************************************)
(* The runs of one source's adapter (apps/adapter-runner): run-one.ts,     *)
(* with the daily cap and the proxy tiers of packages/adapters and the     *)
(* event and health rows of SourceRepo.  The cron tick starts a run and    *)
(* does not wait for it, so runs of one source overlap.                    *)
(***************************************************************************)
EXTENDS Naturals, FiniteSets

CONSTANTS
  Runs,       \* the runs that can be under way together
  Events,     \* what the source lists, by dedup_key
  Urls,       \* per event, how many document URLs its payload names
  DailyCap,   \* daily_request_cap; 0 is "no cap declared"
  ResidentialTier, \* the residential tier, or hetzner-dc where it has no credentials
  MaxStarts,  \* bound: cron ticks
  MaxFaults   \* bound: failed commands, commands sent again, and crashes

ASSUME RunnerAssumption ==
  /\ IsFiniteSet(Runs) /\ Runs # {} /\ Urls \in [Events -> Nat] /\ IsFiniteSet(Events)
  /\ ResidentialTier \in {"hetzner-dc", "bright-data-residential"}
  /\ DailyCap \in Nat /\ MaxStarts \in Nat /\ MaxFaults \in Nat

VARIABLES
  pc,         \* per run, where it is
  previous,   \* per run, the health row it has read
  tier,       \* per run, its proxy
  todo,       \* per run, the events of its result it has not come to
  current,    \* per run, the event it is publishing, if any
  left,       \* per run, the fetch requests of that event still to publish
  outcome,    \* per run, what it is going to report
  health,     \* the source's row of adapter_health
  used,       \* the day's counter of runs
  escalated,  \* the last tier in the escalation history of 24 hours
  stored,     \* the events in source.events
  announced,  \* per event, its envelopes on ADAPTER_OUT
  requested,  \* per event, its envelopes on DOCUMENT_FETCH
  reannounced, \* history: per event, the envelopes that are there because its
              \* XADD was sent a second time
  rerequested, \* history: the same of its fetch requests
  started,    \* cron ticks so far
  cut,        \* history: runs that an error or a crash has ended early
  streak,     \* history: runs reported failed since one was reported green
  overlap,    \* history: whether two runs have been under way together
  faults      \* how much of its bound is spent

runVars   == <<pc, previous, tier, todo, current, left, outcome>>
againVars == <<reannounced, rerequested>>
storeVars == <<stored, announced, requested, againVars>>
runnerVars == <<runVars, storeVars, health, used, escalated,
                started, cut, streak, overlap, faults>>

Statuses == {"green", "amber", "red", "blocked", "first_contact_failed"}
Failures == {"red", "blocked", "first_contact_failed"}
Outcomes == Failures \union {"green", "capped", "disallowed"}
Tiers    == {"hetzner-dc", "bright-data-residential", "tor-over-bright-data"}

(* hint: whether last_error names a URL.  A row that is not there, and one *)
(* that cannot be read, counts as this one.                                *)
NoRow == [status |-> "green", failures |-> 0, hint |-> "no"]
Rows  == [status : Statuses, failures : Nat, hint : {"yes", "no"}]

Underway == {r \in Runs : pc[r] # "idle"}
InHand == UNION {current[r] : r \in Runs}

-----------------------------------------------------------------------------
RunnerInit ==
  /\ pc = [r \in Runs |-> "idle"] /\ previous = [r \in Runs |-> NoRow]
  /\ tier = [r \in Runs |-> "hetzner-dc"] /\ todo = [r \in Runs |-> {}]
  /\ current = [r \in Runs |-> {}] /\ left = [r \in Runs |-> 0]
  /\ outcome = [r \in Runs |-> "green"]
  /\ health = NoRow /\ used = 0 /\ escalated = "none"
  /\ stored = {} /\ announced = [e \in Events |-> 0] /\ requested = [e \in Events |-> 0]
  /\ reannounced = [e \in Events |-> 0] /\ rerequested = [e \in Events |-> 0]
  /\ started = 0 /\ cut = 0 /\ streak = 0 /\ overlap = "no" /\ faults = 0

Fault == faults < MaxFaults /\ faults' = faults + 1

(* The locals of the runs that end go with them. *)
End(ending) ==
  LET keep(local, initial) == [r \in Runs |-> IF r \in ending THEN initial ELSE local[r]] IN
  /\ pc' = keep(pc, "idle") /\ previous' = keep(previous, NoRow)
  /\ tier' = keep(tier, "hetzner-dc") /\ outcome' = keep(outcome, "green")
  /\ todo' = keep(todo, {}) /\ current' = keep(current, {}) /\ left' = keep(left, 0)

(* The cron tick: a run starts, and reads the health row. *)
Start(r) ==
  /\ pc[r] = "idle" /\ started < MaxStarts /\ started' = started + 1
  /\ pc' = [pc EXCEPT ![r] = "checking"]
  /\ overlap' = IF Underway = {} THEN overlap ELSE "yes"
  /\ \/ previous' = [previous EXCEPT ![r] = health] /\ UNCHANGED faults
     \/ previous' = [previous EXCEPT ![r] = NoRow] /\ Fault
  /\ UNCHANGED <<tier, todo, current, left, outcome, storeVars, health, used,
                 escalated, cut, streak>>

(* DailyRateLimiter.allow, which leaves the counter alone. *)
Allowed == DailyCap = 0 \/ used < DailyCap

(* ProxyManager.endpointFor. *)
Endpoint(status) ==
  IF status # "blocked" THEN "hetzner-dc"
  ELSE IF escalated = "bright-data-residential" THEN "tor-over-bright-data"
  ELSE ResidentialTier

(* The pre-flight: the cap, then robots.txt. *)
Check(r) ==
  /\ pc[r] = "checking"
  /\ \/ /\ ~Allowed
        /\ outcome' = [outcome EXCEPT ![r] = "capped"]
        /\ pc' = [pc EXCEPT ![r] = "reporting"] /\ UNCHANGED tier
     \/ /\ Allowed
        /\ outcome' = [outcome EXCEPT ![r] = "disallowed"]
        /\ pc' = [pc EXCEPT ![r] = "reporting"] /\ UNCHANGED tier
     \/ /\ Allowed
        /\ tier' = [tier EXCEPT ![r] = Endpoint(previous[r].status)]
        /\ pc' = [pc EXCEPT ![r] = "fetching"] /\ UNCHANGED outcome
  /\ UNCHANGED <<previous, todo, current, left, storeVars, health, used, escalated,
                 started, cut, streak, overlap, faults>>

(* adapter.run fails ... *)
FetchFails(r) ==
  /\ pc[r] = "fetching"
  /\ \E how \in Failures :
       /\ outcome' = [outcome EXCEPT ![r] = how]
       /\ escalated' = IF how = "blocked" THEN tier[r] ELSE escalated
  /\ pc' = [pc EXCEPT ![r] = "reporting"]
  /\ UNCHANGED <<previous, tier, todo, current, left, storeVars, health, used,
                 started, cut, streak, overlap, faults>>

(* ... or returns some of what the source lists. *)
Fetch(r) ==
  /\ pc[r] = "fetching"
  /\ \E found \in SUBSET Events : todo' = [todo EXCEPT ![r] = found]
  /\ pc' = [pc EXCEPT ![r] = "inserting"]
  /\ UNCHANGED <<previous, tier, current, left, outcome, storeVars, health, used,
                 escalated, started, cut, streak, overlap, faults>>

(* Mutant: an event that was there already is published as well. *)
InsertAlways(r, e) ==
  /\ pc[r] = "inserting" /\ e \in todo[r]
  /\ todo' = [todo EXCEPT ![r] = @ \ {e}]
  /\ stored' = stored \union {e}
  /\ current' = [current EXCEPT ![r] = {e}] /\ left' = [left EXCEPT ![r] = Urls[e]]
  /\ pc' = [pc EXCEPT ![r] = "announcing"]
  /\ UNCHANGED <<previous, tier, outcome, announced, requested, againVars, health, used,
                 escalated, started, cut, streak, overlap, faults>>

(* insertEvent, ON CONFLICT DO NOTHING: only what it inserts is published. *)
Insert(r, e) ==
  /\ pc[r] = "inserting" /\ e \in todo[r]
  /\ todo' = [todo EXCEPT ![r] = @ \ {e}]
  /\ stored' = stored \union {e}
  /\ IF e \in stored
       THEN UNCHANGED <<pc, current, left>>
       ELSE /\ current' = [current EXCEPT ![r] = {e}]
            /\ left' = [left EXCEPT ![r] = Urls[e]]
            /\ pc' = [pc EXCEPT ![r] = "announcing"]
  /\ UNCHANGED <<previous, tier, outcome, announced, requested, againVars, health, used,
                 escalated, started, cut, streak, overlap, faults>>

(* Mutant: the last request of an event is left out. *)
ContinueEarly(r, n) ==
  /\ left' = [left EXCEPT ![r] = n]
  /\ pc' = [pc EXCEPT ![r] = IF n <= 1 THEN "inserting" ELSE "requesting"]
  /\ current' = [current EXCEPT ![r] = IF n <= 1 THEN {} ELSE @]

(* Back to the loop over the result's events once all is published. *)
Continue(r, n) ==
  /\ left' = [left EXCEPT ![r] = n]
  /\ pc' = [pc EXCEPT ![r] = IF n = 0 THEN "inserting" ELSE "requesting"]
  /\ current' = [current EXCEPT ![r] = IF n = 0 THEN {} ELSE @]

Announce(r, e) ==
  /\ pc[r] = "announcing" /\ e \in current[r]
  /\ announced' = [announced EXCEPT ![e] = @ + 1]
  /\ Continue(r, left[r])
  /\ UNCHANGED <<previous, tier, todo, outcome, stored, requested, againVars, health, used,
                 escalated, started, cut, streak, overlap, faults>>

Request(r, e) ==
  /\ pc[r] = "requesting" /\ left[r] > 0 /\ e \in current[r]
  /\ requested' = [requested EXCEPT ![e] = @ + 1]
  /\ Continue(r, left[r] - 1)
  /\ UNCHANGED <<previous, tier, todo, outcome, stored, announced, againVars, health, used,
                 escalated, started, cut, streak, overlap, faults>>

(* Every event is dealt with: the documents are inserted, the run counted. *)
Close(r) ==
  /\ pc[r] = "inserting" /\ todo[r] = {}
  /\ used' = used + 1
  /\ outcome' = [outcome EXCEPT ![r] = "green"]
  /\ pc' = [pc EXCEPT ![r] = "reporting"]
  /\ UNCHANGED <<previous, tier, todo, current, left, storeVars, health, escalated,
                 started, cut, streak, overlap, faults>>

(* A database or Redis command throws, perhaps after it has taken effect:  *)
(* the rest of the run's result is dropped and the run is red.             *)
CommandFails(r) ==
  /\ pc[r] \in {"inserting", "announcing", "requesting"} /\ Fault
  /\ \/ /\ pc[r] = "inserting" /\ todo[r] = {} /\ used' \in {used, used + 1}
        /\ UNCHANGED storeVars
     \/ /\ pc[r] = "inserting" /\ \E e \in todo[r] : stored' \in {stored, stored \union {e}}
        /\ UNCHANGED <<announced, requested, used>>
     \/ /\ pc[r] = "announcing"
        /\ \E e \in current[r] : announced' \in {announced, [announced EXCEPT ![e] = @ + 1]}
        /\ UNCHANGED <<stored, requested, used>>
     \/ /\ pc[r] = "requesting"
        /\ \E e \in current[r] : requested' \in {requested, [requested EXCEPT ![e] = @ + 1]}
        /\ UNCHANGED <<stored, announced, used>>
  /\ cut' = cut + 1
  /\ outcome' = [outcome EXCEPT ![r] = "red"]
  /\ todo' = [todo EXCEPT ![r] = {}] /\ current' = [current EXCEPT ![r] = {}]
  /\ left' = [left EXCEPT ![r] = 0]
  /\ pc' = [pc EXCEPT ![r] = "reporting"]
  /\ UNCHANGED <<againVars, previous, tier, health, escalated, started, streak, overlap>>

(* A Redis command runs and its reply is lost with the connection: ioredis *)
(* sends it again, and the run waits on.                                   *)
Resend(r) ==
  /\ Fault
  /\ \/ /\ pc[r] = "announcing"
        /\ \E e \in current[r] :
             /\ announced' = [announced EXCEPT ![e] = @ + 1]
             /\ reannounced' = [reannounced EXCEPT ![e] = @ + 1]
        /\ UNCHANGED <<requested, rerequested, used>>
     \/ /\ pc[r] = "requesting"
        /\ \E e \in current[r] :
             /\ requested' = [requested EXCEPT ![e] = @ + 1]
             /\ rerequested' = [rerequested EXCEPT ![e] = @ + 1]
        /\ UNCHANGED <<announced, reannounced, used>>
     \/ /\ pc[r] = "inserting" /\ todo[r] = {}
        /\ used' = used + 1
        /\ UNCHANGED <<announced, requested, againVars>>
  /\ UNCHANGED <<runVars, stored, health, escalated, started, cut, streak, overlap>>

(* The row a run reports, made of what it had read when it started. *)
Reported(r, hint) ==
  CASE outcome[r] = "green"      -> NoRow
    [] outcome[r] = "capped"     -> [previous[r] EXCEPT !.hint = "no"]
    [] outcome[r] = "disallowed" -> [previous[r] EXCEPT !.hint = "no", !.status = "amber"]
    [] OTHER -> [status |-> outcome[r], failures |-> previous[r].failures + 1, hint |-> hint]

Report(r) ==
  /\ pc[r] = "reporting"
  /\ \E hint \in {"yes", "no"} : health' = Reported(r, hint)
  /\ streak' = CASE outcome[r] = "green" -> 0
                 [] outcome[r] \in Failures -> streak + 1
                 [] OTHER -> streak
  /\ End({r})
  /\ UNCHANGED <<storeVars, used, escalated, started, cut, overlap, faults>>

(* Outside the try an error ends the run without a report. *)
RunDies(r) ==
  /\ pc[r] \in {"checking", "reporting"} /\ Fault
  /\ End({r}) /\ cut' = cut + 1
  /\ UNCHANGED <<storeVars, health, used, escalated, started, streak, overlap>>

(* The process dies with every run in it, and its escalation history. *)
Crash ==
  /\ Underway # {} /\ Fault
  /\ cut' = cut + Cardinality(Underway)
  /\ End(Runs) /\ escalated' = "none"
  /\ UNCHANGED <<storeVars, health, used, started, streak, overlap>>

(* The counter's key names the day; an escalation counts for 24 hours. *)
NewDay ==
  /\ used > 0 /\ used' = 0
  /\ UNCHANGED <<runVars, storeVars, health, escalated, started, cut, streak, overlap,
                 faults>>

Forget ==
  /\ escalated # "none" /\ escalated' = "none"
  /\ UNCHANGED <<runVars, storeVars, health, used, started, cut, streak, overlap, faults>>

RunnerNext ==
  \/ \E r \in Runs : Start(r) \/ Check(r) \/ FetchFails(r) \/ Fetch(r) \/ Close(r)
                     \/ CommandFails(r) \/ Resend(r) \/ Report(r) \/ RunDies(r)
  \/ \E r \in Runs, e \in Events : Insert(r, e) \/ Announce(r, e) \/ Request(r, e)
  \/ Crash \/ NewDay \/ Forget

-----------------------------------------------------------------------------
RunnerTypeOK ==
  /\ pc \in [Runs -> {"idle", "checking", "fetching", "inserting", "announcing",
                      "requesting", "reporting"}]
  /\ previous \in [Runs -> Rows] /\ tier \in [Runs -> Tiers]
  /\ todo \in [Runs -> SUBSET Events] /\ current \in [Runs -> SUBSET Events]
  /\ left \in [Runs -> Nat] /\ outcome \in [Runs -> Outcomes]
  /\ health \in Rows /\ used \in Nat /\ escalated \in Tiers \union {"none"}
  /\ stored \subseteq Events /\ announced \in [Events -> Nat] /\ requested \in [Events -> Nat]
  /\ reannounced \in [Events -> Nat] /\ rerequested \in [Events -> Nat]
  /\ started \in Nat /\ cut \in Nat /\ streak \in Nat /\ overlap \in {"yes", "no"}
  /\ faults \in Nat

(* "Re-runs of the same content produce the same key and are dropped"      *)
(* (base.ts): however its runs overlap, an event and each of its document  *)
(* URLs are published once, but for an XADD that ran and was sent again,   *)
(* the event first and its row before that ("DB commit BEFORE stream       *)
(* publish").                                                              *)
PublishedOnce ==
  \A e \in Events :
    /\ announced[e] <= 1 + reannounced[e]
    /\ requested[e] <= Urls[e] + rerequested[e]
    /\ announced[e] > 0 => e \in stored
    /\ requested[e] > 0 => announced[e] > 0

(* An event that is stored is never published again by a later run, so it  *)
(* is whatever cut a run short that keeps one from the pipeline for good:  *)
(* one event for each such run, and none in any other way.                 *)
Unpublished ==
  {e \in stored \ InHand : announced[e] = 0 \/ requested[e] < Urls[e] + rerequested[e]}

EachCutLosesOne == Cardinality(Unpublished) <= cut

(* consecutive_failures, which the repair worker acts on: unless runs      *)
(* overlap or a command fails, it is how many runs have failed since one   *)
(* did not.                                                                *)
HealthCountsStreak == overlap = "no" /\ faults = 0 => health.failures = streak

(* allow then increment is no hard cap: overlapping runs can exceed it,    *)
(* each by one, and so can an increment that is sent again.                *)
CapExceededByOverlap == DailyCap > 0 => used < DailyCap + Cardinality(Runs) + faults
=============================================================================
