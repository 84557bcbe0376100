----------------------------- MODULE LlmRouter ------------------------------
(***************************************************************************)
(* The LlmRouter of one worker process (packages/llm): the handlers that   *)
(* call it side by side, the tiers it falls over to, the circuit breaker   *)
(* of each cloud tier, and the tracker that refuses calls over the daily   *)
(* ceiling.  What a model answers is a choice; time is counted in ticks.   *)
(*                                                                         *)
(* Between two awaits a call runs alone, so one action takes a call from   *)
(* an answer to its next request.                                          *)
(***************************************************************************)
EXTENDS Naturals, Sequences, FiniteSets

CONSTANTS
  Calls,       \* the calls a worker may have under way, one per handler
  Breakers,    \* the cloud tiers: 0 Anthropic, and 1 Bedrock where it is enabled
  Local,       \* {2} where the local tier is enabled, {} where it is not
  Priced,      \* the calls whose model, one id on every tier, has an entry in pricing.json
  MaxCost,     \* the most an answer of a cloud tier may cost
  Hard,        \* the daily hard ceiling
  Threshold,   \* per cloud tier, the failures that open its breaker
  Window,      \* for how long a failure counts
  Probe,       \* for how long a breaker stays open
  Day,         \* 24 hours
  MaxRestarts  \* bound: restarts of the process

ASSUME RouterAssumption ==
  /\ IsFiniteSet(Calls) /\ Breakers \subseteq {0, 1} /\ Local \subseteq {2}
  /\ Priced \subseteq Calls /\ MaxCost \in Nat \ {0}
  /\ Threshold \in [Breakers -> Nat \ {0}]
  /\ {Hard, Window, Probe, Day, MaxRestarts} \subseteq Nat

VARIABLES
  asked,    \* per call, the tier that has its request, or Idle
  breaker,  \* per cloud tier: its state, the ages of its failures, the time to its probe
  local,    \* whether the local tier is healthy
  history,  \* the tracker's records, oldest first: what each cost, and its age
  restarts  \* how much of its bound is spent

routerVars == <<asked, breaker, local, history, restarts>>

Tiers == Breakers \union Local
Idle == 3

ClosedBreaker == [state |-> "closed", failures |-> <<>>, probeIn |-> 0]

RouterInit ==
  /\ asked = [c \in Calls |-> Idle] /\ breaker = [t \in Breakers |-> ClosedBreaker]
  /\ local = "up" /\ history = <<>> /\ restarts = 0

-----------------------------------------------------------------------------
(* CircuitBreaker. *)
Succeeded(b) == [b EXCEPT !.state = "closed", !.failures = <<>>]

(* recordFailure drops what is older than the window; of the failures that *)
(* remain no more than the threshold are ever told apart.                  *)
Failed(b, t) ==
  LET recent == SelectSeq(Append(b.failures, 0), LAMBDA age : age <= Window) IN
  IF Len(recent) < Threshold[t]
  THEN [b EXCEPT !.failures = recent]
  ELSE [state |-> "open", probeIn |-> Probe,
        failures |-> SubSeq(recent, Len(recent) - Threshold[t] + 1, Len(recent))]

(* Mutant: an open breaker stays so. *)
HealthyClosed(b, t) == IF t \in Breakers THEN b[t].state # "open" ELSE local = "up"

(* isHealthy. *)
Healthy(b, t) ==
  IF t \in Breakers THEN b[t].state # "open" \/ b[t].probeIn = 0 ELSE local = "up"

(* isOpen, of a breaker whose probe is due. *)
Passed(b) == [b EXCEPT !.state = IF @ = "open" THEN "half-open" ELSE @]

-----------------------------------------------------------------------------
(* CostTracker.  Its monthly accumulator is left out: nothing reads it,    *)
(* for no code calls shouldAllow.                                          *)

(* record() appends, and drops from the front what is older than a day.  A *)
(* local answer is a record of no cost, which no sum tells from none.      *)
Trimmed(records) ==
  LET stale == {n \in 1..Len(records) : \A m \in 1..n : records[m].age > Day}
  IN  SubSeq(records, Cardinality(stale) + 1, Len(records))

Recorded(cost) == Trimmed(Append(history, [cost |-> cost, age |-> 0]))

(* A reduce() over what the records cost. *)
CostsOf(records) == [n \in 1..Len(records) |-> records[n].cost]

Total(costs) ==
  LET sum[n \in 0..Len(costs)] == IF n = 0 THEN 0 ELSE sum[n - 1] + costs[n]
  IN  sum[Len(costs)]

(* spentLast24h: whatever record() has not dropped yet, however old. *)
Spent(records) == Total(CostsOf(records))

-----------------------------------------------------------------------------
(* The loop of call(), from a tier on: the first healthy tier is asked,    *)
(* and without one the call fails.                                         *)
AskFrom(c, from, b) ==
  LET able == {t \in Tiers : t >= from /\ Healthy(b, t)} IN
  IF able = {} THEN asked' = [asked EXCEPT ![c] = Idle] /\ breaker' = b
  ELSE LET t == CHOOSE u \in able : \A v \in able : u <= v IN
    /\ asked' = [asked EXCEPT ![c] = t]
    /\ breaker' = IF t \in Breakers THEN [b EXCEPT ![t] = Passed(@)] ELSE b

(* Mutant: the ceiling is not looked at. *)
BeginAnyway(c) ==
  /\ asked[c] = Idle
  /\ AskFrom(c, 0, breaker) /\ UNCHANGED <<local, history, restarts>>

(* enforceBeforeCall, and the first request.  A call that is refused       *)
(* throws, and changes nothing.                                            *)
Begin(c) ==
  /\ asked[c] = Idle /\ Spent(history) < Hard
  /\ AskFrom(c, 0, breaker) /\ UNCHANGED <<local, history, restarts>>

(* A cloud tier answers.  An answer of Anthropic's after its deadline is a *)
(* failure to the breaker, and is used.  An answer without a price throws  *)
(* after the breaker has heard of it.  An answer the schema or a guard     *)
(* rejects has been recorded, and the next tier is asked.                  *)
Answer(c) ==
  LET t == asked[c] IN
  /\ t \in Breakers
  /\ \E slow \in IF t = 0 THEN BOOLEAN ELSE {FALSE} :
       LET heard == [breaker EXCEPT ![t] = IF slow THEN Failed(@, t) ELSE Succeeded(@)] IN
       \/ /\ c \notin Priced
          /\ AskFrom(c, t + 1, [heard EXCEPT ![t] = Failed(@, t)]) /\ UNCHANGED history
       \/ /\ c \in Priced
          /\ \E cost \in 1..MaxCost : history' = Recorded(cost)
          /\ \/ asked' = [asked EXCEPT ![c] = Idle] /\ breaker' = heard
             \/ AskFrom(c, t + 1, heard)
  /\ UNCHANGED <<local, restarts>>

(* The local tier, which is the last, answers with one of its two models.  *)
LocalAnswer(c) ==
  /\ asked[c] \in Local
  /\ asked' = [asked EXCEPT ![c] = Idle]
  /\ history' = Trimmed(history) /\ UNCHANGED <<breaker, local, restarts>>

(* A request fails, the retries of its SDK included. *)
RequestFails(c) ==
  LET t == asked[c] IN
  /\ t \in Breakers
  /\ AskFrom(c, t + 1, [breaker EXCEPT ![t] = Failed(@, t)])
  /\ UNCHANGED <<local, history, restarts>>

(* Both local models fail: no code makes the tier healthy again. *)
LocalFails(c) ==
  /\ asked[c] \in Local
  /\ asked' = [asked EXCEPT ![c] = Idle] /\ local' = "lost"
  /\ UNCHANGED <<breaker, history, restarts>>

(* Time passes: ages are told apart up to the first that no longer counts. *)
Older(age, limit) == IF age < limit THEN age + 1 ELSE limit + 1

Tick ==
  /\ breaker' = [t \in Breakers |->
       [state |-> breaker[t].state,
        failures |-> [i \in DOMAIN breaker[t].failures |-> Older(breaker[t].failures[i], Window)],
        probeIn |-> IF breaker[t].probeIn = 0 THEN 0 ELSE breaker[t].probeIn - 1]]
  /\ history' = [i \in DOMAIN history |-> [history[i] EXCEPT !.age = Older(@, Day)]]
  /\ UNCHANGED <<asked, local, restarts>>

(* The process restarts: breakers and tracker are memory of its own. *)
Restart ==
  /\ restarts < MaxRestarts /\ restarts' = restarts + 1
  /\ asked' = [c \in Calls |-> Idle] /\ breaker' = [t \in Breakers |-> ClosedBreaker]
  /\ local' = "up" /\ history' = <<>>

RouterNext ==
  \/ Tick \/ Restart
  \/ \E c \in Calls :
       Begin(c) \/ Answer(c) \/ LocalAnswer(c) \/ RequestFails(c) \/ LocalFails(c)

(* Time passes; no handler is bound to make a call. *)
RouterSpec == RouterInit /\ [][RouterNext]_routerVars /\ WF_routerVars(Tick)

-----------------------------------------------------------------------------
(* What the calls under way may still record: one answer per cloud tier,   *)
(* from the one they have asked on.                                        *)
AnswersToCome == {p \in Priced \X Breakers : p[2] >= asked[p[1]]}
Outstanding == Cardinality(AnswersToCome)

(* The ceiling is read when a call begins and raised when a tier answers:  *)
(* it is exceeded by no more than every call that began below it may cost, *)
(* at every tier that rejects or is rejected.                              *)
OverrunByInFlight ==
  Hard > 0 =>
    Spent(history) + MaxCost * Outstanding
      < Hard + MaxCost * (Cardinality(Priced) * Cardinality(Breakers))

(* "Auto-reset: every probe interval": as long as calls are made, the      *)
(* breaker of the first tier does not stay open.                           *)
FirstTierIsTriedAgain ==
  []<><<\E c \in Calls : Begin(c)>>_routerVars
    => (0 \in Breakers /\ breaker[0].state = "open" ~> breaker[0].state # "open")
=============================================================================
