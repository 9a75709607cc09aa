------------------------------ MODULE AlertEngine ------------------------------
(***************************************************************************)
(* The alert rules and the budget of one connection.  A synchronisation    *)
(* evaluates the rules when it ends, unless it has given up before that;   *)
(* budgets/set calls install rules and evaluate them too, and the user     *)
(* adds and rewrites rules at any moment.                                  *)
(* Nothing but the database's mutex orders them: an evaluation reads the   *)
(* connection, the quotas, the metrics, the budget and the rules under an  *)
(* acquisition each and writes back whole rules, one at a time.            *)
(***************************************************************************)
EXTENDS Integers, FiniteSets, FiniteSetsExt

CONSTANTS
  MaxRules,   \* bound: the identifiers 1, 2, .. given to alert rules
  Sync,       \* the task that evaluates at the end of a synchronisation
  Call,       \* the budgets/set calls that may be under way at once
  Defaults,   \* the rules install_defaults has given the connection
  Fact,       \* what its row, quota windows and usage_events may hold, and the cache
              \* hit ratios of its metrics
  Today,      \* the current day
  Month,      \* the days of the current month
  Budget,     \* the budgets a user may set
  UserRule,   \* the rules a client may send to alerts/upsert
  MaxClock,   \* bound: the clock that suppressions are compared with
  MaxChanges, \* bound: commits of new facts and edits by the user
  None        \* no budget, no time, no model

Task == {Sync} \cup Call

RuleId == 1..MaxRules

\* The kinds, in the order of their names, in which the rules are read
KindOrder == [authentication_required |-> 1, cache_hit_ratio |-> 2, cost_budget_ratio |-> 3,
              data_stale |-> 4, quota_remaining |-> 5, quota_reset_soon |-> 6,
              token_daily |-> 7]
Kind == DOMAIN KindOrder

Rule == [kind : Kind, threshold : Int,
         state : {"normal", "triggered", "acknowledged", "suppressed"},
         until : Nat \cup {None}]

Status == {"connecting", "ready", "syncing", "stale", "auth_required", "rate_limited",
           "offline", "provider_error", "disabled"}

ASSUME AlertAssumption ==
  /\ Sync \notin Call /\ None \notin Budget \cup Int
  /\ MaxRules \in Nat /\ MaxClock \in Nat /\ MaxChanges \in Nat /\ Today \in Month
  /\ \A f \in Fact :
       /\ f.row.status \in Status /\ f.row.age \in Nat \cup {None}
       /\ f.quotas.remaining \subseteq Nat /\ f.quotas.resets \subseteq Nat
       /\ \A e \in f.events : e.tokens \in Nat /\ e.charge \in Nat
       /\ f.hits \subseteq Nat
  /\ \A b \in Budget : b.amount \in Nat /\ b.warning \in Nat /\ b.critical \in Nat
  /\ UserRule \subseteq Rule
  /\ DOMAIN Defaults \subseteq RuleId
  /\ \A i \in DOMAIN Defaults : /\ Defaults[i].kind \in Kind \ {"cost_budget_ratio"}
                                /\ Defaults[i].threshold \in Nat

VARIABLES
  rules,    \* table alerts: a function on the identifiers in use
  budget,   \* table budgets
  fact,     \* the connection's row, its quota windows and usage_events
  clock,
  phase,    \* what each task does next
  view,     \* the row, quotas, metrics, budget and time each task has read
  copy,     \* the rules each task has read and not yet dealt with
  changed,  \* the rules each task has written with another state
  edited,   \* observation: the rules the user has edited, or another task's
            \* stale copy has put back, since each task read them
  handmade, \* observation: the rules that are, or were, a budget's rule of some
            \* threshold because the user has written them so, or no longer
  raced,    \* observation: two budgets/set calls have been under way at once, or a
            \* budget's two ratios were the same
  changes   \* the commits and edits so far

vars == <<rules, budget, fact, clock, phase, view, copy, changed,
          edited, handmade, raced, changes>>

stored == <<rules, budget>>
seen   == <<edited, handmade, raced>>

-----------------------------------------------------------------------------
(***************************************************************************)
(* The rows of metric_samples the rules read: the rollups of the events,   *)
(* one for each day and one for each day and model.                        *)
(***************************************************************************)
Rollups(evs) ==
  LET days      == {e.day : e \in evs}
      of(d, m)  == {e \in evs : e.day = d /\ m \in {None, e.model}}
      row(d, m) == [day |-> d, model |-> m,
                    tokens |-> MapThenSumSet(LAMBDA e : e.tokens, of(d, m)),
                    charge |-> MapThenSumSet(LAMBDA e : e.charge, of(d, m))]
  IN {row(d, None) : d \in days} \cup {row(e.day, e.model) : e \in evs}

TokensToday(rows) == MapThenSumSet(LAMBDA r : r.tokens, {r \in rows : r.day = Today})

Spent(rows) == MapThenSumSet(LAMBDA r : r.charge, {r \in rows : r.day \in Month})

(***************************************************************************)
(* alerts::evaluate: the condition of a rule.  Ratios are in percent, the  *)
(* thresholds of quota_reset_soon and data_stale in minutes.               *)
(***************************************************************************)
Triggered(rule, v) ==
  CASE rule.kind = "quota_remaining" -> \E q \in v.quotas.remaining : q <= rule.threshold
    [] rule.kind = "quota_reset_soon" -> \E m \in v.quotas.resets : m <= rule.threshold
    [] rule.kind = "authentication_required" -> v.row.status = "auth_required"
    [] rule.kind = "data_stale" -> v.row.age = None \/ v.row.age >= rule.threshold
    [] rule.kind = "token_daily" -> TokensToday(v.metrics) >= rule.threshold
    [] rule.kind = "cost_budget_ratio" ->
         /\ v.budget # None /\ v.budget.amount > 0
         /\ Spent(v.metrics) * 100 >= rule.threshold * v.budget.amount
    [] rule.kind = "cache_hit_ratio" -> \E h \in v.hits : h < rule.threshold

\* rule.suppressed_until.is_some_and(|value| value > now)
Suppressed(rule, now) == rule.until # None /\ rule.until > now

NewRule(kind, threshold) ==
  [kind |-> kind, threshold |-> threshold, state |-> "normal", until |-> None]

Unread == [row |-> None, quotas |-> None, metrics |-> {}, hits |-> {}, budget |-> None,
           now |-> 0]

NoRules == <<>>

\* What the user decides of a rule
UserPart(rule) == <<rule.kind, rule.threshold, rule.until>>

\* The share of the budget a rule waits for
Share(rule) == IF rule.kind = "cost_budget_ratio" THEN rule.threshold ELSE None

\* upsert_alert: ON CONFLICT(id) DO UPDATE of every column but the connection.
\* Variant: a connection has one rule of a kind, and a new one takes its place.
UpsertOfKind(i, rule) ==
  rules' = [j \in {k \in DOMAIN rules : rules[k].kind # rule.kind} \cup {i} |->
              IF j = i THEN rule ELSE rules[j]]
Upsert(i, rule) == rules' = [j \in DOMAIN rules \cup {i} |-> IF j = i THEN rule ELSE rules[j]]

-----------------------------------------------------------------------------
\* alerts::install_defaults: fresh rules, not suppressed and not triggered
InstallDefaults ==
  rules = [i \in DOMAIN Defaults |-> NewRule(Defaults[i].kind, Defaults[i].threshold)]

Init ==
  /\ InstallDefaults
  /\ budget = None
  /\ fact \in Fact /\ clock = 0
  /\ phase = [t \in Task |-> "idle"] /\ view = [t \in Task |-> Unread]
  /\ copy = [t \in Task |-> NoRules] /\ changed = [t \in Task |-> {}]
  /\ edited = [t \in Task |-> {}] /\ handmade = {} /\ raced = FALSE /\ changes = 0

(***************************************************************************)
(* The synchronisation, as far as the alerts see it.  Scheduler::run skips *)
(* the connections of three statuses; the user may ask for one at any      *)
(* time.  What it commits, or the error it notes, is CommitFacts.          *)
(***************************************************************************)
Scheduled == fact.row.status \notin {"disabled", "auth_required", "connecting"}

StartSync ==
  /\ phase[Sync] = "idle" /\ phase' = [phase EXCEPT ![Sync] = "syncing"]
  /\ UNCHANGED <<stored, fact, clock, view, copy, changed, seen, changes>>

\* The first one that is due
SyncWhenDue == Scheduled /\ StartSync

\* It returns without a look at the rules: the connection is disabled, or has no
\* adapter or secret, or the batch is refused.
GiveUp ==
  /\ phase[Sync] = "syncing" /\ phase' = [phase EXCEPT ![Sync] = "idle"]
  /\ UNCHANGED <<stored, fact, clock, view, copy, changed, seen, changes>>

(***************************************************************************)
(* The evaluation, one database call at a time.                            *)
(***************************************************************************)
Read(t, from, to, what) ==
  /\ phase[t] = from /\ phase' = [phase EXCEPT ![t] = to]
  /\ view' = [view EXCEPT ![t] = what]
  /\ UNCHANGED <<stored, fact, clock, copy, changed, seen, changes>>

\* now and repo.connection, once a batch is committed or the provider's error is
\* noted, or once a budgets/set call has installed its rules
ReadConnection(t) ==
  Read(t, IF t = Sync THEN "syncing" ELSE "installed", "quotas",
       [Unread EXCEPT !.row = fact.row, !.now = clock])

ReadQuotas(t) == Read(t, "quotas", "metrics", [view[t] EXCEPT !.quotas = fact.quotas])

ReadMetrics(t) ==
  Read(t, "metrics", "budget",
       [view[t] EXCEPT !.metrics = Rollups(fact.events), !.hits = fact.hits])

ReadBudget(t) == Read(t, "budget", "rules", [view[t] EXCEPT !.budget = budget])

ReadRules(t) ==
  /\ phase[t] = "rules"
  /\ copy' = [copy EXCEPT ![t] = rules]
  /\ phase' = [phase EXCEPT ![t] = "each"]
  /\ UNCHANGED <<stored, fact, clock, view, changed, seen, changes>>

StateOf(rule, v) == IF Triggered(rule, v) THEN "triggered" ELSE "normal"

\* What is written back is the rule as it was read, with another state.
\* Variants: a trigger ends the suppression; a rule stays triggered.
WrittenUnsuppressed(rule, v) == [rule EXCEPT !.state = StateOf(rule, v), !.until = None]
WrittenLatched(rule, v) ==
  [rule EXCEPT !.state = IF @ = "triggered" THEN @ ELSE StateOf(rule, v)]

Written(rule, v) == [rule EXCEPT !.state = StateOf(rule, v)]

Rest(t, i) == [j \in DOMAIN copy[t] \ {i} |-> copy[t][j]]

\* One iteration of the loop: skip a suppressed or an unchanged rule, else
\* write it.  The rules come in the order of their kinds, those of one kind in any.
EvaluateRule(t) == \E i \in DOMAIN copy[t] :
  LET rule == copy[t][i]
      new  == Written(rule, view[t])
      keep == Suppressed(rule, view[t].now) \/ new.state = rule.state
  IN /\ phase[t] = "each"
     /\ \A j \in DOMAIN copy[t] : KindOrder[rule.kind] <= KindOrder[copy[t][j].kind]
     /\ copy' = [copy EXCEPT ![t] = Rest(t, i)]
     /\ IF keep
        THEN UNCHANGED <<rules, changed>> /\ edited' = [edited EXCEPT ![t] = @ \ {i}]
        ELSE /\ Upsert(i, new) /\ changed' = [changed EXCEPT ![t] = @ \cup {i}]
             /\ edited' = [u \in Task |->
                  IF u = t THEN edited[t] \ {i}
                  ELSE IF UserPart(new) = UserPart(rules[i]) THEN edited[u]
                  ELSE edited[u] \cup (DOMAIN copy[u] \cap {i})]
     /\ UNCHANGED <<budget, fact, clock, phase, view, handmade, raced, changes>>

\* A database call fails: the evaluation, or the installation of a budget, ends where
\* it is, and what was collected is notified by nobody.
TaskFails(t) ==
  /\ phase[t] \notin {"idle", "syncing"} /\ changes < MaxChanges
  /\ changes' = changes + 1
  /\ phase' = [phase EXCEPT ![t] = "idle"] /\ view' = [view EXCEPT ![t] = Unread]
  /\ copy' = [copy EXCEPT ![t] = NoRules] /\ changed' = [changed EXCEPT ![t] = {}]
  /\ edited' = [edited EXCEPT ![t] = {}]
  /\ UNCHANGED <<stored, fact, clock, handmade, raced>>

\* The synchronisation hands the changed rules to notifications::deliver,
\* which announces the triggered ones; budgets/set drops them.
Finish(t) ==
  /\ phase[t] = "each" /\ DOMAIN copy[t] = {}
  /\ phase' = [phase EXCEPT ![t] = "idle"] /\ view' = [view EXCEPT ![t] = Unread]
  /\ changed' = [changed EXCEPT ![t] = {}]
  /\ UNCHANGED <<stored, fact, clock, copy, seen, changes>>

(***************************************************************************)
(* budgets/set                                                             *)
(***************************************************************************)
\* set_budget: ON CONFLICT(connection_id) DO UPDATE
SetBudget(t, b) ==
  /\ t \in Call /\ phase[t] = "idle" /\ changes < MaxChanges
  /\ budget' = b /\ changes' = changes + 1
  /\ raced' = \/ raced \/ b.warning = b.critical
               \/ \E u \in Call \ {t} : phase[u] \in {"listing", "warning", "critical"}
  /\ phase' = [phase EXCEPT ![t] = "listing"]
  /\ view' = [view EXCEPT ![t] = [Unread EXCEPT !.budget = b]]
  /\ UNCHANGED <<rules, fact, clock, copy, changed, edited, handmade>>

\* let existing = repo.alerts(..)
ListExisting(t) ==
  /\ phase[t] = "listing"
  /\ copy' = [copy EXCEPT ![t] = rules]
  /\ phase' = [phase EXCEPT ![t] = "warning"]
  /\ UNCHANGED <<stored, fact, clock, view, changed, seen, changes>>

\* Variant: a rule is installed without a look at the existing ones.
Missing(t, threshold) == TRUE
Installs(t, threshold) ==
  \A i \in DOMAIN copy[t] :
    copy[t][i].kind # "cost_budget_ratio" \/ copy[t][i].threshold # threshold

\* One iteration over [warning_ratio, critical_ratio]; the list read before
\* is not read again.
InstallBudgetRule(t) ==
  LET critical  == phase[t] = "critical"
      threshold == IF critical THEN view[t].budget.critical ELSE view[t].budget.warning
  IN /\ phase[t] \in {"warning", "critical"}
     /\ IF Installs(t, threshold)
        THEN \E i \in RuleId \ DOMAIN rules :
               /\ 1..(i - 1) \subseteq DOMAIN rules
               /\ Upsert(i, NewRule("cost_budget_ratio", threshold))
        ELSE UNCHANGED rules
     /\ phase' = [phase EXCEPT ![t] = IF critical THEN "installed" ELSE "critical"]
     /\ IF critical
        THEN copy' = [copy EXCEPT ![t] = NoRules] /\ edited' = [edited EXCEPT ![t] = {}]
        ELSE UNCHANGED <<copy, edited>>
     /\ UNCHANGED <<budget, fact, clock, view, changed, handmade, raced, changes>>

(***************************************************************************)
(* alerts/upsert: a client writes a whole rule of any kind, threshold and  *)
(* state, in the place of one there is or under an identifier of its own.  *)
(* Nothing is compared with the other rules.                               *)
(***************************************************************************)
UpsertByUser(i, rule) ==
  /\ changes < MaxChanges /\ changes' = changes + 1
  /\ 1..(i - 1) \subseteq DOMAIN rules
  /\ Upsert(i, rule)
  /\ edited' = [t \in Task |-> edited[t] \cup (DOMAIN copy[t] \cap {i})]
  /\ handmade' = IF Share(rule) = (IF i \in DOMAIN rules THEN Share(rules[i]) ELSE None)
                 THEN handmade ELSE handmade \cup {i}
  /\ UNCHANGED <<budget, fact, clock, phase, view, copy, changed, raced>>

\* A synchronisation or the relay proxy commits, or only time passes.
CommitFacts ==
  /\ changes < MaxChanges /\ changes' = changes + 1
  /\ fact' \in Fact \ {fact}
  /\ UNCHANGED <<stored, clock, phase, view, copy, changed, seen>>

Tick == clock < MaxClock /\ clock' = clock + 1
        /\ UNCHANGED <<stored, fact, phase, view, copy, changed, seen, changes>>

Step(t) ==
  \/ ReadConnection(t) \/ ReadQuotas(t) \/ ReadMetrics(t) \/ ReadBudget(t) \/ ReadRules(t)
  \/ EvaluateRule(t) \/ Finish(t) \/ ListExisting(t) \/ InstallBudgetRule(t)

AlertNext ==
  \/ StartSync \/ GiveUp
  \/ \E t \in Task : Step(t) \/ TaskFails(t) \/ \E b \in Budget : SetBudget(t, b)
  \/ \E i \in RuleId, rule \in UserRule : UpsertByUser(i, rule)
  \/ CommitFacts \/ Tick

\* A task is never suspended for ever, and a synchronisation under way ends in an
\* evaluation or without; while the connection is scheduled the next one starts when
\* it is due; time passes.
AlertSpec ==
  /\ Init /\ [][AlertNext]_vars
  /\ \A t \in Task : WF_vars(Step(t) \/ (t = Sync /\ GiveUp))
  /\ WF_vars(SyncWhenDue) /\ WF_vars(Tick)

-----------------------------------------------------------------------------
\* Type invariant.
AlertTypeOK ==
  /\ DOMAIN rules \subseteq RuleId /\ \A i \in DOMAIN rules : rules[i] \in Rule
  /\ budget \in Budget \cup {None} /\ fact \in Fact
  /\ handmade \subseteq DOMAIN rules
  /\ clock \in 0..MaxClock /\ changes \in 0..MaxChanges /\ raced \in BOOLEAN
  /\ phase \in [Task -> {"idle", "syncing", "quotas", "metrics", "budget", "rules", "each",
                         "listing", "warning", "critical", "installed"}]
  /\ \A t \in Task : /\ DOMAIN copy[t] \subseteq DOMAIN rules
                     /\ changed[t] \cup edited[t] \subseteq DOMAIN rules

\* An evaluation, which writes rules back whole, changes what the user has
\* decided of a rule - its kind, its threshold, its suppression - only when that was
\* changed after the evaluation had read the rules (alerts.rs:37, 117).
EditsSurvive ==
  [][\A t \in Task : \A i \in DOMAIN copy[t] \ edited[t] :
       i \notin DOMAIN copy'[t] => UserPart(rules'[i]) = UserPart(rules[i])]_vars

\* However often a budget is set, budgets/set makes one rule for each of its
\* thresholds: two rules of one threshold are there only if the user has given one of
\* them that threshold, or has taken it from one, by alerts/upsert (ipc.rs:323-329),
\* which compares nothing, or if two budgets/set calls were installing rules at once
\* or a budget's warning and critical ratio were the same, for the list of rules is
\* read once (ipc.rs:219-238).
OneRulePerThreshold ==
  ~raced => \A i, j \in DOMAIN rules \ handmade :
              Share(rules[i]) # None /\ Share(rules[i]) = Share(rules[j]) => i = j

\* When the facts and the user's settings stop changing, every rule that is
\* not suppressed comes to the state its condition gives, whatever state the user has
\* stored and although the last to write it may be an evaluation of older facts -
\* of a connection that stays scheduled (scheduler.rs:647-653) and whose
\* synchronisations do not from some time on all give up before they evaluate
\* (scheduler.rs:296-330, 360-362).
Current == [row |-> fact.row, quotas |-> fact.quotas, metrics |-> Rollups(fact.events),
            hits |-> fact.hits, budget |-> budget, now |-> clock]

Settled ==
  \A i \in DOMAIN rules :
    Suppressed(rules[i], clock) \/ rules[i].state = StateOf(rules[i], Current)

SyncsSucceed == []<>(phase[Sync] = "syncing") => []<>(phase[Sync] = "quotas")

AlertsConverge == <>[]Scheduled /\ SyncsSucceed => <>[]Settled

\* A rule on the budget triggers when the month's charges have reached its
\* share of the budget, not earlier (llm-meter-architecture-v0.1.md:2134); each
\* charge is in one row without a model.
Charged(rows) ==
  MapThenSumSet(LAMBDA r : r.charge, {r \in rows : r.day \in Month /\ r.model = None})

BudgetCountsOnce ==
  [][\A t \in Task : \A i \in changed'[t] \ changed[t] :
       rules'[i].kind = "cost_budget_ratio" /\ rules'[i].state = "triggered" =>
         Charged(view[t].metrics) * 100 >= rules'[i].threshold * view[t].budget.amount]_vars
=============================================================================
