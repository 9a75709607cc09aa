-------------------------- MODULE AlertEngine_proofs --------------------------
(***************************************************************************)
(* Proofs about AlertEngine for any rules, facts, budgets and number of    *)
(* budgets/set calls.                                                      *)
(*                                                                         *)
(* A task writes back the rules it has read.  What it has read of a rule   *)
(* and not yet dealt with is what the user has decided of it, unless the   *)
(* user has edited it since; and a rule waits for the share of the budget  *)
(* it was made for, unless the user has written another, so that an        *)
(* installer's list of the rules the user has not written stays complete.  *)
(***************************************************************************)
EXTENDS AlertEngine, TLAPS

USE DEF Task

Installing == {"listing", "warning", "critical"}

\* Functions on the tasks, and rules that are rules
AlertShape ==
  /\ phase = [t \in Task |-> phase[t]] /\ view = [t \in Task |-> view[t]]
  /\ copy = [t \in Task |-> copy[t]] /\ changed = [t \in Task |-> changed[t]]
  /\ edited = [t \in Task |-> edited[t]]
  /\ \A t \in Task : phase[t] \in Installing => t \in Call /\ view[t].budget \in Budget
  /\ \A t \in Task : \A i \in DOMAIN copy[t] : copy[t][i] \in Rule

RulesOK == DOMAIN rules \subseteq RuleId /\ \A i \in DOMAIN rules : rules[i] \in Rule

CountersOK ==
  /\ clock \in 0..MaxClock /\ changes \in 0..MaxChanges /\ raced \in BOOLEAN
  /\ budget \in Budget \cup {None} /\ fact \in Fact

PhasesOK == phase \in [Task -> {"idle", "syncing", "quotas", "metrics", "budget", "rules", "each",
                               "listing", "warning", "critical", "installed"}]

TasksOK == /\ handmade \subseteq DOMAIN rules
           /\ \A t \in Task : /\ DOMAIN copy[t] \subseteq DOMAIN rules
                             /\ changed[t] \cup edited[t] \subseteq DOMAIN rules

TypeInv == RulesOK /\ CountersOK /\ PhasesOK /\ TasksOK /\ AlertShape

-----------------------------------------------------------------------------
LEMMA Bounds == MaxRules \in Nat /\ MaxClock \in Nat /\ MaxChanges \in Nat /\ UserRule \subseteq Rule
BY AlertAssumption

LEMMA BudgetNats ==
  ASSUME NEW b \in Budget PROVE b.warning \in Nat /\ b.critical \in Nat
BY AlertAssumption

LEMMA WrittenIsRule ==
  ASSUME NEW rule \in Rule, NEW v
  PROVE  /\ Written(rule, v) \in Rule
         /\ Written(rule, v).kind = rule.kind
         /\ Written(rule, v).threshold = rule.threshold
         /\ Written(rule, v).until = rule.until
         /\ Share(Written(rule, v)) = Share(rule)
<1>1. StateOf(rule, v) \in {"normal", "triggered"}
  BY DEF StateOf
<1> QED BY <1>1 DEF Written, Rule, Share

LEMMA NoRulesDomain == DOMAIN NoRules = {}
BY DEF NoRules

LEMMA NewRuleIsRule ==
  ASSUME NEW kind \in Kind, NEW threshold \in Nat
  PROVE  /\ NewRule(kind, threshold) \in Rule
         /\ NewRule(kind, threshold).kind = kind
         /\ NewRule(kind, threshold).threshold = threshold
BY DEF NewRule, Rule

LEMMA TypeInvIsTypeOK == TypeInv <=> AlertTypeOK /\ AlertShape
BY DEF TypeInv, AlertTypeOK, RulesOK, CountersOK, PhasesOK, TasksOK

LEMMA InitTypeInv == Init => TypeInv
<1> SUFFICES ASSUME Init PROVE TypeInv
  OBVIOUS
<1>1. RulesOK
  BY NewRuleIsRule, AlertAssumption DEF Init, InstallDefaults, RulesOK
<1>2. CountersOK
  <2>1. 0 \in 0..MaxClock /\ 0 \in 0..MaxChanges
    BY Bounds
  <2> QED BY <2>1 DEF Init, CountersOK
<1>3. PhasesOK
  BY DEF Init, PhasesOK
<1>4. TasksOK
  BY NoRulesDomain DEF Init, TasksOK
<1>5. AlertShape
  BY NoRulesDomain DEF Init, AlertShape, Installing
<1> QED BY <1>1, <1>2, <1>3, <1>4, <1>5 DEF TypeInv

LEMMA CountersStep ==
  ASSUME CountersOK, [AlertNext]_vars
  PROVE  CountersOK'
<1> USE Bounds DEF CountersOK, stored, seen
<1>1. ASSUME NEW t \in Task, Step(t) PROVE CountersOK'
  BY <1>1 DEF Step, Read, ReadConnection, ReadQuotas, ReadMetrics, ReadBudget, ReadRules,
              EvaluateRule, Finish, ListExisting, InstallBudgetRule
<1>2. ASSUME NEW t \in Task, TaskFails(t) PROVE CountersOK'
  BY <1>2 DEF TaskFails
<1>3. ASSUME NEW t \in Task, NEW b \in Budget, SetBudget(t, b) PROVE CountersOK'
  BY <1>3 DEF SetBudget
<1>4. ASSUME NEW i \in RuleId, NEW rule \in UserRule, UpsertByUser(i, rule) PROVE CountersOK'
  BY <1>4 DEF UpsertByUser
<1>5. CASE StartSync \/ GiveUp \/ CommitFacts
  BY <1>5 DEF StartSync, GiveUp, CommitFacts
<1>6. CASE Tick
  BY <1>6 DEF Tick
<1>7. CASE UNCHANGED vars
  BY <1>7 DEF vars
<1> QED BY <1>1, <1>2, <1>3, <1>4, <1>5, <1>6, <1>7 DEF AlertNext

-----------------------------------------------------------------------------
LEMMA TypeStep ==
  ASSUME TypeInv, [AlertNext]_vars
  PROVE  TypeInv'
<1> USE DEF RulesOK, PhasesOK, TasksOK, AlertShape, stored, seen
<1> SUFFICES ASSUME RulesOK, PhasesOK, TasksOK, AlertShape, CountersOK'
             PROVE  (RulesOK /\ PhasesOK /\ TasksOK /\ AlertShape)'
  BY CountersStep DEF TypeInv
<1> DEFINE Typed == RulesOK /\ PhasesOK /\ TasksOK /\ AlertShape
<1>1. ASSUME NEW t \in Task, NEW from, NEW to \in {"quotas", "metrics", "budget", "rules"},
             NEW what, Read(t, from, to, what)
      PROVE  Typed'
  BY <1>1 DEF Read, Installing
<1>2. ASSUME NEW t \in Task,
             \/ ReadConnection(t) \/ ReadQuotas(t) \/ ReadMetrics(t) \/ ReadBudget(t)
      PROVE  Typed'
  BY <1>1, <1>2 DEF ReadConnection, ReadQuotas, ReadMetrics, ReadBudget
<1>3. ASSUME NEW t \in Task, ReadRules(t) PROVE Typed'
  BY <1>3 DEF ReadRules, Installing
<1>4. ASSUME NEW t \in Task, EvaluateRule(t) PROVE Typed'
  <2>1. PICK i \in DOMAIN copy[t] :
          /\ phase[t] = "each" /\ copy' = [copy EXCEPT ![t] = Rest(t, i)]
          /\ \/ UNCHANGED <<rules, changed>> /\ edited' = [edited EXCEPT ![t] = @ \ {i}]
             \/ /\ Upsert(i, Written(copy[t][i], view[t]))
                /\ changed' = [changed EXCEPT ![t] = @ \cup {i}]
                /\ edited' = [u \in Task |->
                     IF u = t THEN edited[t] \ {i}
                     ELSE IF UserPart(Written(copy[t][i], view[t])) = UserPart(rules[i])
                          THEN edited[u] ELSE edited[u] \cup (DOMAIN copy[u] \cap {i})]
          /\ UNCHANGED <<budget, fact, clock, phase, view, handmade, raced, changes>>
    BY <1>4 DEF EvaluateRule
  <2>2. i \in DOMAIN rules /\ Written(copy[t][i], view[t]) \in Rule
    BY WrittenIsRule
  <2>3. /\ DOMAIN copy'[t] \subseteq DOMAIN copy[t]
        /\ \A j \in DOMAIN copy'[t] : copy'[t][j] \in Rule
    BY <2>1 DEF Rest
  <2>4. CASE UNCHANGED <<rules, changed>> /\ edited' = [edited EXCEPT ![t] = @ \ {i}]
    BY <2>1, <2>3, <2>4
  <2>5. CASE /\ Upsert(i, Written(copy[t][i], view[t]))
             /\ changed' = [changed EXCEPT ![t] = @ \cup {i}]
             /\ edited' = [u \in Task |->
                  IF u = t THEN edited[t] \ {i}
                  ELSE IF UserPart(Written(copy[t][i], view[t])) = UserPart(rules[i])
                       THEN edited[u] ELSE edited[u] \cup (DOMAIN copy[u] \cap {i})]
    <3>1. DOMAIN rules' = DOMAIN rules
      BY <2>2, <2>5 DEF Upsert
    <3>2. \A j \in DOMAIN rules : rules'[j] \in Rule
      BY <2>2, <2>5 DEF Upsert
    <3>3. ASSUME NEW u \in Task PROVE changed'[u] \subseteq DOMAIN rules
      BY <2>2, <2>5
    <3>4. ASSUME NEW u \in Task PROVE edited'[u] \subseteq DOMAIN rules
      <4>1. edited'[u] \subseteq edited[u] \cup {i} BY <2>5
      <4> QED BY <2>2, <4>1
    <3>5. (PhasesOK /\ AlertShape)'
      BY <2>1, <2>3, <2>5
    <3> QED BY <2>1, <2>3, <3>1, <3>2, <3>3, <3>4, <3>5
  <2> QED BY <2>1, <2>4, <2>5
<1>5. ASSUME NEW t \in Task, TaskFails(t) PROVE Typed'
  BY <1>5, NoRulesDomain DEF TaskFails, Installing
<1>6. ASSUME NEW t \in Task, Finish(t) PROVE Typed'
  BY <1>6 DEF Finish, Installing
<1>7. ASSUME NEW t \in Task, NEW b \in Budget, SetBudget(t, b) PROVE Typed'
  BY <1>7 DEF SetBudget, Installing, Unread
<1>8. ASSUME NEW t \in Task, ListExisting(t) PROVE Typed'
  BY <1>8 DEF ListExisting, Installing
<1>9. ASSUME NEW t \in Task, InstallBudgetRule(t) PROVE Typed'
  <2> DEFINE threshold == IF phase[t] = "critical" THEN view[t].budget.critical
                          ELSE view[t].budget.warning
             rule == NewRule("cost_budget_ratio", threshold)
  <2>1. /\ phase[t] \in {"warning", "critical"}
        /\ \/ UNCHANGED rules
           \/ \E i \in RuleId \ DOMAIN rules : Upsert(i, rule)
        /\ phase' = [phase EXCEPT ![t] = IF phase[t] = "critical" THEN "installed"
                                         ELSE "critical"]
        /\ \/ UNCHANGED <<copy, edited>>
           \/ /\ copy' = [copy EXCEPT ![t] = NoRules]
              /\ edited' = [edited EXCEPT ![t] = {}]
        /\ UNCHANGED <<budget, fact, clock, view, changed, handmade, raced, changes>>
    BY <1>9 DEF InstallBudgetRule
  <2>2. t \in Call /\ rule \in Rule
    <3>1. t \in Call /\ view[t].budget \in Budget
      BY <2>1 DEF Installing
    <3>2. threshold \in Nat
      BY <3>1, BudgetNats
    <3> QED BY <3>1, <3>2, NewRuleIsRule DEF Kind, KindOrder
  <2>3. /\ DOMAIN rules \subseteq DOMAIN rules' /\ DOMAIN rules' \subseteq RuleId
        /\ \A j \in DOMAIN rules' : rules'[j] \in Rule
    BY <2>1, <2>2 DEF Upsert
  <2>4. (RulesOK /\ PhasesOK /\ TasksOK)'
    BY <2>1, <2>3, NoRulesDomain
  <2>5. AlertShape'
    BY <2>1, <2>2, NoRulesDomain DEF Installing
  <2> QED BY <2>4, <2>5
<1>10. ASSUME NEW i \in RuleId, NEW rule \in UserRule, UpsertByUser(i, rule) PROVE Typed'
  <2>1. /\ Upsert(i, rule)
        /\ edited' = [t \in Task |-> edited[t] \cup (DOMAIN copy[t] \cap {i})]
        /\ handmade' \subseteq handmade \cup {i}
        /\ UNCHANGED <<budget, fact, clock, phase, view, copy, changed, raced>>
    BY <1>10 DEF UpsertByUser
  <2>2. /\ DOMAIN rules' = DOMAIN rules \cup {i}
        /\ \A j \in DOMAIN rules' : rules'[j] \in Rule
    BY <2>1, Bounds DEF Upsert
  <2> QED BY <2>1, <2>2
<1>11. CASE StartSync \/ GiveUp \/ CommitFacts
  BY <1>11 DEF StartSync, GiveUp, CommitFacts, Installing
<1>12. CASE Tick
  BY <1>12 DEF Tick
<1>13. CASE UNCHANGED vars
  BY <1>13 DEF vars
<1> QED
  BY <1>2, <1>3, <1>4, <1>5, <1>6, <1>7, <1>8, <1>9, <1>10, <1>11, <1>12, <1>13
  DEF AlertNext, Step

THEOREM AlertTypeCorrect == AlertSpec => []AlertTypeOK
<1>1. Init => TypeInv
  BY InitTypeInv
<1>2. TypeInv /\ [AlertNext]_vars => TypeInv'
  BY TypeStep
<1>3. TypeInv => AlertTypeOK
  BY TypeInvIsTypeOK
<1> QED BY <1>1, <1>2, <1>3, PTL DEF AlertSpec

-----------------------------------------------------------------------------
(***************************************************************************)
(* What a step does to the rules, to those read and to those edited.       *)
(***************************************************************************)
\* No rule is written; what a task has read stays, is given up, or is the rules
\* there are.
Quiet ==
  /\ UNCHANGED rules
  /\ \A u \in Task : \/ copy'[u] = copy[u] /\ edited'[u] = edited[u]
                     \/ copy'[u] = rules
                     \/ copy'[u] = NoRules

Drops(t, i) ==
  /\ UNCHANGED rules /\ copy' = [copy EXCEPT ![t] = Rest(t, i)]
  /\ edited' = [edited EXCEPT ![t] = @ \ {i}]

Writes(t, i) ==
  LET new == Written(copy[t][i], view[t])
  IN /\ Upsert(i, new) /\ copy' = [copy EXCEPT ![t] = Rest(t, i)]
     /\ edited' = [u \in Task |->
          IF u = t THEN edited[t] \ {i}
          ELSE IF UserPart(new) = UserPart(rules[i]) THEN edited[u]
          ELSE edited[u] \cup (DOMAIN copy[u] \cap {i})]

LEMMA Evaluates ==
  ASSUME NEW t \in Task, EvaluateRule(t)
  PROVE  \E i \in DOMAIN copy[t] : Drops(t, i) \/ Writes(t, i)
BY DEF EvaluateRule, Drops, Writes

LEMMA QuietSteps ==
  ASSUME AlertShape, NEW t \in Task,
         \/ ReadConnection(t) \/ ReadQuotas(t) \/ ReadMetrics(t) \/ ReadBudget(t)
         \/ ReadRules(t) \/ Finish(t) \/ ListExisting(t) \/ TaskFails(t)
         \/ \E b \in Budget : SetBudget(t, b)
  PROVE  Quiet
<1> USE DEF Quiet, stored, seen, AlertShape
<1>1. ASSUME \/ ReadConnection(t) \/ ReadQuotas(t) \/ ReadMetrics(t) \/ ReadBudget(t)
             \/ Finish(t)
      PROVE  Quiet
  BY <1>1 DEF Read, ReadConnection, ReadQuotas, ReadMetrics, ReadBudget, Finish
<1>2. ASSUME ReadRules(t) \/ ListExisting(t) PROVE Quiet
  BY <1>2 DEF ReadRules, ListExisting
<1>3. ASSUME TaskFails(t) PROVE Quiet
  BY <1>3 DEF TaskFails
<1>4. ASSUME NEW b \in Budget, SetBudget(t, b) PROVE Quiet
  BY <1>4 DEF SetBudget
<1> QED BY <1>1, <1>2, <1>3, <1>4

-----------------------------------------------------------------------------
\* What a task has read of a rule and not dealt with is what the user has
\* decided of it, unless it has been edited.
EditsKnown ==
  \A t \in Task : \A i \in DOMAIN copy[t] \ edited[t] :
    UserPart(copy[t][i]) = UserPart(rules[i])

EditsInv == TypeInv /\ EditsKnown

\* The step of EditsSurvive
KeepsEdits ==
  \A t \in Task : \A i \in DOMAIN copy[t] \ edited[t] :
    i \notin DOMAIN copy'[t] => UserPart(rules'[i]) = UserPart(rules[i])

LEMMA QuietKeepsEdits ==
  ASSUME EditsKnown, Quiet
  PROVE  EditsKnown' /\ KeepsEdits
BY NoRulesDomain DEF EditsKnown, Quiet, KeepsEdits, UserPart

LEMMA EvaluationKeepsEdits ==
  ASSUME EditsInv, NEW t \in Task, EvaluateRule(t)
  PROVE  EditsKnown' /\ KeepsEdits
<1> USE DEF EditsInv, TypeInv
<1>1. PICK i \in DOMAIN copy[t] : Drops(t, i) \/ Writes(t, i)
  BY Evaluates
<1>2. /\ i \in DOMAIN rules /\ \A u \in Task : DOMAIN copy[u] \subseteq DOMAIN rules
      /\ copy[t][i] \in Rule
  BY DEF TasksOK, AlertShape
<1>3. copy'[t] = Rest(t, i) /\ \A u \in Task \ {t} : copy'[u] = copy[u]
  BY <1>1 DEF Drops, Writes, AlertShape
<1>4. /\ DOMAIN copy'[t] = DOMAIN copy[t] \ {i}
      /\ \A j \in DOMAIN copy'[t] : copy'[t][j] = copy[t][j]
  BY <1>3 DEF Rest
<1>5. edited'[t] = edited[t] \ {i}
  BY <1>1 DEF Drops, Writes, AlertShape
<1>6. CASE Drops(t, i)
  <2>1. UNCHANGED rules /\ \A u \in Task \ {t} : edited'[u] = edited[u]
    BY <1>6 DEF Drops, AlertShape
  <2> QED BY <1>3, <1>4, <1>5, <2>1 DEF EditsKnown, KeepsEdits, UserPart
<1>7. CASE Writes(t, i)
  <2> DEFINE new == Written(copy[t][i], view[t])
  <2>1. UserPart(new) = UserPart(copy[t][i])
    BY <1>2, WrittenIsRule DEF UserPart
  <2>2. rules'[i] = new /\ \A j \in DOMAIN rules \ {i} : rules'[j] = rules[j]
    BY <1>7, <1>2 DEF Writes, Upsert
  <2>3. \A u \in Task \ {t} : IF UserPart(new) = UserPart(rules[i])
                             THEN edited'[u] = edited[u]
                             ELSE edited'[u] = edited[u] \cup (DOMAIN copy[u] \cap {i})
    BY <1>7 DEF Writes
  <2> HIDE DEF new
  <2>4. ASSUME NEW u \in Task, NEW j \in DOMAIN copy'[u] \ edited'[u]
        PROVE  UserPart(copy'[u][j]) = UserPart(rules'[j])
    <3>1. CASE u = t
      BY <3>1, <1>2, <1>4, <1>5, <2>2 DEF EditsKnown, UserPart
    <3>2. CASE u # t /\ j # i
      BY <3>2, <1>2, <1>3, <2>2, <2>3 DEF EditsKnown, UserPart
    <3>3. CASE u # t /\ j = i
      <4>1. UserPart(new) = UserPart(rules[i]) /\ edited'[u] = edited[u]
        BY <3>3, <1>3, <2>3
      <4> QED BY <3>3, <4>1, <1>3, <2>2 DEF EditsKnown, UserPart
    <3> QED BY <3>1, <3>2, <3>3
  <2>5. ASSUME NEW u \in Task, NEW j \in DOMAIN copy[u] \ edited[u], j \notin DOMAIN copy'[u]
        PROVE  UserPart(rules'[j]) = UserPart(rules[j])
    <3>1. u = t /\ j = i
      BY <2>5, <1>3, <1>4
    <3> QED BY <3>1, <2>1, <2>2 DEF EditsKnown, UserPart
  <2> QED BY <2>4, <2>5 DEF EditsKnown, KeepsEdits
<1> QED BY <1>1, <1>6, <1>7

LEMMA EditsStep ==
  ASSUME EditsInv, [AlertNext]_vars
  PROVE  EditsInv' /\ KeepsEdits
<1>0. TypeInv' /\ TasksOK /\ AlertShape /\ EditsKnown
  BY TypeStep DEF EditsInv, TypeInv
<1> SUFFICES EditsKnown' /\ KeepsEdits
  BY <1>0 DEF EditsInv
<1>1. ASSUME NEW t \in Task,
             \/ ReadConnection(t) \/ ReadQuotas(t) \/ ReadMetrics(t) \/ ReadBudget(t)
             \/ ReadRules(t) \/ Finish(t) \/ ListExisting(t) \/ TaskFails(t)
             \/ \E b \in Budget : SetBudget(t, b)
      PROVE  EditsKnown' /\ KeepsEdits
  BY <1>0, <1>1, QuietSteps, QuietKeepsEdits
<1>2. ASSUME NEW t \in Task, EvaluateRule(t) PROVE EditsKnown' /\ KeepsEdits
  BY <1>2, EvaluationKeepsEdits
<1>3. ASSUME NEW t \in Task, InstallBudgetRule(t) PROVE EditsKnown' /\ KeepsEdits
  <2>1. \A j \in DOMAIN rules : rules'[j] = rules[j]
    BY <1>3 DEF InstallBudgetRule, Upsert
  <2>2. \A u \in Task : \/ copy'[u] = copy[u] /\ edited'[u] = edited[u]
                        \/ copy'[u] = NoRules
    BY <1>0, <1>3 DEF InstallBudgetRule, AlertShape
  <2> QED BY <1>0, <2>1, <2>2, NoRulesDomain DEF EditsKnown, KeepsEdits, TasksOK, UserPart
<1>4. ASSUME NEW i \in RuleId, NEW rule \in UserRule, UpsertByUser(i, rule)
      PROVE  EditsKnown' /\ KeepsEdits
  <2>1. /\ UNCHANGED copy /\ \A j \in DOMAIN rules \ {i} : rules'[j] = rules[j]
        /\ edited' = [t \in Task |-> edited[t] \cup (DOMAIN copy[t] \cap {i})]
    BY <1>4 DEF UpsertByUser, Upsert
  <2> QED BY <1>0, <2>1 DEF EditsKnown, KeepsEdits, TasksOK, UserPart
<1>5. CASE StartSync \/ GiveUp \/ CommitFacts \/ Tick \/ UNCHANGED vars
  <2>1. Quiet
    BY <1>5 DEF StartSync, GiveUp, CommitFacts, Tick, vars, stored, seen, Quiet
  <2> QED BY <1>0, <2>1, QuietKeepsEdits
<1> QED BY <1>1, <1>2, <1>3, <1>4, <1>5 DEF AlertNext, Step

(***************************************************************************)
(* For any rules, any facts and any number of budgets/set calls: an        *)
(* evaluation changes what the user has decided of a rule only when that   *)
(* was changed after the evaluation had read the rules (alerts.rs:37).     *)
(***************************************************************************)
THEOREM EditsSurviveHolds == AlertSpec => EditsSurvive
<1>1. Init => EditsInv
  <2>1. ASSUME Init PROVE EditsKnown
    BY <2>1, NoRulesDomain DEF Init, EditsKnown
  <2> QED BY <2>1, InitTypeInv DEF EditsInv
<1>2. EditsInv /\ [AlertNext]_vars => EditsInv' /\ KeepsEdits
  BY EditsStep
<1>3. KeepsEdits => [\A t \in Task : \A i \in DOMAIN copy[t] \ edited[t] :
                       i \notin DOMAIN copy'[t] => UserPart(rules'[i]) = UserPart(rules[i])]_vars
  BY DEF KeepsEdits
<1> QED BY <1>1, <1>2, <1>3, PTL DEF AlertSpec, EditsSurvive

-----------------------------------------------------------------------------
\* Unless the user has written another, a rule waits for the share it did when it was read.
Lasting ==
  \A t \in Task : \A i \in DOMAIN copy[t] \ handmade : Share(copy[t][i]) = Share(rules[i])

\* The only installer knows every rule of a budget, but the one it has made and
\* those of the user.
Installer ==
  ~raced =>
    /\ \A t, u \in Task : phase[t] \in Installing /\ phase[u] \in Installing => t = u
    /\ \A t \in Task :
         phase[t] \in Installing => view[t].budget.warning # view[t].budget.critical
    /\ \A t \in Task : \A i \in DOMAIN rules \ handmade :
         phase[t] \in {"warning", "critical"} /\ Share(rules[i]) # None =>
           \/ i \in DOMAIN copy[t]
           \/ phase[t] = "critical" /\ Share(rules[i]) = view[t].budget.warning

RuleInv == TypeInv /\ Lasting /\ Installer /\ OneRulePerThreshold

\* No rule but the user's is new or waits for another share than before.
SharesStay ==
  /\ handmade \subseteq handmade' /\ DOMAIN rules \subseteq DOMAIN rules'
  /\ \A i \in DOMAIN rules' \ handmade' :
       Share(rules'[i]) = IF i \in DOMAIN rules THEN Share(rules[i]) ELSE None

LEMMA SharesStayKeep ==
  ASSUME RuleInv, SharesStay, raced' = raced,
         \A t \in Task : \/ copy'[t] = copy[t] \/ copy'[t] = NoRules \/ copy'[t] = rules'
                        \/ \E i \in DOMAIN copy[t] : copy'[t] = Rest(t, i)
  PROVE  Lasting' /\ OneRulePerThreshold'
<1>1. Lasting'
  <2>1. ASSUME NEW t \in Task, NEW i \in DOMAIN copy'[t] \ handmade'
        PROVE  Share(copy'[t][i]) = Share(rules'[i])
    <3>1. CASE copy'[t] = copy[t]
      BY <2>1, <3>1 DEF RuleInv, TypeInv, TasksOK, Lasting, SharesStay
    <3>2. CASE copy'[t] = NoRules
      BY <2>1, <3>2, NoRulesDomain
    <3>3. CASE copy'[t] = rules'
      BY <2>1, <3>3
    <3>4. CASE \E j \in DOMAIN copy[t] : copy'[t] = Rest(t, j)
      <4>1. i \in DOMAIN copy[t] /\ copy'[t][i] = copy[t][i]
        BY <2>1, <3>4 DEF Rest
      <4> QED BY <2>1, <4>1 DEF RuleInv, TypeInv, TasksOK, Lasting, SharesStay
    <3> QED BY <2>1, <3>1, <3>2, <3>3, <3>4
  <2> QED BY <2>1 DEF Lasting
<1>2. OneRulePerThreshold'
  <2>1. ASSUME ~raced', NEW i \in DOMAIN rules' \ handmade', NEW j \in DOMAIN rules' \ handmade',
               Share(rules'[i]) # None, Share(rules'[i]) = Share(rules'[j])
        PROVE  i = j
    <3>1. /\ i \in DOMAIN rules \ handmade /\ j \in DOMAIN rules \ handmade
          /\ Share(rules[i]) = Share(rules'[i]) /\ Share(rules[j]) = Share(rules'[j])
      BY <2>1 DEF SharesStay
    <3> QED BY <2>1, <3>1 DEF RuleInv, OneRulePerThreshold
  <2> QED BY <2>1 DEF OneRulePerThreshold
<1> QED BY <1>1, <1>2

\* An installer that stays where it is keeps what it knows.
LEMMA SharesStayInstaller ==
  ASSUME RuleInv, SharesStay, raced' = raced,
         \A t \in Task : phase'[t] \in Installing =>
            phase'[t] = phase[t] /\ view'[t] = view[t] /\ copy'[t] = copy[t]
  PROVE  Installer'
<1>1. \A i \in DOMAIN rules' \ handmade' : Share(rules'[i]) # None =>
        i \in DOMAIN rules \ handmade /\ Share(rules[i]) = Share(rules'[i])
  BY DEF SharesStay
<1> QED BY <1>1 DEF RuleInv, Installer, Installing

LEMMA InstallerStep ==
  ASSUME RuleInv, NEW t \in Task, InstallBudgetRule(t)
  PROVE  Lasting' /\ Installer' /\ OneRulePerThreshold'
<1> DEFINE threshold == IF phase[t] = "critical" THEN view[t].budget.critical
                        ELSE view[t].budget.warning
           rule == NewRule("cost_budget_ratio", threshold)
<1>1. /\ phase[t] \in {"warning", "critical"} /\ view' = view /\ raced' = raced
      /\ phase' = [phase EXCEPT ![t] = IF phase[t] = "critical" THEN "installed" ELSE "critical"]
      /\ phase[t] = "warning" => copy' = copy
      /\ \A u \in Task : copy'[u] = copy[u] \/ copy'[u] = NoRules
      /\ handmade' = handmade /\ handmade \subseteq DOMAIN rules
  BY DEF InstallBudgetRule, RuleInv, TypeInv, AlertShape, TasksOK
<1>2. \/ ~Installs(t, threshold) /\ rules' = rules
      \/ Installs(t, threshold) /\ \E i \in RuleId \ DOMAIN rules : Upsert(i, rule)
  BY DEF InstallBudgetRule
<1>3. Share(rule) = threshold
  BY DEF NewRule, Share
<1> HIDE DEF rule
<1>4. \A u \in Task : phase'[u] = IF u # t THEN phase[u]
                                ELSE IF phase[t] = "critical" THEN "installed" ELSE "critical"
  BY <1>1 DEF RuleInv, TypeInv, AlertShape
<1>5. CASE rules' = rules
  <2>1. SharesStay
    BY <1>1, <1>5 DEF SharesStay
  <2>2. Lasting' /\ OneRulePerThreshold'
    BY <1>1, <2>1, SharesStayKeep
  <2>3. ASSUME ~raced, phase[t] = "warning", NEW i \in DOMAIN rules \ handmade, Share(rules[i]) # None
        PROVE  i \in DOMAIN copy[t]
    BY <1>1, <2>3 DEF RuleInv, Installer
  <2>4. Installer'
    BY <1>1, <1>4, <1>5, <2>3 DEF RuleInv, Installer, Installing
  <2> QED BY <2>2, <2>4
<1>6. ASSUME Installs(t, threshold), NEW i \in RuleId \ DOMAIN rules, Upsert(i, rule)
      PROVE  Lasting' /\ Installer' /\ OneRulePerThreshold'
  <2>1. /\ DOMAIN rules' = DOMAIN rules \cup {i} /\ rules'[i] = rule /\ i \notin handmade
        /\ \A j \in DOMAIN rules : rules'[j] = rules[j]
    BY <1>1, <1>6 DEF Upsert
  <2>2. Lasting'
    <3>1. \A u \in Task : \A j \in DOMAIN copy'[u] : copy'[u] = copy[u] /\ j \in DOMAIN rules
      BY <1>1, NoRulesDomain DEF RuleInv, TypeInv, TasksOK
    <3> QED BY <1>1, <2>1, <3>1 DEF RuleInv, Lasting
  <2>3. ASSUME ~raced, NEW j \in DOMAIN rules \ handmade, Share(rules[j]) # None,
               Share(rules[j]) = threshold
        PROVE  FALSE
    <3>1. CASE j \in DOMAIN copy[t]
      <4>1. Share(copy[t][j]) = threshold /\ Share(copy[t][j]) # None
        BY <2>3, <3>1 DEF RuleInv, Lasting
      <4>2. copy[t][j].kind = "cost_budget_ratio" /\ copy[t][j].threshold = threshold
        BY <4>1 DEF Share
      <4> QED BY <1>6, <3>1, <4>2 DEF Installs
    <3>2. CASE phase[t] = "critical" /\ Share(rules[j]) = view[t].budget.warning
      BY <1>1, <2>3, <3>2 DEF RuleInv, Installer, Installing
    <3> QED BY <1>1, <2>3, <3>1, <3>2 DEF RuleInv, Installer
  <2>4. OneRulePerThreshold'
    BY <1>1, <1>3, <2>1, <2>3 DEF RuleInv, OneRulePerThreshold
  <2>5. ASSUME ~raced', NEW u \in Task, NEW j \in DOMAIN rules' \ handmade',
               phase'[u] \in {"warning", "critical"}, Share(rules'[j]) # None
        PROVE  \/ j \in DOMAIN copy'[u]
               \/ phase'[u] = "critical" /\ Share(rules'[j]) = view'[u].budget.warning
    <3>1. u = t /\ phase[t] = "warning" /\ phase'[t] = "critical"
      BY <1>1, <1>4, <2>5 DEF RuleInv, Installer, Installing
    <3>2. CASE j = i
      BY <1>1, <1>3, <2>1, <3>1, <3>2
    <3>3. CASE j \in DOMAIN rules
      BY <1>1, <2>1, <2>5, <3>1, <3>3 DEF RuleInv, Installer
    <3> QED BY <2>1, <2>5, <3>2, <3>3
  <2>6. Installer'
    BY <1>1, <1>4, <2>5 DEF RuleInv, Installer, Installing
  <2> QED BY <2>2, <2>4, <2>6
<1> QED BY <1>2, <1>5, <1>6

LEMMA RuleStep ==
  ASSUME RuleInv, [AlertNext]_vars
  PROVE  RuleInv'
<1>0. /\ TypeInv' /\ AlertShape /\ TasksOK
      /\ \A t \in Task : phase[t] \in Installing => t \in Call
  BY TypeStep DEF RuleInv, TypeInv, AlertShape
<1> SUFFICES Lasting' /\ Installer' /\ OneRulePerThreshold'
  BY <1>0 DEF RuleInv
<1> USE DEF stored, seen
<1>1. ASSUME NEW t \in Task,
             \/ ReadConnection(t) \/ ReadQuotas(t) \/ ReadMetrics(t) \/ ReadBudget(t)
             \/ ReadRules(t) \/ Finish(t) \/ TaskFails(t)
      PROVE  Lasting' /\ Installer' /\ OneRulePerThreshold'
  <2>1. /\ UNCHANGED <<rules, raced, handmade>> /\ phase'[t] \notin Installing
        /\ \A u \in Task \ {t} : phase'[u] = phase[u] /\ view'[u] = view[u] /\ copy'[u] = copy[u]
        /\ copy'[t] = copy[t] \/ copy'[t] = rules \/ copy'[t] = NoRules
    BY <1>0, <1>1
    DEF Read, ReadConnection, ReadQuotas, ReadMetrics, ReadBudget, ReadRules, Finish, TaskFails,
        AlertShape, Installing
  <2>2. SharesStay
    BY <2>1 DEF SharesStay
  <2> QED BY <2>1, <2>2, SharesStayKeep, SharesStayInstaller
<1>2. ASSUME NEW t \in Task, EvaluateRule(t)
      PROVE  Lasting' /\ Installer' /\ OneRulePerThreshold'
  <2>1. PICK i \in DOMAIN copy[t] : Drops(t, i) \/ Writes(t, i)
    BY <1>2, Evaluates
  <2>2. /\ phase[t] \notin Installing /\ UNCHANGED <<phase, view, raced, handmade>>
    BY <1>2 DEF EvaluateRule, Installing
  <2>3. copy'[t] = Rest(t, i) /\ \A u \in Task \ {t} : copy'[u] = copy[u]
    BY <1>0, <2>1 DEF Drops, Writes, AlertShape
  <2>4. SharesStay
    <3>1. CASE Drops(t, i)
      BY <2>2, <3>1 DEF Drops, SharesStay
    <3>2. CASE Writes(t, i)
      <4> DEFINE new == Written(copy[t][i], view[t])
      <4>1. i \in DOMAIN rules /\ Share(new) = Share(copy[t][i])
        BY <1>0, WrittenIsRule DEF TasksOK, AlertShape
      <4>2. rules' = [j \in DOMAIN rules \cup {i} |-> IF j = i THEN new ELSE rules[j]]
        BY <3>2 DEF Writes, Upsert
      <4> HIDE DEF new
      <4> QED BY <2>2, <4>1, <4>2 DEF RuleInv, Lasting, SharesStay
    <3> QED BY <2>1, <3>1, <3>2
  <2> QED BY <2>2, <2>3, <2>4, SharesStayKeep, SharesStayInstaller
<1>3. ASSUME NEW t \in Task, NEW b \in Budget, SetBudget(t, b)
      PROVE  Lasting' /\ Installer' /\ OneRulePerThreshold'
  <2>1. /\ UNCHANGED <<rules, copy, handmade>> /\ t \in Call
        /\ phase' = [phase EXCEPT ![t] = "listing"]
        /\ view' = [view EXCEPT ![t] = [Unread EXCEPT !.budget = b]]
        /\ ~raced' => /\ ~raced /\ b.warning # b.critical
                      /\ \A u \in Call \ {t} : phase[u] \notin Installing
    BY <1>3 DEF SetBudget, Installing
  <2>2. Lasting' /\ OneRulePerThreshold'
    BY <2>1 DEF RuleInv, Lasting, OneRulePerThreshold
  <2>3. /\ phase'[t] = "listing" /\ view'[t].budget = b
        /\ \A u \in Task \ {t} : phase'[u] = phase[u] /\ view'[u] = view[u]
    BY <1>0, <2>1 DEF AlertShape, Unread
  <2>4. ~raced' => \A u \in Task : phase'[u] \in Installing => u = t
    BY <1>0, <2>1, <2>3
  <2>5. Installer'
    BY <2>1, <2>3, <2>4 DEF Installer, Installing
  <2> QED BY <2>2, <2>5
<1>4. ASSUME NEW t \in Task, ListExisting(t)
      PROVE  Lasting' /\ Installer' /\ OneRulePerThreshold'
  <2>1. /\ UNCHANGED <<rules, raced, view, handmade>> /\ phase[t] = "listing" /\ phase'[t] = "warning"
        /\ copy'[t] = rules
        /\ \A u \in Task \ {t} : phase'[u] = phase[u] /\ copy'[u] = copy[u]
    BY <1>0, <1>4 DEF ListExisting, AlertShape
  <2>2. SharesStay
    BY <2>1 DEF SharesStay
  <2>3. Installer'
    BY <2>1 DEF RuleInv, Installer, Installing
  <2> QED BY <2>1, <2>2, <2>3, SharesStayKeep
<1>5. ASSUME NEW t \in Task, InstallBudgetRule(t)
      PROVE  Lasting' /\ Installer' /\ OneRulePerThreshold'
  BY <1>5, InstallerStep
<1>6. ASSUME NEW i \in RuleId, NEW rule \in UserRule, UpsertByUser(i, rule)
      PROVE  Lasting' /\ Installer' /\ OneRulePerThreshold'
  <2>1. /\ UNCHANGED <<phase, view, copy, raced>>
        /\ rules' = [j \in DOMAIN rules \cup {i} |-> IF j = i THEN rule ELSE rules[j]]
        /\ handmade' = IF Share(rule) = (IF i \in DOMAIN rules THEN Share(rules[i]) ELSE None)
                       THEN handmade ELSE handmade \cup {i}
    BY <1>6 DEF UpsertByUser, Upsert
  <2>2. SharesStay
    BY <2>1 DEF SharesStay
  <2> QED BY <2>1, <2>2, SharesStayKeep, SharesStayInstaller
<1>7. CASE StartSync \/ GiveUp \/ CommitFacts \/ Tick \/ UNCHANGED vars
  <2>1. /\ UNCHANGED <<rules, view, copy, raced, handmade>>
        /\ \A t \in Task : phase'[t] \in Installing => phase'[t] = phase[t]
    BY <1>0, <1>7 DEF StartSync, GiveUp, CommitFacts, Tick, vars, AlertShape, Installing
  <2>2. SharesStay
    BY <2>1 DEF SharesStay
  <2> QED BY <2>1, <2>2, SharesStayKeep, SharesStayInstaller
<1> QED BY <1>1, <1>2, <1>3, <1>4, <1>5, <1>6, <1>7 DEF AlertNext, Step

(***************************************************************************)
(* For any budgets, any rules the user writes and any number of            *)
(* budgets/set calls and evaluations: budgets/set makes one rule for each  *)
(* of a budget's thresholds (ipc.rs:219-238), unless two calls were        *)
(* installing at once or the two ratios are the same; a second one is      *)
(* there only because the user has written it, or the first                *)
(* (ipc.rs:323-329).                                                       *)
(***************************************************************************)
THEOREM OneRulePerThresholdHolds == AlertSpec => []OneRulePerThreshold
<1>1. Init => RuleInv
  <2>1. ASSUME Init PROVE Lasting /\ Installer /\ OneRulePerThreshold
    <3>1. \A i \in DOMAIN rules : Share(rules[i]) = None
      BY <2>1, AlertAssumption DEF Init, InstallDefaults, NewRule, Share
    <3>2. \A t \in Task : copy[t] = NoRules /\ phase[t] = "idle"
      BY <2>1 DEF Init
    <3> QED BY <3>1, <3>2, NoRulesDomain
      DEF Lasting, Installer, OneRulePerThreshold, Installing
  <2> QED BY <2>1, InitTypeInv DEF RuleInv
<1>2. RuleInv /\ [AlertNext]_vars => RuleInv'
  BY RuleStep
<1>3. RuleInv => OneRulePerThreshold
  BY DEF RuleInv
<1> QED BY <1>1, <1>2, <1>3, PTL DEF AlertSpec
=============================================================================
