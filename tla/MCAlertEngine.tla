----------------------------- MODULE MCAlertEngine -----------------------------
(* A small instance of AlertEngine: the quota and the month's charges are  *)
(* low or high, the connection is scheduled or waits for the user to log   *)
(* in, a budget is set again and again, and the user at any moment         *)
(* acknowledges and suppresses a rule or writes one on the budget.         *)
EXTENDS AlertEngine

MCDefaults == <<[kind |-> "quota_remaining", threshold |-> 20]>>

MCEvent(d, m, c) == [id |-> <<d, m>>, day |-> d, model |-> m, tokens |-> 1, charge |-> c]

MCFact ==
  {[row |-> [status |-> st, age |-> 0], quotas |-> [remaining |-> {q}, resets |-> {}],
    events |-> evs, hits |-> {}]
     : <<st, q, evs>> \in {<<"ready", 60, {}>>,
                           <<"ready", 15, {MCEvent(1, "m", 30), MCEvent(2, "m", 20)}>>,
                           <<"auth_required", 60, {}>>}}

MCBudget == {[amount |-> 100, warning |-> 80, critical |-> 100]}

MCUserRule ==
  {[kind |-> "quota_remaining", threshold |-> 20, state |-> "acknowledged", until |-> 1],
   [kind |-> "cost_budget_ratio", threshold |-> 80, state |-> "triggered", until |-> None]}
=============================================================================
