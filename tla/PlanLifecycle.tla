---------------------------- MODULE PlanLifecycle ----------------------------
(***************************************************************************)
(* What the plan and trade writers promise (monitor/reader/strategy_plan.py,*)
(* "create -> draft, draft -> intended, ... intended -> filled"): each call *)
(* is one step on the tables, taken when its rule holds.                   *)
(***************************************************************************)
CONSTANTS Plans, Trades, Accounts, Expiries, NoTrade

VARIABLES
    plan,           \* the plan rows
    trade,          \* account of each trade, "none" before it is opened, "gone" after
    tied            \* the trades a review or a fill's attribution names

lifeVars == <<plan, trade, tied>>

Statuses == {"none", "draft", "intended", "filled", "cancelled", "gone"}
Row == [status : Statuses, account : Accounts, legs : BOOLEAN, exit : BOOLEAN,
        expiry : Expiries, trade : Trades \cup {NoTrade}]
Opened == {t \in Trades : trade[t] \in Accounts}

LifeInit ==
    /\ plan \in [Plans -> {r \in Row : r.status = "none" /\ r.trade = NoTrade}]
    /\ trade = [t \in Trades |-> "none"]
    /\ tied = {}

Become(p, status) == plan' = [plan EXCEPT ![p].status = status]

Write(p) ==
    /\ plan[p].status \in {"none", "draft"}
    /\ \E r \in Row :
           /\ r.status = "draft" /\ r.trade = NoTrade
           /\ plan' = [plan EXCEPT ![p] = r]
    /\ UNCHANGED <<trade, tied>>

\* The one thing about an intended plan that may still change.
Extend(p) ==
    /\ plan[p].status \in {"draft", "intended"}
    /\ \E e \in Expiries : plan' = [plan EXCEPT ![p].expiry = e]
    /\ UNCHANGED <<trade, tied>>

Intend(p) ==
    /\ plan[p].status = "draft" /\ plan[p].legs /\ plan[p].exit
    /\ Become(p, "intended")
    /\ UNCHANGED <<trade, tied>>

Fill(p, t) ==
    /\ plan[p].status = "intended" /\ trade[t] = plan[p].account
    /\ plan' = [plan EXCEPT ![p].status = "filled", ![p].trade = t]
    /\ UNCHANGED <<trade, tied>>

Cancel(p) ==
    /\ plan[p].status \in {"draft", "intended"}
    /\ Become(p, "cancelled")
    /\ UNCHANGED <<trade, tied>>

Remove(p) ==
    /\ plan[p].status = "draft"
    /\ Become(p, "gone")
    /\ UNCHANGED <<trade, tied>>

Open(t, a) ==
    /\ trade[t] = "none"
    /\ trade' = [trade EXCEPT ![t] = a]
    /\ UNCHANGED <<plan, tied>>

Close(t) ==
    /\ t \in Opened \ tied
    /\ \A p \in Plans : plan[p].trade # t
    /\ trade' = [trade EXCEPT ![t] = "gone"]
    /\ UNCHANGED <<plan, tied>>

Tie ==
    /\ tied' \subseteq Opened
    /\ UNCHANGED <<plan, trade>>

LifeNext ==
    \/ \E p \in Plans :
           \/ Write(p) \/ Extend(p) \/ Intend(p) \/ Cancel(p) \/ Remove(p)
           \/ \E t \in Trades : Fill(p, t)
    \/ \E t \in Trades : Close(t) \/ \E a \in Accounts : Open(t, a)
    \/ Tie

LifeSpec == LifeInit /\ [][LifeNext]_lifeVars
=============================================================================
