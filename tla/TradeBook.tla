------------------------------ MODULE TradeBook ------------------------------
(***************************************************************************)
(* Plans, trades, reviews and fill attribution in the env database         *)
(* (monitor/reader/strategy_plan.py, strategy_instance.py, trade_review.py; *)
(* tables of persistence/postgres/trade_ddl.py).                           *)
(*                                                                         *)
(* A call is one READ COMMITTED transaction. SELECT ... FOR UPDATE locks a *)
(* plan or a trade; a row that names a trade share-locks it through its    *)
(* foreign key. A lock is held from the step that takes it to the end of   *)
(* the call, so who holds which follows from where each session is.        *)
(***************************************************************************)
EXTENDS Integers

CONSTANTS
    Sessions,       \* callers of the writers
    Plans, Trades,  \* ids; one that was deleted is not used again
    Fills,          \* fills on the account FillAccount
    Accounts, FillAccount,
    Expiries,       \* values of expires_at
    Bodies,         \* what a client sends of the editable columns
    NoTrade

\* The editable columns: legs and exit tell whether there is a leg, a written exit.
Body == [account : Accounts, legs : BOOLEAN, exit : BOOLEAN, expiry : Expiries]

ASSUME BookAssumption ==
    /\ NoTrade \notin Trades
    /\ Accounts \cap {"none", "gone"} = {}
    /\ FillAccount \in Accounts
    /\ Expiries # {}
    /\ Bodies \subseteq Body

VARIABLES
    plan,           \* committed strategy_plan rows
    trade,          \* account of each committed trade row, or "none", "gone"
    review,         \* trades with a trade_review row
    fill,           \* trade each fill is attributed to, or NoTrade
    at,             \* each session's step
    req,            \* its request
    read            \* the plan row it has read under its lock

tables == <<plan, trade, review, fill>>
bookVars == <<tables, at, req, read>>

Life == INSTANCE PlanLifecycle WITH
    tied <- review \cup {t \in Trades : \E f \in Fills : fill[f] = t}

Blank == [status |-> "none", account |-> FillAccount, legs |-> FALSE, exit |-> FALSE,
          expiry |-> CHOOSE e \in Expiries : TRUE, trade |-> NoTrade]

PlanOps == {"create", "edit", "extend", "intend", "link", "cancel", "delete"}
ReferOps == {"link", "review", "save", "attribute"}

\* "edit" is update_plan and patch_plan, "extend" patch_plan with expires_at alone; "save" is save_review, "review"
\* patch_review; "attribute" and "clear" write a fill's row in trade_execution.
Requests ==
         [op : {"create", "edit"}, plan : Plans, body : Bodies]
    \cup [op : {"extend"}, plan : Plans, expiry : Expiries]
    \cup [op : {"intend", "cancel", "delete"}, plan : Plans]
    \cup [op : {"link"}, plan : Plans, trade : Trades]
    \cup [op : {"open"}, trade : Trades, account : Accounts]
    \cup [op : {"close", "review", "save"}, trade : Trades]
    \cup [op : {"attribute"}, fill : Fills, trade : Trades]
    \cup [op : {"clear"}, fill : Fills]
    \cup [op : {"idle"}]

NoReq == [op |-> "idle"]
Live(p) == plan[p].status \notin {"none", "gone"}
Standing(t) == trade[t] \in Accounts

\* Whom a session keeps out: of a plan, of a trade (FOR UPDATE, KEY SHARE), of a fill.
HoldsPlan(s, p) ==
    req[s].op \in PlanOps /\ at[s] \in {"check", "trade", "share", "commit"} /\ req[s].plan = p
HoldsTrade(s, t) == req[s].op = "close" /\ at[s] \in {"count", "erase"} /\ req[s].trade = t
Shares(s, t) == req[s].op \in ReferOps /\ at[s] = "commit" /\ req[s].trade = t
HoldsFill(s, f) == req[s].op \in {"attribute", "clear"} /\ req[s].fill = f
Opens(s, t) == req[s].op = "open" /\ req[s].trade = t

TypeOK ==
    /\ plan \in [Plans -> Life!Row]
    /\ trade \in [Trades -> Accounts \cup {"none", "gone"}]
    /\ review \subseteq Trades
    /\ fill \in [Fills -> Trades \cup {NoTrade}]
    /\ at \in [Sessions -> {"idle", "lock", "check", "trade", "share", "commit",
                            "count", "erase"}]
    /\ req \in [Sessions -> Requests]
    /\ read \in [Sessions -> Life!Row]

Init ==
    /\ plan = [p \in Plans |-> Blank] /\ trade = [t \in Trades |-> "none"]
    /\ review = {} /\ fill = [f \in Fills |-> NoTrade]
    /\ at = [s \in Sessions |-> "idle"] /\ req = [s \in Sessions |-> NoReq]
    /\ read = [s \in Sessions |-> Blank]

Go(s, step) == at' = [at EXCEPT ![s] = step] /\ UNCHANGED <<req, read>>

\* The transaction ends, committed or rolled back, and its locks go.
Over(s) ==
    /\ at' = [at EXCEPT ![s] = "idle"] /\ req' = [req EXCEPT ![s] = NoReq]
    /\ read' = [read EXCEPT ![s] = Blank]

-----------------------------------------------------------------------------
(* Where a call begins. An INSERT draws an id nobody else has.             *)

FirstStep(op) ==
    CASE op = "create" -> "check"
      [] op \in PlanOps \ {"create"} -> "lock"
      [] op = "close" -> "lock"
      [] op \in {"review", "attribute"} -> "trade"
      [] op = "save" -> "share"
      [] op \in {"open", "clear"} -> "commit"

Begin(s, q) ==
    /\ at[s] = "idle" /\ q # NoReq
    /\ q.op = "create" =>
           plan[q.plan].status = "none" /\ \A o \in Sessions : ~HoldsPlan(o, q.plan)
    /\ q.op = "open" => trade[q.trade] = "none" /\ \A o \in Sessions : ~Opens(o, q.trade)
    /\ q.op \in {"attribute", "clear"} => \A o \in Sessions : ~HoldsFill(o, q.fill)
    /\ at' = [at EXCEPT ![s] = FirstStep(q.op)]
    /\ req' = [req EXCEPT ![s] = q]
    /\ read' = IF q.op = "create" THEN [read EXCEPT ![s] = plan[q.plan]] ELSE read
    /\ UNCHANGED tables

-----------------------------------------------------------------------------
(* The plan writers.                                                       *)

ReadPlan(s) ==
    /\ at' = [at EXCEPT ![s] = "check"] /\ UNCHANGED req
    /\ read' = [read EXCEPT ![s] = plan[req[s].plan]]

\* Mutant: the plan is read without FOR UPDATE.
LockPlanNever(s) ==
    /\ at[s] = "lock" /\ req[s].op \in PlanOps
    /\ IF Live(req[s].plan)
       THEN ReadPlan(s)
       ELSE Over(s)
    /\ UNCHANGED tables

\* SELECT ... FOR UPDATE: a row that is not there is not waited for.
LockPlan(s) ==
    /\ at[s] = "lock" /\ req[s].op \in PlanOps
    /\ IF Live(req[s].plan)
       THEN /\ \A o \in Sessions : ~HoldsPlan(o, req[s].plan)
            /\ ReadPlan(s)
       ELSE Over(s)
    /\ UNCHANGED tables

\* Mutant: an intended plan is still edited.
AllowedEdit(q, row) ==
    CASE q.op = "create" -> TRUE
      [] q.op = "delete" -> row.status = "draft"
      [] q.op = "intend" -> row.status = "draft" /\ row.legs /\ row.exit
      [] q.op \in {"edit", "extend", "cancel"} ->
             row.status \in {"draft", "intended"}

Allowed(q, row) ==
    CASE q.op = "create" -> TRUE
      [] q.op \in {"edit", "delete"} -> row.status = "draft"
      [] q.op = "intend" -> row.status = "draft" /\ row.legs /\ row.exit
      [] q.op \in {"extend", "cancel"} -> row.status \in {"draft", "intended"}

\* What the statement makes of the row it finds.
Edited(q, row) ==
    CASE q.op = "create" -> [status |-> "draft", account |-> q.body.account,
             legs |-> q.body.legs, exit |-> q.body.exit, expiry |-> q.body.expiry,
             trade |-> NoTrade]
      [] q.op = "edit" -> [row EXCEPT !.account = q.body.account,
             !.legs = q.body.legs, !.exit = q.body.exit, !.expiry = q.body.expiry]
      [] q.op = "extend" -> [row EXCEPT !.expiry = q.expiry]
      [] q.op = "intend" -> [row EXCEPT !.status = "intended"]
      [] q.op = "cancel" -> [row EXCEPT !.status = "cancelled"]
      [] q.op = "delete" -> [row EXCEPT !.status = "gone"]

\* The checks, the statement and the commit of every plan writer but link_fill.
WritePlan(s) ==
    LET q == req[s]
    IN  /\ at[s] = "check" /\ q.op \in PlanOps \ {"link"}
        /\ plan' = IF Allowed(q, read[s])
                   THEN [plan EXCEPT ![q.plan] = Edited(q, plan[q.plan])]
                   ELSE plan
        /\ Over(s)
        /\ UNCHANGED <<trade, review, fill>>

\* link_fill takes an intended plan, past its expiry or not.
CheckLink(s) ==
    /\ at[s] = "check" /\ req[s].op = "link"
    /\ IF read[s].status = "intended" THEN Go(s, "trade") ELSE Over(s)
    /\ UNCHANGED tables

-----------------------------------------------------------------------------
(* Rows that name a trade: link_fill's, reviews, fill attribution.         *)

\* The trade is read without a lock. patch_review asks only that it is there.
ReadTrade(s) ==
    LET q == req[s]
    IN  /\ at[s] = "trade" /\ q.op \in {"link", "review", "attribute"}
        /\ IF /\ Standing(q.trade)
              /\ q.op = "link" => trade[q.trade] = read[s].account
              /\ q.op = "attribute" => trade[q.trade] = FillAccount
           THEN Go(s, "share") ELSE Over(s)
        /\ UNCHANGED tables

\* Mutant: no foreign key.
TakeShareBlind(s) ==
    /\ at[s] = "share" /\ req[s].op \in ReferOps
    /\ Go(s, "commit")
    /\ UNCHANGED tables

\* The foreign key of the row written: it waits for a FOR UPDATE, then asks whether
\* the trade is still there. Two first reviews of a trade wait for one another; a
\* review that is there is updated, and its key is not looked at again.
TakeShare(s) ==
    LET q == req[s]
        updates == q.op \in {"review", "save"} /\ q.trade \in review
    IN  /\ at[s] = "share" /\ q.op \in ReferOps
        /\ \A o \in Sessions : ~HoldsTrade(o, q.trade) \/ updates
        /\ q.op \in {"review", "save"} =>
               \A o \in Sessions : ~(Shares(o, q.trade) /\ req[o].op \in {"review", "save"})
        /\ IF Standing(q.trade) THEN Go(s, "commit") ELSE Over(s)
        /\ UNCHANGED tables

Commit(s) ==
    LET q == req[s]
    IN  /\ at[s] = "commit" /\ q.op # "open"
        /\ plan' = IF q.op = "link"
                   THEN [plan EXCEPT ![q.plan].status = "filled", ![q.plan].trade = q.trade]
                   ELSE plan
        /\ review' = IF q.op \in {"review", "save"} THEN review \cup {q.trade} ELSE review
        /\ fill' = IF q.op \in {"attribute", "clear"}
                   THEN [fill EXCEPT ![q.fill] = IF q.op = "clear" THEN NoTrade ELSE q.trade]
                   ELSE fill
        /\ Over(s)
        /\ UNCHANGED trade

-----------------------------------------------------------------------------
(* create_instance_strict and delete_instance_strict.                      *)

OpenTrade(s) ==
    /\ at[s] = "commit" /\ req[s].op = "open"
    /\ trade' = [trade EXCEPT ![req[s].trade] = req[s].account]
    /\ Over(s)
    /\ UNCHANGED <<plan, review, fill>>

LockTrade(s) ==
    LET t == req[s].trade
    IN  /\ at[s] = "lock" /\ req[s].op = "close"
        /\ IF Standing(t)
           THEN /\ \A o \in Sessions : ~HoldsTrade(o, t) /\ ~Shares(o, t)
                /\ Go(s, "count")
           ELSE Over(s)
        /\ UNCHANGED tables

Referenced(t) ==
    t \in review \/ (\E f \in Fills : fill[f] = t) \/ \E p \in Plans : plan[p].trade = t

\* Mutant: the plans that may name the trade are locked as they are counted.
CountLocksPlans(s) ==
    /\ at[s] = "count" /\ req[s].op = "close"
    /\ \A o \in Sessions, p \in Plans : ~HoldsPlan(o, p)
    /\ IF Referenced(req[s].trade) THEN Over(s) ELSE Go(s, "erase")
    /\ UNCHANGED tables

Count(s) ==
    /\ at[s] = "count" /\ req[s].op = "close"
    /\ IF Referenced(req[s].trade) THEN Over(s) ELSE Go(s, "erase")
    /\ UNCHANGED tables

\* The DELETE, which ON DELETE RESTRICT refuses, and the commit.
Erase(s) ==
    LET t == req[s].trade
    IN  /\ at[s] = "erase" /\ req[s].op = "close"
        /\ trade' = IF Referenced(t) THEN trade ELSE [trade EXCEPT ![t] = "gone"]
        /\ Over(s)
        /\ UNCHANGED <<plan, review, fill>>

\* Any statement can fail, and a caller can die: the transaction is rolled back.
Fail(s) ==
    /\ at[s] # "idle"
    /\ Over(s)
    /\ UNCHANGED tables

Step(s) ==
    \/ LockPlan(s) \/ WritePlan(s) \/ CheckLink(s)
    \/ ReadTrade(s) \/ TakeShare(s) \/ Commit(s)
    \/ OpenTrade(s) \/ LockTrade(s) \/ Count(s) \/ Erase(s)

Next == \E s \in Sessions : Step(s) \/ Fail(s) \/ \E q \in Requests : Begin(s, q)

Spec == Init /\ [][Next]_bookVars

\* A caller goes on until its call returns; the server grants locks in turn.
Fairness == \A s \in Sessions : SF_bookVars(Step(s))
FairSpec == Spec /\ Fairness

-----------------------------------------------------------------------------
(* Properties.                                                             *)

\* "a filled plan never loses its instance and a review is never deleted with one":
\* whatever a plan, a review or a fill names is a trade that is still there, and one
\* on the plan's, the fill's account, though the check and the write are apart.
NamesAStandingTrade ==
    /\ review \subseteq {t \in Trades : Standing(t)}
    /\ \A f \in Fills : fill[f] # NoTrade => trade[fill[f]] = FillAccount
    /\ \A p \in Plans : plan[p].trade # NoTrade => trade[plan[p].trade] = plan[p].account

\* "draft -> intended (needs a leg, and a written exit)": no interleaved edit leaves an
\* intended or filled plan with nothing to judge it by.
IntentIsComplete ==
    \A p \in Plans : plan[p].status \in {"intended", "filled"} => plan[p].legs /\ plan[p].exit

\* "Once intended, the content is frozen": only its expiry changes, until the end.
IntentIsFrozen ==
    [][\A p \in Plans : plan[p].status = "intended" =>
           LET old == plan[p]
               new == plan'[p]
           IN  /\ new.status \in {"intended", "filled", "cancelled"}
               /\ <<new.account, new.legs, new.exit>> = <<old.account, old.legs, old.exit>>
      ]_bookVars

\* Every call behaves as one step of the lifecycle, taken at its commit.
LifecycleKept == Life!LifeSpec

\* No two calls wait for one another for ever: locks are taken plan before trade.
EveryCallReturns == \A s \in Sessions : at[s] # "idle" ~> at[s] = "idle"
=============================================================================
