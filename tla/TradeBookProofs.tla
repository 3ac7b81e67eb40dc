--------------------------- MODULE TradeBookProofs ---------------------------
(***************************************************************************)
(* Proofs about TradeBook, for every set of sessions, plans, trades, fills  *)
(* and bodies. Locks is the lock discipline the transactions keep: what a   *)
(* session has read under its lock is still so when it writes.             *)
(***************************************************************************)
EXTENDS TradeBook, TLAPS

\* Where the calls of each kind can be.
Placed(s) ==
    /\ at[s] = "lock" => req[s].op \in (PlanOps \ {"create"}) \cup {"close"}
    /\ at[s] = "check" => req[s].op \in PlanOps
    /\ at[s] = "trade" => req[s].op \in {"link", "review", "attribute"}
    /\ at[s] = "share" => req[s].op \in ReferOps
    /\ at[s] = "commit" => req[s].op \in ReferOps \cup {"open", "clear"}
    /\ at[s] \in {"count", "erase"} => req[s].op = "close"

\* The plan a session holds is the one it has read, and nobody else's.
PlanLocks ==
    \A s \in Sessions, p \in Plans : HoldsPlan(s, p) =>
        /\ read[s] = plan[p]
        /\ req[s].op = "create" <=> plan[p].status = "none"
        /\ at[s] # "check" => req[s].op = "link" /\ plan[p].status = "intended"
        /\ \A o \in Sessions : HoldsPlan(o, p) => o = s

\* The trade a session has looked at is still on that account, or is gone.
TradesRead ==
    \A s \in Sessions : at[s] \in {"share", "commit"} =>
        /\ req[s].op = "link" => trade[req[s].trade] \in {read[s].account, "gone"}
        /\ req[s].op = "attribute" => trade[req[s].trade] \in {FillAccount, "gone"}

\* A trade somebody is about to name, or has locked, is there; both at once only
\* when it has a review, which keeps it.
TradeLocks ==
    \A s \in Sessions, t \in Trades :
        /\ Shares(s, t) \/ HoldsTrade(s, t) => Standing(t)
        /\ Shares(s, t) => \A o \in Sessions : HoldsTrade(o, t) => t \in review
        /\ HoldsTrade(s, t) => \A o \in Sessions : HoldsTrade(o, t) => o = s
        /\ Opens(s, t) => trade[t] = "none" /\ \A o \in Sessions : Opens(o, t) => o = s

\* Only a filled plan names a trade.
OnlyFilledNames == \A p \in Plans : plan[p].trade # NoTrade => plan[p].status = "filled"

Locks ==
    /\ \A s \in Sessions : Placed(s)
    /\ PlanLocks /\ TradesRead /\ TradeLocks /\ OnlyFilledNames

BookInv == TypeOK /\ Locks /\ NamesAStandingTrade /\ IntentIsComplete

-----------------------------------------------------------------------------
(* Requests, and what a plan writer makes of a row.                        *)

\* A request names what its operation needs.
LEMMA RequestFields ==
    ASSUME BookAssumption, NEW q \in Requests
    PROVE  /\ q.op \in PlanOps => q.plan \in Plans
           /\ q.op \in ReferOps \cup {"open", "close"} => q.trade \in Trades
           /\ q.op \in {"attribute", "clear"} => q.fill \in Fills
           /\ q.op \in {"create", "edit"} => q.body \in Body
           /\ q.op = "extend" => q.expiry \in Expiries
           /\ q.op = "open" => q.account \in Accounts
           /\ q.op \in PlanOps \cup ReferOps \cup {"open", "close", "clear", "idle"}
BY DEF Requests, PlanOps, ReferOps, BookAssumption

\* An allowed write keeps a row a row, and is one of the five the lifecycle has.
LEMMA EditedRow ==
    ASSUME BookAssumption, NEW q \in Requests, q.op \in PlanOps \ {"link"},
           NEW row \in Life!Row, Allowed(q, row), row.trade # NoTrade => row.status = "filled",
           q.op = "create" => row.status = "none"
    PROVE  /\ Edited(q, row) \in Life!Row
           /\ Edited(q, row).trade = NoTrade
           /\ \/ /\ row.status \in {"none", "draft"}
                 /\ Edited(q, row).status = "draft"
              \/ /\ row.status \in {"draft", "intended"}
                 /\ \E e \in Expiries : Edited(q, row) = [row EXCEPT !.expiry = e]
              \/ /\ row.status = "draft" /\ row.legs /\ row.exit
                 /\ Edited(q, row) = [row EXCEPT !.status = "intended"]
              \/ /\ row.status \in {"draft", "intended"}
                 /\ Edited(q, row) = [row EXCEPT !.status = "cancelled"]
              \/ /\ row.status = "draft"
                 /\ Edited(q, row) = [row EXCEPT !.status = "gone"]
<1>1. NoTrade \in Trades \cup {NoTrade} /\ row.trade \in Trades \cup {NoTrade}
  BY DEF Life!Row
<1>2. CASE q.op = "create"
  BY <1>1, <1>2, RequestFields DEF Edited, Body, Life!Row, Life!Statuses
<1>3. CASE q.op = "edit"
  BY <1>1, <1>3, RequestFields DEF Allowed, Edited, Body, Life!Row, Life!Statuses
<1>4. CASE q.op = "extend"
  BY <1>1, <1>4, RequestFields DEF Allowed, Edited, Life!Row, Life!Statuses
<1>5. CASE q.op = "intend"
  BY <1>1, <1>5 DEF Allowed, Edited, Life!Row, Life!Statuses
<1>6. CASE q.op = "cancel"
  BY <1>1, <1>6 DEF Allowed, Edited, Life!Row, Life!Statuses
<1>7. CASE q.op = "delete"
  BY <1>1, <1>7 DEF Allowed, Edited, Life!Row, Life!Statuses
<1> QED BY <1>2, <1>3, <1>4, <1>5, <1>6, <1>7 DEF PlanOps

LEMMA BlankRow == ASSUME BookAssumption PROVE Blank \in Life!Row
BY DEF BookAssumption, Blank, Life!Row, Life!Statuses

-----------------------------------------------------------------------------
(* The invariant holds initially.                                          *)

LEMMA InitInv == ASSUME BookAssumption, Init PROVE BookInv
<1>1. TypeOK
  <2>1. NoReq \in Requests
    BY DEF NoReq, Requests
  <2> QED BY <2>1, BlankRow DEF Init, TypeOK
<1>2. /\ \A s \in Sessions : at[s] = "idle" /\ req[s].op = "idle"
      /\ \A p \in Plans : plan[p].trade = NoTrade /\ plan[p].status = "none"
      /\ \A f \in Fills : fill[f] = NoTrade
      /\ review = {}
  BY DEF Init, NoReq, Blank
<1>3. Locks
  BY <1>2 DEF Locks, Placed, PlanLocks, TradesRead, TradeLocks, OnlyFilledNames, HoldsPlan,
              HoldsTrade, Shares, Opens, PlanOps, ReferOps
<1>4. NamesAStandingTrade /\ IntentIsComplete
  BY <1>2 DEF NamesAStandingTrade, IntentIsComplete
<1> QED BY <1>1, <1>3, <1>4 DEF BookInv

-----------------------------------------------------------------------------
(* Steps that leave the tables alone.                                      *)

\* What a step of session s that writes nothing must establish.
LEMMA Quiet ==
    ASSUME BookInv, TypeOK', UNCHANGED tables, NEW s \in Sessions,
           \A o \in Sessions \ {s} : at'[o] = at[o] /\ req'[o] = req[o] /\ read'[o] = read[o],
           Placed(s)',
           \A p \in Plans : HoldsPlan(s, p)' =>
               /\ read'[s] = plan[p]
               /\ req'[s].op = "create" <=> plan[p].status = "none"
               /\ at'[s] # "check" => req'[s].op = "link" /\ plan[p].status = "intended"
               /\ \A o \in Sessions \ {s} : ~HoldsPlan(o, p),
           at'[s] \in {"share", "commit"} =>
               /\ req'[s].op = "link" => trade[req'[s].trade] \in {read'[s].account, "gone"}
               /\ req'[s].op = "attribute" => trade[req'[s].trade] \in {FillAccount, "gone"},
           \A t \in Trades :
               /\ Shares(s, t)' \/ HoldsTrade(s, t)' => Standing(t)
               /\ Shares(s, t)' => \A o \in Sessions \ {s} : HoldsTrade(o, t) => t \in review
               /\ HoldsTrade(s, t)' => \A o \in Sessions \ {s} :
                      ~HoldsTrade(o, t) /\ (Shares(o, t) => t \in review)
               /\ Opens(s, t)' => trade[t] = "none" /\ \A o \in Sessions \ {s} : ~Opens(o, t)
    PROVE  BookInv'
<1>1. plan' = plan /\ trade' = trade /\ review' = review /\ fill' = fill
  BY DEF tables
<1>2. \A o \in Sessions \ {s} :
          /\ Placed(o)' <=> Placed(o)
          /\ \A p \in Plans : HoldsPlan(o, p)' <=> HoldsPlan(o, p)
          /\ \A t \in Trades : /\ HoldsTrade(o, t)' <=> HoldsTrade(o, t)
                               /\ Shares(o, t)' <=> Shares(o, t)
                               /\ Opens(o, t)' <=> Opens(o, t)
  BY DEF Placed, HoldsPlan, HoldsTrade, Shares, Opens
<1>3. \A o \in Sessions : Placed(o)'
  BY <1>2 DEF BookInv, Locks
<1>4. PlanLocks'
  BY <1>1, <1>2 DEF BookInv, Locks, PlanLocks
<1>5. TradesRead'
  BY <1>1 DEF BookInv, Locks, TradesRead
<1>6. TradeLocks'
  <2> SUFFICES ASSUME NEW o \in Sessions, NEW t \in Trades
               PROVE  /\ Shares(o, t)' \/ HoldsTrade(o, t)' => Standing(t)'
                      /\ Shares(o, t)' => \A u \in Sessions : HoldsTrade(u, t)' => t \in review'
                      /\ HoldsTrade(o, t)' => \A u \in Sessions : HoldsTrade(u, t)' => u = o
                      /\ Opens(o, t)' => trade'[t] = "none" /\ \A u \in Sessions : Opens(u, t)' => u = o
    BY DEF TradeLocks
  <2>1. ~(Shares(s, t)' /\ HoldsTrade(s, t)')
    BY DEF Shares, HoldsTrade, ReferOps
  <2>2. Standing(t)' <=> Standing(t)
    BY <1>1 DEF Standing
  <2>3. TradeLocks
    BY DEF BookInv, Locks
  <2> QED BY <1>1, <1>2, <2>1, <2>2, <2>3 DEF TradeLocks
<1>7. OnlyFilledNames' /\ NamesAStandingTrade' /\ IntentIsComplete'
  BY <1>1 DEF BookInv, Locks, OnlyFilledNames, NamesAStandingTrade, IntentIsComplete, Standing
<1> QED BY <1>3, <1>4, <1>5, <1>6, <1>7 DEF BookInv, Locks

\* A call that ends without a write.
LEMMA OverInv ==
    ASSUME BookAssumption, BookInv, NEW s \in Sessions, Over(s), UNCHANGED tables
    PROVE  BookInv'
<1>1. NoReq \in Requests
  BY DEF NoReq, Requests
<1>2. TypeOK'
  BY <1>1, BlankRow DEF BookInv, TypeOK, Over, tables
<1>3. at'[s] = "idle" /\ req'[s].op = "idle"
  BY DEF BookInv, TypeOK, Over, NoReq
<1>4. \A o \in Sessions \ {s} : at'[o] = at[o] /\ req'[o] = req[o] /\ read'[o] = read[o]
  BY DEF BookInv, TypeOK, Over
<1>5. /\ Placed(s)'
      /\ \A p \in Plans : ~HoldsPlan(s, p)'
      /\ \A t \in Trades : ~Shares(s, t)' /\ ~HoldsTrade(s, t)' /\ ~Opens(s, t)'
  BY <1>3 DEF Placed, HoldsPlan, Shares, HoldsTrade, Opens
<1> QED BY <1>2, <1>3, <1>4, <1>5, Quiet

\* Go keeps the request; only the place changes.
LEMMA GoKeeps ==
    ASSUME BookInv, NEW s \in Sessions, NEW step, Go(s, step), UNCHANGED tables,
           step \in {"check", "trade", "share", "commit", "count", "erase"}
    PROVE  /\ TypeOK'
           /\ at'[s] = step /\ req'[s] = req[s] /\ read'[s] = read[s]
           /\ \A o \in Sessions \ {s} : at'[o] = at[o] /\ req'[o] = req[o] /\ read'[o] = read[o]
BY DEF BookInv, TypeOK, Go, tables

LEMMA LockPlanInv ==
    ASSUME BookAssumption, BookInv, NEW s \in Sessions, LockPlan(s)
    PROVE  BookInv'
<1> DEFINE p == req[s].plan
<1>1. UNCHANGED tables /\ at[s] = "lock" /\ req[s].op \in PlanOps
  BY DEF LockPlan
<1>2. CASE ~Live(p)
  BY <1>1, <1>2, OverInv DEF LockPlan
<1>3. CASE Live(p)
  <2>1. ReadPlan(s) /\ \A o \in Sessions : ~HoldsPlan(o, p)
    BY <1>3 DEF LockPlan
  <2>2. p \in Plans /\ req[s].op # "create"
    BY <1>1, RequestFields DEF BookInv, TypeOK, Locks, Placed
  <2>3. TypeOK'
    BY <1>1, <2>1, <2>2 DEF BookInv, TypeOK, ReadPlan, tables
  <2>4. /\ at'[s] = "check" /\ req'[s] = req[s] /\ read'[s] = plan[p]
        /\ \A o \in Sessions \ {s} : at'[o] = at[o] /\ req'[o] = req[o] /\ read'[o] = read[o]
    BY <2>1 DEF BookInv, TypeOK, ReadPlan
  <2>5. Placed(s)'
    BY <1>1, <2>4 DEF Placed
  <2>6. \A x \in Plans : HoldsPlan(s, x)' => x = p
    BY <2>4 DEF HoldsPlan
  <2>7. \A t \in Trades : ~Shares(s, t)' /\ ~HoldsTrade(s, t)' /\ ~Opens(s, t)'
    BY <1>1, <2>4 DEF Shares, HoldsTrade, Opens, PlanOps
  <2>8. plan[p].status # "none"
    BY <1>3 DEF Live
  <2> HIDE DEF p
  <2> QED BY <1>1, <2>1, <2>2, <2>3, <2>4, <2>5, <2>6, <2>7, <2>8, Quiet
<1> QED BY <1>2, <1>3

LEMMA CheckLinkInv ==
    ASSUME BookAssumption, BookInv, NEW s \in Sessions, CheckLink(s)
    PROVE  BookInv'
<1>1. UNCHANGED tables /\ at[s] = "check" /\ req[s].op = "link"
  BY DEF CheckLink
<1>2. CASE read[s].status # "intended"
  BY <1>1, <1>2, OverInv DEF CheckLink
<1>3. CASE read[s].status = "intended"
  <2>1. Go(s, "trade")
    BY <1>3 DEF CheckLink
  <2>2. /\ TypeOK'
        /\ at'[s] = "trade" /\ req'[s] = req[s] /\ read'[s] = read[s]
        /\ \A o \in Sessions \ {s} : at'[o] = at[o] /\ req'[o] = req[o] /\ read'[o] = read[o]
    BY <1>1, <2>1, GoKeeps
  <2>3. Placed(s)'
    BY <1>1, <2>2 DEF Placed
  <2>4. \A x \in Plans : HoldsPlan(s, x)' => HoldsPlan(s, x)
    BY <1>1, <2>2 DEF HoldsPlan
  <2>5. \A x \in Plans : HoldsPlan(s, x) =>
            /\ read[s] = plan[x] /\ plan[x].status = "intended"
            /\ req[s].op = "create" <=> plan[x].status = "none"
            /\ \A o \in Sessions \ {s} : ~HoldsPlan(o, x)
    BY <1>3 DEF BookInv, Locks, PlanLocks
  <2>6. \A t \in Trades : ~Shares(s, t)' /\ ~HoldsTrade(s, t)' /\ ~Opens(s, t)'
    BY <1>1, <2>2 DEF Shares, HoldsTrade, Opens
  <2> QED BY <1>1, <2>2, <2>3, <2>4, <2>5, <2>6, Quiet
<1> QED BY <1>2, <1>3

LEMMA ReadTradeInv ==
    ASSUME BookAssumption, BookInv, NEW s \in Sessions, ReadTrade(s)
    PROVE  BookInv'
<1>1. UNCHANGED tables /\ at[s] = "trade" /\ req[s].op \in {"link", "review", "attribute"}
  BY DEF ReadTrade
<1>2. CASE Over(s)
  BY <1>1, <1>2, OverInv
<1>3. CASE /\ Go(s, "share")
           /\ req[s].op = "link" => trade[req[s].trade] = read[s].account
           /\ req[s].op = "attribute" => trade[req[s].trade] = FillAccount
  <2>2. /\ TypeOK'
        /\ at'[s] = "share" /\ req'[s] = req[s] /\ read'[s] = read[s]
        /\ \A o \in Sessions \ {s} : at'[o] = at[o] /\ req'[o] = req[o] /\ read'[o] = read[o]
    BY <1>1, <1>3, GoKeeps
  <2>3. Placed(s)'
    BY <1>1, <2>2 DEF Placed, ReferOps
  <2>4. \A x \in Plans : HoldsPlan(s, x)' => HoldsPlan(s, x)
    BY <1>1, <2>2 DEF HoldsPlan
  <2>5. \A x \in Plans : HoldsPlan(s, x) =>
            /\ read[s] = plan[x] /\ req[s].op = "link" /\ plan[x].status = "intended"
            /\ req[s].op = "create" <=> plan[x].status = "none"
            /\ \A o \in Sessions \ {s} : ~HoldsPlan(o, x)
    BY <1>1 DEF BookInv, Locks, PlanLocks
  <2>6. \A t \in Trades : ~Shares(s, t)' /\ ~HoldsTrade(s, t)' /\ ~Opens(s, t)'
    BY <1>1, <2>2 DEF Shares, HoldsTrade, Opens
  <2> QED BY <1>1, <1>3, <2>2, <2>3, <2>4, <2>5, <2>6, Quiet
<1> QED BY <1>2, <1>3 DEF ReadTrade

LEMMA TakeShareInv ==
    ASSUME BookAssumption, BookInv, NEW s \in Sessions, TakeShare(s)
    PROVE  BookInv'
<1> DEFINE t == req[s].trade
<1>1. UNCHANGED tables /\ at[s] = "share" /\ req[s].op \in ReferOps
  BY DEF TakeShare
<1>2. CASE ~Standing(t)
  BY <1>1, <1>2, OverInv DEF TakeShare
<1>3. CASE Standing(t)
  <2>1. Go(s, "commit") /\ \A o \in Sessions : HoldsTrade(o, t) => t \in review
    BY <1>3 DEF TakeShare
  <2>2. /\ TypeOK'
        /\ at'[s] = "commit" /\ req'[s] = req[s] /\ read'[s] = read[s]
        /\ \A o \in Sessions \ {s} : at'[o] = at[o] /\ req'[o] = req[o] /\ read'[o] = read[o]
    BY <1>1, <2>1, GoKeeps
  <2>3. Placed(s)'
    BY <1>1, <2>2 DEF Placed
  <2>4. \A x \in Plans : HoldsPlan(s, x)' => HoldsPlan(s, x)
    BY <1>1, <2>2 DEF HoldsPlan
  <2>5. \A x \in Plans : HoldsPlan(s, x) =>
            /\ read[s] = plan[x] /\ req[s].op = "link" /\ plan[x].status = "intended"
            /\ req[s].op = "create" <=> plan[x].status = "none"
            /\ \A o \in Sessions \ {s} : ~HoldsPlan(o, x)
    BY <1>1 DEF BookInv, Locks, PlanLocks
  <2>6. \A x \in Trades : (Shares(s, x)' => x = t) /\ ~HoldsTrade(s, x)' /\ ~Opens(s, x)'
    BY <1>1, <2>2 DEF Shares, HoldsTrade, Opens, ReferOps
  <2>7. /\ req[s].op = "link" => trade[t] \in {read[s].account, "gone"}
        /\ req[s].op = "attribute" => trade[t] \in {FillAccount, "gone"}
    BY <1>1 DEF BookInv, Locks, TradesRead
  <2> HIDE DEF t
  <2>8. \A x \in Trades : Shares(s, x)' =>
            Standing(x) /\ \A o \in Sessions : HoldsTrade(o, x) => x \in review
    BY <1>3, <2>1, <2>6
  <2> USE DEF t
  <2> QED BY <1>1, <2>2, <2>3, <2>4, <2>5, <2>6, <2>7, <2>8, Quiet
<1> QED BY <1>2, <1>3

LEMMA LockTradeInv ==
    ASSUME BookAssumption, BookInv, NEW s \in Sessions, LockTrade(s)
    PROVE  BookInv'
<1> DEFINE t == req[s].trade
<1>1. UNCHANGED tables /\ at[s] = "lock" /\ req[s].op = "close"
  BY DEF LockTrade
<1>2. CASE ~Standing(t)
  BY <1>1, <1>2, OverInv DEF LockTrade
<1>3. CASE Standing(t)
  <2>1. Go(s, "count") /\ \A o \in Sessions : ~HoldsTrade(o, t) /\ ~Shares(o, t)
    BY <1>3 DEF LockTrade
  <2>2. /\ TypeOK'
        /\ at'[s] = "count" /\ req'[s] = req[s] /\ read'[s] = read[s]
        /\ \A o \in Sessions \ {s} : at'[o] = at[o] /\ req'[o] = req[o] /\ read'[o] = read[o]
    BY <1>1, <2>1, GoKeeps
  <2>3. Placed(s)'
    BY <1>1, <2>2 DEF Placed
  <2>4. \A p \in Plans : ~HoldsPlan(s, p)'
    BY <2>2 DEF HoldsPlan
  <2>5. \A x \in Trades : ~Shares(s, x)' /\ (HoldsTrade(s, x)' => x = t) /\ ~Opens(s, x)'
    BY <1>1, <2>2 DEF Shares, HoldsTrade, Opens
  <2> HIDE DEF t
  <2> QED BY <1>1, <1>3, <2>1, <2>2, <2>3, <2>4, <2>5, Quiet
<1> QED BY <1>2, <1>3

LEMMA CountInv ==
    ASSUME BookAssumption, BookInv, NEW s \in Sessions, Count(s)
    PROVE  BookInv'
<1>1. UNCHANGED tables /\ at[s] = "count" /\ req[s].op = "close"
  BY DEF Count
<1>2. CASE Over(s)
  BY <1>1, <1>2, OverInv
<1>3. CASE Go(s, "erase")
  <2>1. /\ TypeOK'
        /\ at'[s] = "erase" /\ req'[s] = req[s] /\ read'[s] = read[s]
        /\ \A o \in Sessions \ {s} : at'[o] = at[o] /\ req'[o] = req[o] /\ read'[o] = read[o]
    BY <1>1, <1>3, GoKeeps
  <2>2. Placed(s)'
    BY <1>1, <2>1 DEF Placed
  <2>3. \A p \in Plans : ~HoldsPlan(s, p)'
    BY <2>1 DEF HoldsPlan
  <2>4. \A x \in Trades : ~Shares(s, x)' /\ (HoldsTrade(s, x)' => HoldsTrade(s, x)) /\ ~Opens(s, x)'
    BY <1>1, <2>1 DEF Shares, HoldsTrade, Opens
  <2>5. \A x \in Trades : HoldsTrade(s, x) =>
            /\ Standing(x)
            /\ \A o \in Sessions \ {s} : ~HoldsTrade(o, x) /\ (Shares(o, x) => x \in review)
    BY DEF BookInv, Locks, TradeLocks
  <2> QED BY <1>1, <2>1, <2>2, <2>3, <2>4, <2>5, Quiet
<1> QED BY <1>2, <1>3 DEF Count

LEMMA BeginInv ==
    ASSUME BookAssumption, BookInv, NEW s \in Sessions, NEW q \in Requests, Begin(s, q)
    PROVE  BookInv'
<1>1. UNCHANGED tables /\ at[s] = "idle" /\ q # NoReq
  BY DEF Begin
<1>2. q.op \in PlanOps \cup ReferOps \cup {"open", "close", "clear"}
  BY <1>1, RequestFields DEF Requests, NoReq, PlanOps, ReferOps
<1>3. /\ at'[s] = FirstStep(q.op) /\ req'[s] = q
      /\ read'[s] = IF q.op = "create" THEN plan[q.plan] ELSE read[s]
      /\ \A o \in Sessions \ {s} : at'[o] = at[o] /\ req'[o] = req[o] /\ read'[o] = read[o]
  BY DEF Begin, BookInv, TypeOK
<1>4. /\ q.op = "create" => FirstStep(q.op) = "check"
      /\ q.op \in PlanOps \ {"create"} => FirstStep(q.op) = "lock"
      /\ q.op = "close" => FirstStep(q.op) = "lock"
      /\ q.op \in {"review", "attribute"} => FirstStep(q.op) = "trade"
      /\ q.op = "save" => FirstStep(q.op) = "share"
      /\ q.op \in {"open", "clear"} => FirstStep(q.op) = "commit"
  BY DEF FirstStep, PlanOps
<1>5. TypeOK'
  <2>1. q.op = "create" => plan[q.plan] \in Life!Row
    BY RequestFields DEF BookInv, TypeOK, PlanOps
  <2>2. FirstStep(q.op) \in {"idle", "lock", "check", "trade", "share", "commit", "count", "erase"}
    BY <1>2, <1>4 DEF PlanOps, ReferOps
  <2> QED BY <1>1, <2>1, <2>2 DEF Begin, BookInv, TypeOK, tables
<1>6. Placed(s)'
  BY <1>2, <1>3, <1>4 DEF Placed, PlanOps, ReferOps
<1>7. \A p \in Plans : HoldsPlan(s, p)' =>
          /\ q.op = "create" /\ at'[s] = "check" /\ p = q.plan
  BY <1>2, <1>3, <1>4 DEF HoldsPlan, PlanOps
<1>8. q.op = "create" => /\ plan[q.plan].status = "none"
                         /\ \A o \in Sessions : ~HoldsPlan(o, q.plan)
  BY DEF Begin
<1>9. \A t \in Trades :
          /\ ~Shares(s, t)' /\ ~HoldsTrade(s, t)'
          /\ Opens(s, t)' => q.op = "open" /\ t = q.trade
  BY <1>2, <1>3, <1>4 DEF Shares, HoldsTrade, Opens, ReferOps, PlanOps
<1>10. q.op = "open" => trade[q.trade] = "none" /\ \A o \in Sessions : ~Opens(o, q.trade)
  BY DEF Begin
<1>11. at'[s] \in {"share", "commit"} => req'[s].op \notin {"link", "attribute"}
  BY <1>2, <1>3, <1>4 DEF ReferOps, PlanOps
<1> QED BY <1>1, <1>3, <1>5, <1>6, <1>7, <1>8, <1>9, <1>10, <1>11, Quiet

-----------------------------------------------------------------------------
(* Steps that write, which all end the call.                               *)

\* The session lets go of everything; the others keep what they hold.
LEMMA OverLeaves ==
    ASSUME BookAssumption, BookInv, NEW s \in Sessions, Over(s)
    PROVE  /\ at' \in [Sessions -> {"idle", "lock", "check", "trade", "share", "commit",
                                    "count", "erase"}]
           /\ req' \in [Sessions -> Requests] /\ read' \in [Sessions -> Life!Row]
           /\ at'[s] = "idle"
           /\ \A o \in Sessions \ {s} : at'[o] = at[o] /\ req'[o] = req[o] /\ read'[o] = read[o]
           /\ \A o \in Sessions : Placed(o)'
           /\ \A o \in Sessions, p \in Plans : HoldsPlan(o, p)' <=> o # s /\ HoldsPlan(o, p)
           /\ \A o \in Sessions, t \in Trades :
                  /\ HoldsTrade(o, t)' <=> o # s /\ HoldsTrade(o, t)
                  /\ Shares(o, t)' <=> o # s /\ Shares(o, t)
                  /\ Opens(o, t)' <=> o # s /\ Opens(o, t)
<1>1. NoReq \in Requests
  BY DEF NoReq, Requests
<1>2. /\ at' \in [Sessions -> {"idle", "lock", "check", "trade", "share", "commit",
                               "count", "erase"}]
      /\ req' \in [Sessions -> Requests] /\ read' \in [Sessions -> Life!Row]
  BY <1>1, BlankRow DEF BookInv, TypeOK, Over
<1>3. at'[s] = "idle" /\ req'[s].op = "idle"
  BY DEF BookInv, TypeOK, Over, NoReq
<1>4. \A o \in Sessions \ {s} : at'[o] = at[o] /\ req'[o] = req[o] /\ read'[o] = read[o]
  BY DEF BookInv, TypeOK, Over
<1>5. \A o \in Sessions : Placed(o)'
  BY <1>3, <1>4 DEF BookInv, Locks, Placed
<1>6. \A o \in Sessions, p \in Plans : HoldsPlan(o, p)' <=> o # s /\ HoldsPlan(o, p)
  BY <1>3, <1>4 DEF HoldsPlan
<1>7. \A o \in Sessions, t \in Trades :
          /\ HoldsTrade(o, t)' <=> o # s /\ HoldsTrade(o, t)
          /\ Shares(o, t)' <=> o # s /\ Shares(o, t)
          /\ Opens(o, t)' <=> o # s /\ Opens(o, t)
  BY <1>3, <1>4 DEF HoldsTrade, Shares, Opens
<1> QED BY <1>2, <1>3, <1>4, <1>5, <1>6, <1>7

\* A write to the one plan a session holds.
LEMMA PlanWrittenLocks ==
    ASSUME BookAssumption, BookInv, NEW s \in Sessions, Over(s),
           NEW p \in Plans, HoldsPlan(s, p), NEW row,
           plan' = [plan EXCEPT ![p] = row]
    PROVE  PlanLocks'
<1>1. \A o \in Sessions, x \in Plans : HoldsPlan(o, x)' <=> o # s /\ HoldsPlan(o, x)
  BY OverLeaves
<1>2. \A o \in Sessions : HoldsPlan(o, p) => o = s
  BY DEF BookInv, Locks, PlanLocks
<1>3. \A x \in Plans \ {p} : plan'[x] = plan[x]
  BY DEF BookInv, TypeOK
<1>4. \A o \in Sessions \ {s} : at'[o] = at[o] /\ req'[o] = req[o] /\ read'[o] = read[o]
  BY OverLeaves
<1> SUFFICES ASSUME NEW o \in Sessions, NEW x \in Plans, HoldsPlan(o, x)'
             PROVE  /\ read'[o] = plan'[x]
                    /\ req'[o].op = "create" <=> plan'[x].status = "none"
                    /\ at'[o] # "check" => req'[o].op = "link" /\ plan'[x].status = "intended"
                    /\ \A u \in Sessions : HoldsPlan(u, x)' => u = o
  BY DEF PlanLocks
<1>5. o # s /\ HoldsPlan(o, x) /\ x # p
  BY <1>1, <1>2
<1>6. /\ read[o] = plan[x]
      /\ req[o].op = "create" <=> plan[x].status = "none"
      /\ at[o] # "check" => req[o].op = "link" /\ plan[x].status = "intended"
      /\ \A u \in Sessions : HoldsPlan(u, x) => u = o
  BY <1>5 DEF BookInv, Locks, PlanLocks
<1> QED BY <1>1, <1>3, <1>4, <1>5, <1>6

\* When the trades stay as they are, so do the locks on them.
LEMMA TradesKept ==
    ASSUME BookAssumption, BookInv, NEW s \in Sessions, Over(s), UNCHANGED trade,
           review \subseteq review'
    PROVE  TradesRead' /\ TradeLocks'
<1>1. TradesRead'
  BY OverLeaves DEF BookInv, Locks, TradesRead
<1>2. TradeLocks'
  <2>1. \A t \in Trades : Standing(t)' <=> Standing(t)
    BY DEF Standing
  <2>2. TradeLocks
    BY DEF BookInv, Locks
  <2> QED BY <2>1, <2>2, OverLeaves DEF TradeLocks
<1> QED BY <1>1, <1>2

LEMMA WritePlanInv ==
    ASSUME BookAssumption, BookInv, NEW s \in Sessions, WritePlan(s)
    PROVE  BookInv'
<1> DEFINE q == req[s]
           p == q.plan
           row == plan[p]
<1>1. Over(s) /\ q.op \in PlanOps \ {"link"} /\ at[s] = "check" /\ UNCHANGED <<trade, review, fill>>
  BY DEF WritePlan
<1>2. q \in Requests /\ p \in Plans
  BY <1>1, RequestFields DEF BookInv, TypeOK
<1>3. HoldsPlan(s, p)
  BY <1>1 DEF HoldsPlan
<1>4. read[s] = row /\ (q.op = "create" <=> row.status = "none")
  BY <1>2, <1>3 DEF BookInv, Locks, PlanLocks
<1>5. CASE ~Allowed(q, row)
  BY <1>1, <1>4, <1>5, OverInv DEF WritePlan, tables
<1>6. CASE Allowed(q, row)
  <2> DEFINE new == Edited(q, row)
  <2>1. row \in Life!Row /\ (row.trade # NoTrade => row.status = "filled")
    BY <1>2 DEF BookInv, TypeOK, Locks, OnlyFilledNames
  <2>2. plan' = [plan EXCEPT ![p] = new]
    BY <1>4, <1>6 DEF WritePlan
  <2>3. /\ new \in Life!Row /\ new.trade = NoTrade
        /\ new.status = "intended" => new.legs /\ new.exit
        /\ new.status # "filled"
    <3>1. /\ new \in Life!Row
          /\ new.trade = NoTrade
          /\ \/ /\ row.status \in {"none", "draft"}
                /\ new.status = "draft"
             \/ /\ row.status \in {"draft", "intended"}
                /\ \E e \in Expiries : new = [row EXCEPT !.expiry = e]
             \/ /\ row.status = "draft" /\ row.legs /\ row.exit
                /\ new = [row EXCEPT !.status = "intended"]
             \/ /\ row.status \in {"draft", "intended"}
                /\ new = [row EXCEPT !.status = "cancelled"]
             \/ /\ row.status = "draft"
                /\ new = [row EXCEPT !.status = "gone"]
      <4> HIDE DEF q, p, row
      <4> QED BY <1>1, <1>2, <1>4, <1>6, <2>1, EditedRow
    <3>2. row.status = "intended" => row.legs /\ row.exit
      BY <1>2 DEF BookInv, IntentIsComplete
    <3> HIDE DEF new, row
    <3> QED BY <2>1, <3>1, <3>2 DEF Life!Row
  <2> HIDE DEF new, row, p, q
  <2>4. TypeOK'
    BY <1>1, <1>2, <2>2, <2>3, OverLeaves DEF BookInv, TypeOK
  <2>5. \A x \in Plans : plan'[x] = IF x = p THEN new ELSE plan[x]
    BY <2>2 DEF BookInv, TypeOK
  <2>6. PlanLocks'
    BY <1>1, <1>2, <1>3, <2>2, PlanWrittenLocks
  <2>7. TradesRead' /\ TradeLocks'
    BY <1>1, TradesKept
  <2>8. OnlyFilledNames'
    BY <2>3, <2>5 DEF BookInv, Locks, OnlyFilledNames
  <2>9. NamesAStandingTrade'
    BY <1>1, <2>3, <2>5 DEF BookInv, NamesAStandingTrade, Standing
  <2>10. IntentIsComplete'
    BY <2>3, <2>5 DEF BookInv, IntentIsComplete
  <2> QED BY <1>1, <2>4, <2>6, <2>7, <2>8, <2>9, <2>10, OverLeaves DEF BookInv, Locks
<1> QED BY <1>5, <1>6

\* The link of a fill: the trade is still the one that was checked.
LEMMA LinkInv ==
    ASSUME BookAssumption, BookInv, NEW s \in Sessions, Commit(s), req[s].op = "link"
    PROVE  BookInv'
<1> DEFINE q == req[s]
           p == q.plan
           new == [plan[p] EXCEPT !.status = "filled", !.trade = q.trade]
<1>1. Over(s) /\ at[s] = "commit" /\ UNCHANGED <<trade, review, fill>>
  BY DEF Commit
<1>2. q \in Requests /\ p \in Plans /\ q.trade \in Trades
  BY RequestFields DEF BookInv, TypeOK, PlanOps, ReferOps
<1>3. HoldsPlan(s, p) /\ Shares(s, q.trade)
  BY <1>1 DEF HoldsPlan, Shares, PlanOps, ReferOps
<1>4. plan[p] \in Life!Row /\ plan[p].status = "intended" /\ read[s] = plan[p]
  BY <1>1, <1>2, <1>3 DEF BookInv, TypeOK, Locks, PlanLocks
<1>5. trade[q.trade] = plan[p].account
  <2>1. Standing(q.trade)
    BY <1>2, <1>3 DEF BookInv, Locks, TradeLocks
  <2>2. trade[q.trade] \in {plan[p].account, "gone"}
    BY <1>1, <1>4 DEF BookInv, Locks, TradesRead
  <2> QED BY <2>1, <2>2 DEF Standing, BookAssumption
<1>6. plan[p].legs /\ plan[p].exit
  BY <1>2, <1>4 DEF BookInv, IntentIsComplete
<1>7. plan' = [plan EXCEPT ![p] = new]
  BY <1>2 DEF Commit, BookInv, TypeOK
<1>8. /\ new \in Life!Row /\ new.status = "filled" /\ new.trade = q.trade
      /\ new.account = plan[p].account /\ new.legs = plan[p].legs /\ new.exit = plan[p].exit
  BY <1>2, <1>4 DEF Life!Row, Life!Statuses
<1> HIDE DEF new, p, q
<1>9. \A x \in Plans : plan'[x] = IF x = p THEN new ELSE plan[x]
  BY <1>7 DEF BookInv, TypeOK
<1>10. TypeOK'
  BY <1>1, <1>2, <1>7, <1>8, OverLeaves DEF BookInv, TypeOK
<1>11. PlanLocks'
  BY <1>1, <1>2, <1>3, <1>7, PlanWrittenLocks
<1>12. TradesRead' /\ TradeLocks'
  BY <1>1, TradesKept
<1>13. OnlyFilledNames'
  BY <1>8, <1>9 DEF BookInv, Locks, OnlyFilledNames
<1>14. NamesAStandingTrade'
  BY <1>1, <1>5, <1>8, <1>9 DEF BookInv, NamesAStandingTrade, Standing
<1>15. IntentIsComplete'
  BY <1>6, <1>8, <1>9 DEF BookInv, IntentIsComplete
<1> QED BY <1>1, <1>10, <1>11, <1>12, <1>13, <1>14, <1>15, OverLeaves DEF BookInv, Locks

\* A review, or the attribution of a fill.
LEMMA TieInv ==
    ASSUME BookAssumption, BookInv, NEW s \in Sessions, Commit(s), req[s].op # "link"
    PROVE  BookInv'
<1> DEFINE q == req[s]
<1>1. /\ Over(s) /\ at[s] = "commit" /\ q.op # "open" /\ UNCHANGED <<trade, plan>>
      /\ review' = IF q.op \in {"review", "save"} THEN review \cup {q.trade} ELSE review
      /\ fill' = IF q.op \in {"attribute", "clear"}
                 THEN [fill EXCEPT ![q.fill] = IF q.op = "clear" THEN NoTrade ELSE q.trade]
                 ELSE fill
  BY DEF Commit
<1>2. q \in Requests /\ q.op \in {"review", "save", "attribute", "clear"}
  BY <1>1 DEF BookInv, TypeOK, Locks, Placed, ReferOps
<1>3. /\ q.op # "clear" => q.trade \in Trades /\ Standing(q.trade)
      /\ q.op \in {"attribute", "clear"} => q.fill \in Fills
  <2>1. /\ q.op # "clear" => q.trade \in Trades
        /\ q.op \in {"attribute", "clear"} => q.fill \in Fills
    BY <1>2, RequestFields DEF ReferOps
  <2>2. q.op # "clear" => Shares(s, q.trade)
    BY <1>1, <1>2 DEF Shares, ReferOps
  <2> QED BY <2>1, <2>2 DEF BookInv, Locks, TradeLocks
<1>4. q.op = "attribute" => trade[q.trade] = FillAccount
  BY <1>1, <1>3 DEF BookInv, Locks, TradesRead, Standing, BookAssumption
<1>5. \A t \in Trades : Standing(t)' <=> Standing(t)
  BY <1>1 DEF Standing
<1> HIDE DEF q
<1>6. TypeOK'
  BY <1>1, <1>2, <1>3, OverLeaves DEF BookInv, TypeOK
<1>7. PlanLocks'
  <2>1. PlanLocks
    BY DEF BookInv, Locks
  <2> QED BY <1>1, <2>1, OverLeaves DEF PlanLocks
<1>8. TradesRead' /\ TradeLocks'
  BY <1>1, TradesKept
<1>9. OnlyFilledNames' /\ IntentIsComplete'
  BY <1>1 DEF BookInv, Locks, OnlyFilledNames, IntentIsComplete
<1>10. NamesAStandingTrade'
  <2>1. review' \subseteq {t \in Trades : Standing(t)'}
    BY <1>1, <1>2, <1>3, <1>5 DEF BookInv, NamesAStandingTrade
  <2>2. \A f \in Fills : fill'[f] # NoTrade => trade'[fill'[f]] = FillAccount
    BY <1>1, <1>3, <1>4 DEF BookInv, TypeOK, NamesAStandingTrade
  <2>3. \A p \in Plans : plan'[p].trade # NoTrade => trade'[plan'[p].trade] = plan'[p].account
    BY <1>1 DEF BookInv, NamesAStandingTrade
  <2> QED BY <2>1, <2>2, <2>3 DEF NamesAStandingTrade
<1> QED BY <1>1, <1>6, <1>7, <1>8, <1>9, <1>10, OverLeaves DEF BookInv, Locks

LEMMA OpenTradeInv ==
    ASSUME BookAssumption, BookInv, NEW s \in Sessions, OpenTrade(s)
    PROVE  BookInv'
<1> DEFINE q == req[s]
           t == q.trade
<1>1. /\ Over(s) /\ at[s] = "commit" /\ q.op = "open" /\ UNCHANGED <<plan, review, fill>>
      /\ trade' = [trade EXCEPT ![t] = q.account]
  BY DEF OpenTrade
<1>2. q \in Requests /\ t \in Trades /\ q.account \in Accounts
  BY <1>1, RequestFields DEF BookInv, TypeOK
<1>3. Opens(s, t) /\ trade[t] = "none" /\ \A o \in Sessions : Opens(o, t) => o = s
  BY <1>1, <1>2 DEF Opens, BookInv, Locks, TradeLocks
<1> HIDE DEF t
<1>4. \A x \in Trades : trade'[x] = IF x = t THEN q.account ELSE trade[x]
  BY <1>1, <1>2 DEF BookInv, TypeOK
<1> HIDE DEF q
<1>5. TypeOK'
  BY <1>1, <1>2, OverLeaves DEF BookInv, TypeOK
<1>6. PlanLocks'
  <2>1. PlanLocks
    BY DEF BookInv, Locks
  <2> QED BY <1>1, <2>1, OverLeaves DEF PlanLocks
<1>7. TradesRead'
  <2> SUFFICES ASSUME NEW o \in Sessions, at'[o] \in {"share", "commit"}
               PROVE  /\ req'[o].op = "link" => trade'[req'[o].trade] \in {read'[o].account, "gone"}
                      /\ req'[o].op = "attribute" => trade'[req'[o].trade] \in {FillAccount, "gone"}
    BY DEF TradesRead
  <2>1. o # s /\ at'[o] = at[o] /\ req'[o] = req[o] /\ read'[o] = read[o]
    BY <1>1, OverLeaves
  <2>2. /\ req[o].op = "link" => trade[req[o].trade] \in {read[o].account, "gone"}
        /\ req[o].op = "attribute" => trade[req[o].trade] \in {FillAccount, "gone"}
    BY <2>1 DEF BookInv, Locks, TradesRead
  <2>3. req[o].op \in {"link", "attribute"} => req[o].trade \in Trades
    BY RequestFields DEF BookInv, TypeOK, ReferOps
  <2>4. "none" \notin Accounts /\ read[o].account \in Accounts /\ FillAccount \in Accounts
    BY DEF BookAssumption, BookInv, TypeOK, Life!Row
  <2> QED BY <1>3, <1>4, <2>1, <2>2, <2>3, <2>4
<1>8. TradeLocks'
  <2>1. TradeLocks
    BY DEF BookInv, Locks
  <2>2. \A x \in Trades : Standing(x) => Standing(x)'
    BY <1>2, <1>4 DEF Standing
  <2>3. \A o \in Sessions, x \in Trades : Opens(o, x)' => trade'[x] = "none"
    BY <1>1, <1>3, <1>4, <2>1, OverLeaves DEF TradeLocks
  <2> QED BY <1>1, <2>1, <2>2, <2>3, OverLeaves DEF TradeLocks
<1>9. OnlyFilledNames' /\ IntentIsComplete'
  BY <1>1 DEF BookInv, Locks, OnlyFilledNames, IntentIsComplete
<1>10. NamesAStandingTrade'
  <2>1. review' \subseteq {x \in Trades : Standing(x)'}
    BY <1>1, <1>2, <1>4 DEF BookInv, NamesAStandingTrade, Standing
  <2>2. "none" \notin Accounts /\ FillAccount \in Accounts
    BY DEF BookAssumption
  <2>3. \A f \in Fills : fill'[f] # NoTrade => trade'[fill'[f]] = FillAccount
    BY <1>1, <1>3, <1>4, <2>2 DEF BookInv, TypeOK, NamesAStandingTrade
  <2>4. \A p \in Plans : plan[p].trade \in Trades \cup {NoTrade} /\ plan[p].account \in Accounts
    BY DEF BookInv, TypeOK, Life!Row
  <2>5. \A p \in Plans : plan'[p].trade # NoTrade => trade'[plan'[p].trade] = plan'[p].account
    BY <1>1, <1>3, <1>4, <2>2, <2>4 DEF BookInv, NamesAStandingTrade
  <2> QED BY <2>1, <2>3, <2>5 DEF NamesAStandingTrade
<1> QED BY <1>1, <1>5, <1>6, <1>7, <1>8, <1>9, <1>10, OverLeaves DEF BookInv, Locks

\* The trade that goes is one nothing names, and nobody is about to name.
LEMMA EraseInv ==
    ASSUME BookAssumption, BookInv, NEW s \in Sessions, Erase(s)
    PROVE  BookInv'
<1> DEFINE t == req[s].trade
<1>1. Over(s) /\ at[s] = "erase" /\ req[s].op = "close" /\ UNCHANGED <<plan, review, fill>>
  BY DEF Erase
<1>2. t \in Trades /\ HoldsTrade(s, t)
  BY <1>1, RequestFields DEF HoldsTrade, BookInv, TypeOK
<1>3. CASE Referenced(t)
  BY <1>1, <1>3, OverInv DEF Erase, tables
<1>4. CASE ~Referenced(t)
  <2>1. trade' = [trade EXCEPT ![t] = "gone"]
    BY <1>4 DEF Erase
  <2>2. /\ t \notin review
        /\ \A f \in Fills : fill[f] # t
        /\ \A p \in Plans : plan[p].trade # t
    BY <1>4 DEF Referenced
  <2>3. /\ Standing(t)
        /\ \A o \in Sessions : ~Shares(o, t) /\ (HoldsTrade(o, t) => o = s)
    BY <1>2, <2>2 DEF BookInv, Locks, TradeLocks
  <2> HIDE DEF t
  <2>4. \A x \in Trades : trade'[x] = IF x = t THEN "gone" ELSE trade[x]
    BY <1>2, <2>1 DEF BookInv, TypeOK
  <2>5. TypeOK'
    BY <1>1, <2>1, OverLeaves DEF BookInv, TypeOK
  <2>6. PlanLocks'
    <3>1. PlanLocks
      BY DEF BookInv, Locks
    <3> QED BY <1>1, <3>1, OverLeaves DEF PlanLocks
  <2>7. TradesRead'
    <3> SUFFICES ASSUME NEW o \in Sessions, at'[o] \in {"share", "commit"}
                 PROVE  /\ req'[o].op = "link" => trade'[req'[o].trade] \in {read'[o].account, "gone"}
                        /\ req'[o].op = "attribute" => trade'[req'[o].trade] \in {FillAccount, "gone"}
      BY DEF TradesRead
    <3>1. o # s /\ at'[o] = at[o] /\ req'[o] = req[o] /\ read'[o] = read[o]
      BY <1>1, OverLeaves
    <3>2. req[o].op \in {"link", "attribute"} => req[o].trade \in Trades
      BY RequestFields DEF BookInv, TypeOK, ReferOps
    <3> QED BY <2>4, <3>1, <3>2 DEF BookInv, Locks, TradesRead
  <2>8. TradeLocks'
    <3>1. TradeLocks
      BY DEF BookInv, Locks
    <3>2. \A x \in Trades : x # t => (Standing(x)' <=> Standing(x))
      BY <2>4 DEF Standing
    <3>3. \A o \in Sessions : ~Opens(o, t)
      BY <1>2, <2>3, <3>1 DEF TradeLocks, Standing, BookAssumption
    <3>4. \A o \in Sessions, x \in Trades :
              (Shares(o, x)' \/ HoldsTrade(o, x)' \/ Opens(o, x)') => x # t
      BY <1>1, <2>3, <3>3, OverLeaves
    <3> QED BY <1>1, <2>4, <3>1, <3>2, <3>4, OverLeaves DEF TradeLocks
  <2>9. OnlyFilledNames' /\ IntentIsComplete'
    BY <1>1 DEF BookInv, Locks, OnlyFilledNames, IntentIsComplete
  <2>10. NamesAStandingTrade'
    <3>1. review' \subseteq {x \in Trades : Standing(x)'}
      BY <1>1, <2>2, <2>4 DEF BookInv, NamesAStandingTrade, Standing
    <3>2. \A f \in Fills : fill'[f] # NoTrade => trade'[fill'[f]] = FillAccount
      BY <1>1, <2>2, <2>4 DEF BookInv, TypeOK, NamesAStandingTrade
    <3>3. \A p \in Plans : plan[p].trade \in Trades \cup {NoTrade}
      BY DEF BookInv, TypeOK, Life!Row
    <3>4. \A p \in Plans : plan'[p].trade # NoTrade => trade'[plan'[p].trade] = plan'[p].account
      BY <1>1, <2>2, <2>4, <3>3 DEF BookInv, NamesAStandingTrade
    <3> QED BY <3>1, <3>2, <3>4 DEF NamesAStandingTrade
  <2> QED BY <2>5, <2>6, <2>7, <2>8, <2>9, <2>10, <1>1, OverLeaves DEF BookInv, Locks
<1> QED BY <1>3, <1>4

-----------------------------------------------------------------------------
(* The theorems.                                                           *)

LEMMA NextInv ==
    ASSUME BookAssumption, BookInv, [Next]_bookVars
    PROVE  BookInv'
<1>1. CASE UNCHANGED bookVars
  <2>1. /\ plan' = plan /\ trade' = trade /\ review' = review /\ fill' = fill
        /\ at' = at /\ req' = req /\ read' = read
    BY <1>1 DEF bookVars, tables
  <2>2. TypeOK' /\ NamesAStandingTrade' /\ IntentIsComplete'
    BY <2>1 DEF BookInv, TypeOK, NamesAStandingTrade, IntentIsComplete, Standing
  <2>3. Locks'
    BY <2>1 DEF BookInv, Locks, Placed, PlanLocks, TradesRead, TradeLocks, OnlyFilledNames,
                HoldsPlan, HoldsTrade, Shares, Opens, Standing
  <2> QED BY <2>2, <2>3 DEF BookInv
<1>2. ASSUME NEW s \in Sessions, Step(s)
      PROVE  BookInv'
  <2>1. Commit(s) => BookInv'
    BY LinkInv, TieInv
  <2> QED BY <1>2, <2>1, LockPlanInv, WritePlanInv, CheckLinkInv, ReadTradeInv, TakeShareInv,
             OpenTradeInv, LockTradeInv, CountInv, EraseInv DEF Step
<1>3. ASSUME NEW s \in Sessions, Fail(s)
      PROVE  BookInv'
  BY <1>3, OverInv DEF Fail
<1>4. ASSUME NEW s \in Sessions, NEW q \in Requests, Begin(s, q)
      PROVE  BookInv'
  BY <1>4, BeginInv
<1> QED BY <1>1, <1>2, <1>3, <1>4 DEF Next

LEMMA Invariance == Spec => []BookInv
<1>1. Init => BookInv
  BY BookAssumption, InitInv
<1>2. BookInv /\ [Next]_bookVars => BookInv'
  BY BookAssumption, NextInv
<1> QED BY <1>1, <1>2, PTL DEF Spec

\* Every row, request and step keeps its type, for any number of sessions and rows.
THEOREM BookTypes == Spec => []TypeOK
<1>1. BookInv => TypeOK
  BY DEF BookInv
<1> QED BY <1>1, Invariance, PTL

\* The trade check of link_fill and of fill attribution is not undone by a concurrent
\* delete_instance_strict: locks, foreign keys and ON DELETE RESTRICT close the gap.
THEOREM TradesStand == Spec => []NamesAStandingTrade
<1>1. BookInv => NamesAStandingTrade
  BY DEF BookInv
<1> QED BY <1>1, Invariance, PTL

\* intend_plan's check of leg and exit holds for good: no update_plan or patch_plan that
\* read the draft can write after it.
THEOREM IntentsComplete == Spec => []IntentIsComplete
<1>1. BookInv => IntentIsComplete
  BY DEF BookInv
<1> QED BY <1>1, Invariance, PTL

\* What a plan writer changes, when it does: the plan it holds, as it has read it.
LEMMA WritePlanRow ==
    ASSUME BookAssumption, BookInv, NEW s \in Sessions, WritePlan(s)
    PROVE  \/ UNCHANGED tables
           \/ \E p \in Plans, new \in Life!Row :
                 LET row == plan[p]
                 IN  /\ plan' = [plan EXCEPT ![p] = new]
                     /\ UNCHANGED <<trade, review, fill>>
                     /\ new.trade = NoTrade /\ row \in Life!Row
                     /\ \/ /\ row.status \in {"none", "draft"}
                           /\ new.status = "draft"
                        \/ /\ row.status \in {"draft", "intended"}
                           /\ \E e \in Expiries : new = [row EXCEPT !.expiry = e]
                        \/ /\ row.status = "draft" /\ row.legs /\ row.exit
                           /\ new = [row EXCEPT !.status = "intended"]
                        \/ /\ row.status \in {"draft", "intended"}
                           /\ new = [row EXCEPT !.status = "cancelled"]
                        \/ /\ row.status = "draft"
                           /\ new = [row EXCEPT !.status = "gone"]
<1> DEFINE q == req[s]
           p == q.plan
           row == plan[p]
<1>1. q.op \in PlanOps \ {"link"} /\ at[s] = "check" /\ UNCHANGED <<trade, review, fill>>
  BY DEF WritePlan
<1>2. q \in Requests /\ p \in Plans
  BY <1>1, RequestFields DEF BookInv, TypeOK
<1>3. HoldsPlan(s, p)
  BY <1>1 DEF HoldsPlan
<1>4. read[s] = row /\ (q.op = "create" <=> row.status = "none")
  BY <1>2, <1>3 DEF BookInv, Locks, PlanLocks
<1>5. CASE ~Allowed(q, row)
  BY <1>1, <1>4, <1>5 DEF WritePlan, tables
<1>6. CASE Allowed(q, row)
  <2>1. row \in Life!Row /\ (row.trade # NoTrade => row.status = "filled")
    BY <1>2 DEF BookInv, TypeOK, Locks, OnlyFilledNames
  <2>2. plan' = [plan EXCEPT ![p] = Edited(q, row)]
    BY <1>4, <1>6 DEF WritePlan
  <2> HIDE DEF q, p
  <2> QED BY <1>1, <1>2, <1>4, <1>6, <2>1, <2>2, EditedRow
<1> QED BY <1>5, <1>6

\* The trades a review or a fill names, as the lifecycle sees them.
Tied == review \cup {t \in Trades : \E f \in Fills : fill[f] = t}

\* A step that writes nothing is no step of the lifecycle.
LEMMA QuietStutters == ASSUME UNCHANGED tables PROVE UNCHANGED Life!lifeVars
BY DEF tables, Life!lifeVars

LEMMA WritePlanRefines ==
    ASSUME BookAssumption, BookInv, NEW s \in Sessions, WritePlan(s)
    PROVE  Life!LifeNext \/ UNCHANGED Life!lifeVars
<1>1. CASE UNCHANGED tables
  BY <1>1, QuietStutters
<1>2. CASE ~UNCHANGED tables
  <2>1. PICK p \in Plans, new \in Life!Row :
            /\ plan' = [plan EXCEPT ![p] = new]
            /\ UNCHANGED <<trade, review, fill>>
            /\ new.trade = NoTrade /\ plan[p] \in Life!Row
            /\ \/ /\ plan[p].status \in {"none", "draft"}
                  /\ new.status = "draft"
               \/ /\ plan[p].status \in {"draft", "intended"}
                  /\ \E e \in Expiries : new = [plan[p] EXCEPT !.expiry = e]
               \/ /\ plan[p].status = "draft" /\ plan[p].legs /\ plan[p].exit
                  /\ new = [plan[p] EXCEPT !.status = "intended"]
               \/ /\ plan[p].status \in {"draft", "intended"}
                  /\ new = [plan[p] EXCEPT !.status = "cancelled"]
               \/ /\ plan[p].status = "draft"
                  /\ new = [plan[p] EXCEPT !.status = "gone"]
    BY <1>2, WritePlanRow
  <2>2. UNCHANGED <<trade, Tied>>
    BY <2>1 DEF Tied
  <2>3. CASE plan[p].status \in {"none", "draft"} /\ new.status = "draft"
    <3>1. Life!Write(p)
      BY <2>1, <2>2, <2>3 DEF Life!Write, Tied
    <3> QED BY <3>1 DEF Life!LifeNext
  <2>4. CASE /\ plan[p].status \in {"draft", "intended"}
             /\ \E e \in Expiries : new = [plan[p] EXCEPT !.expiry = e]
    <3>1. Life!Extend(p)
      BY <2>1, <2>2, <2>4 DEF Life!Extend, Tied, BookInv, TypeOK
    <3> QED BY <3>1 DEF Life!LifeNext
  <2>5. CASE /\ plan[p].status = "draft" /\ plan[p].legs /\ plan[p].exit
             /\ new = [plan[p] EXCEPT !.status = "intended"]
    <3>1. Life!Intend(p)
      BY <2>1, <2>2, <2>5 DEF Life!Intend, Life!Become, Tied, BookInv, TypeOK
    <3> QED BY <3>1 DEF Life!LifeNext
  <2>6. CASE /\ plan[p].status \in {"draft", "intended"}
             /\ new = [plan[p] EXCEPT !.status = "cancelled"]
    <3>1. Life!Cancel(p)
      BY <2>1, <2>2, <2>6 DEF Life!Cancel, Life!Become, Tied, BookInv, TypeOK
    <3> QED BY <3>1 DEF Life!LifeNext
  <2>7. CASE /\ plan[p].status = "draft"
             /\ new = [plan[p] EXCEPT !.status = "gone"]
    <3>1. Life!Remove(p)
      BY <2>1, <2>2, <2>7 DEF Life!Remove, Life!Become, Tied, BookInv, TypeOK
    <3> QED BY <3>1 DEF Life!LifeNext
  <2> QED BY <2>1, <2>3, <2>4, <2>5, <2>6, <2>7
<1> QED BY <1>1, <1>2

LEMMA CommitRefines ==
    ASSUME BookAssumption, BookInv, BookInv', NEW s \in Sessions, Commit(s)
    PROVE  Life!LifeNext \/ UNCHANGED Life!lifeVars
<1> DEFINE q == req[s]
<1>1. q \in Requests /\ at[s] = "commit" /\ UNCHANGED trade
  BY DEF Commit, BookInv, TypeOK
<1>2. CASE q.op = "link"
  <2>1. q.plan \in Plans /\ q.trade \in Trades
    BY <1>1, <1>2, RequestFields DEF PlanOps, ReferOps
  <2>2. HoldsPlan(s, q.plan)
    BY <1>1, <1>2 DEF HoldsPlan, PlanOps
  <2>3. plan[q.plan].status = "intended"
    BY <1>1, <2>1, <2>2 DEF BookInv, Locks, PlanLocks
  <2>4. plan' = [plan EXCEPT ![q.plan].status = "filled", ![q.plan].trade = q.trade]
    BY <1>2 DEF Commit
  <2>5. UNCHANGED <<review, fill>>
    BY <1>2 DEF Commit
  <2>6. trade[q.trade] = plan[q.plan].account
    <3>1. /\ plan'[q.plan].trade = q.trade
          /\ plan'[q.plan].account = plan[q.plan].account
      BY <2>1, <2>4 DEF BookInv, TypeOK, Life!Row
    <3>2. q.trade # NoTrade
      BY <2>1 DEF BookAssumption
    <3> QED BY <1>1, <2>1, <3>1, <3>2 DEF BookInv, NamesAStandingTrade
  <2>7. Life!Fill(q.plan, q.trade)
    BY <1>1, <2>3, <2>4, <2>5, <2>6 DEF Life!Fill
  <2> QED BY <2>1, <2>7 DEF Life!LifeNext
<1>3. CASE q.op # "link"
  <2>1. UNCHANGED plan
    BY <1>3 DEF Commit
  <2>2. Tied' \subseteq Life!Opened'
    BY DEF BookAssumption, BookInv, TypeOK, NamesAStandingTrade, Standing, Tied, Life!Opened
  <2>3. Life!Opened' = Life!Opened
    BY <1>1 DEF Life!Opened
  <2>4. Life!Tie
    BY <1>1, <2>1, <2>2, <2>3 DEF Life!Tie, Tied
  <2> QED BY <2>4 DEF Life!LifeNext
<1> QED BY <1>2, <1>3

LEMMA TradeStepsRefine ==
    ASSUME BookAssumption, BookInv, NEW s \in Sessions, OpenTrade(s) \/ Erase(s)
    PROVE  Life!LifeNext \/ UNCHANGED Life!lifeVars
<1> DEFINE q == req[s]
           t == q.trade
<1>1. UNCHANGED <<plan, Tied>>
  BY DEF OpenTrade, Erase, Tied
<1>2. CASE OpenTrade(s)
  <2>1. t \in Trades /\ q.account \in Accounts /\ Opens(s, t)
    BY <1>2, RequestFields DEF OpenTrade, Opens, BookInv, TypeOK
  <2>2. trade[t] = "none"
    BY <2>1 DEF BookInv, Locks, TradeLocks
  <2>3. Life!Open(t, q.account)
    BY <1>1, <1>2, <2>2 DEF OpenTrade, Life!Open, Tied
  <2> QED BY <2>1, <2>3 DEF Life!LifeNext
<1>3. CASE Erase(s) /\ Referenced(t)
  BY <1>3, QuietStutters DEF Erase, tables
<1>4. CASE Erase(s) /\ ~Referenced(t)
  <2>1. t \in Trades /\ HoldsTrade(s, t)
    BY <1>4, RequestFields DEF Erase, HoldsTrade, BookInv, TypeOK
  <2>2. Standing(t)
    BY <2>1 DEF BookInv, Locks, TradeLocks
  <2>3. t \in Life!Opened \ Tied /\ \A p \in Plans : plan[p].trade # t
    BY <1>4, <2>1, <2>2 DEF Referenced, Standing, Tied, Life!Opened
  <2>4. trade' = [trade EXCEPT ![t] = "gone"]
    BY <1>4 DEF Erase
  <2>5. Life!Close(t)
    BY <1>1, <2>3, <2>4 DEF Life!Close, Tied
  <2> QED BY <2>1, <2>5 DEF Life!LifeNext
<1> QED BY <1>2, <1>3, <1>4

LEMMA StepRefines ==
    ASSUME BookAssumption, BookInv, BookInv', [Next]_bookVars
    PROVE  [Life!LifeNext]_Life!lifeVars
<1>1. CASE UNCHANGED bookVars
  BY <1>1, QuietStutters DEF bookVars
<1>2. ASSUME NEW s \in Sessions, Step(s)
      PROVE  Life!LifeNext \/ UNCHANGED Life!lifeVars
  <2>1. CASE LockPlan(s) \/ CheckLink(s) \/ ReadTrade(s) \/ TakeShare(s) \/ LockTrade(s) \/ Count(s)
    BY <2>1, QuietStutters DEF LockPlan, CheckLink, ReadTrade, TakeShare, LockTrade, Count
  <2> QED BY <1>2, <2>1, WritePlanRefines, CommitRefines, TradeStepsRefine DEF Step
<1>3. ASSUME NEW s \in Sessions, Fail(s)
      PROVE  UNCHANGED Life!lifeVars
  BY <1>3, QuietStutters DEF Fail
<1>4. ASSUME NEW s \in Sessions, NEW q \in Requests, Begin(s, q)
      PROVE  UNCHANGED Life!lifeVars
  BY <1>4, QuietStutters DEF Begin
<1> QED BY <1>1, <1>2, <1>3, <1>4 DEF Next

LEMMA InitRefines == ASSUME BookAssumption, Init PROVE Life!LifeInit
<1>1. NoTrade \notin Trades
  BY DEF BookAssumption
<1>2. Blank \in {r \in Life!Row : r.status = "none" /\ r.trade = NoTrade}
  BY BlankRow DEF Blank
<1>3. plan \in [Plans -> {r \in Life!Row : r.status = "none" /\ r.trade = NoTrade}]
  BY <1>2 DEF Init
<1>4. Tied = {} /\ trade = [t \in Trades |-> "none"]
  BY <1>1 DEF Init, Tied
<1> QED BY <1>3, <1>4 DEF Life!LifeInit, Tied

\* Every interleaving of the writers, failures included, behaves as whole calls taken
\* one at a time: PlanLifecycle, "create -> draft, draft -> intended -> filled".
THEOREM BookKeepsLifecycle == Spec => LifecycleKept
<1>1. Init => Life!LifeInit
  BY BookAssumption, InitRefines
<1>2. BookInv /\ BookInv' /\ [Next]_bookVars => [Life!LifeNext]_Life!lifeVars
  BY BookAssumption, StepRefines
<1> QED BY <1>1, <1>2, Invariance, PTL DEF Spec, LifecycleKept, Life!LifeSpec

\* A lifecycle step leaves an intended plan's content alone.
LEMMA LifeFreezes ==
    ASSUME BookInv, Life!LifeNext \/ UNCHANGED Life!lifeVars, NEW x \in Plans,
           plan[x].status = "intended"
    PROVE  /\ plan'[x].status \in {"intended", "filled", "cancelled"}
           /\ plan'[x].account = plan[x].account
           /\ plan'[x].legs = plan[x].legs /\ plan'[x].exit = plan[x].exit
<1>1. plan \in [Plans -> Life!Row]
  BY DEF BookInv, TypeOK
<1>2. CASE UNCHANGED plan
  BY <1>2
<1>3. ASSUME NEW p \in Plans, Life!Write(p)
      PROVE  plan'[x] = plan[x]
  BY <1>1, <1>3 DEF Life!Write
<1>4. ASSUME NEW p \in Plans, Life!Extend(p)
      PROVE  \/ plan'[x] = plan[x]
             \/ \E e : plan'[x] = [plan[x] EXCEPT !.expiry = e]
  <2>1. PICK e \in Expiries : plan' = [plan EXCEPT ![p].expiry = e]
    BY <1>4 DEF Life!Extend
  <2>2. plan'[x] = plan[x] \/ plan'[x] = [plan[x] EXCEPT !.expiry = e]
    BY <1>1, <2>1
  <2> QED BY <2>2
<1>5. ASSUME NEW p \in Plans, Life!Intend(p) \/ Life!Remove(p)
      PROVE  plan'[x] = plan[x]
  BY <1>1, <1>5 DEF Life!Intend, Life!Remove, Life!Become
<1>6. ASSUME NEW p \in Plans, Life!Cancel(p)
      PROVE  plan'[x] = plan[x] \/ plan'[x] = [plan[x] EXCEPT !.status = "cancelled"]
  BY <1>1, <1>6 DEF Life!Cancel, Life!Become
<1>7. ASSUME NEW p \in Plans, NEW t \in Trades, Life!Fill(p, t)
      PROVE  \/ plan'[x] = plan[x]
             \/ plan'[x] = [plan[x] EXCEPT !.status = "filled", !.trade = t]
  BY <1>1, <1>7 DEF Life!Fill
<1>8. plan[x] \in Life!Row
  BY <1>1
<1>9. \/ plan'[x] = plan[x]
      \/ \E e : plan'[x] = [plan[x] EXCEPT !.expiry = e]
      \/ plan'[x] = [plan[x] EXCEPT !.status = "cancelled"]
      \/ \E t \in Trades : plan'[x] = [plan[x] EXCEPT !.status = "filled", !.trade = t]
  <2>1. CASE \E p \in Plans : \/ Life!Write(p) \/ Life!Extend(p) \/ Life!Intend(p)
                              \/ Life!Cancel(p) \/ Life!Remove(p)
                              \/ \E t \in Trades : Life!Fill(p, t)
    BY <2>1, <1>3, <1>4, <1>5, <1>6, <1>7
  <2>2. CASE \/ \E t \in Trades : Life!Close(t) \/ \E a \in Accounts : Life!Open(t, a)
             \/ Life!Tie
    BY <2>2 DEF Life!Close, Life!Open, Life!Tie
  <2> QED BY <2>1, <2>2 DEF Life!LifeNext, Life!lifeVars
<1> QED BY <1>8, <1>9 DEF Life!Row

\* "Once intended, the content is frozen", for any number of writers at once.
THEOREM IntentsFrozen == Spec => IntentIsFrozen
<1> DEFINE Frozen == \A p \in Plans : plan[p].status = "intended" =>
               LET old == plan[p]
                   new == plan'[p]
               IN  /\ new.status \in {"intended", "filled", "cancelled"}
                   /\ <<new.account, new.legs, new.exit>> = <<old.account, old.legs, old.exit>>
<1>1. BookInv /\ BookInv' /\ [Next]_bookVars => [Frozen]_bookVars
  BY BookAssumption, StepRefines, LifeFreezes
<1> QED BY <1>1, Invariance, PTL DEF Spec, IntentIsFrozen
=============================================================================
