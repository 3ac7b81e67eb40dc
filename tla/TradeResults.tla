---------------------------- MODULE TradeResults ----------------------------
(***************************************************************************)
(* What a trade has earned, risks and still holds, read from the           *)
(* executions: its state (monitor/reader/instance_state.py), its net with  *)
(* the slippage of stock fills linked to its options                       *)
(* (portfolio/reader/instance_exec_net_pnl.py, option_stock_link.py) and   *)
(* the win rate (monitor/reader/strategy_win_rate.py).                     *)
(*                                                                         *)
(* A link names its rows by account_executions_id, which no later row      *)
(* gets again: the id of a deleted row is Gone.                            *)
(***************************************************************************)
EXTENDS Performance

CONSTANTS StructureOf   \* the structure of each trade's opportunity

ASSUME StructureAssumption == DOMAIN StructureOf = Trades

VARIABLES
    links,      \* account_execution_option_stock_link
    asked       \* the link whose legs a caller has looked up and not inserted yet, or none

resultVars == <<bookVars, links, asked>>

Gone == 0

-----------------------------------------------------------------------------
(* Links between an option fill and the stock fills of its exercise.       *)

Severed(l) == [opt |-> IF l.opt \in DOMAIN raw' THEN l.opt ELSE Gone,
               stk |-> IF l.stk \in DOMAIN raw' THEN l.stk ELSE Gone]

\* Every operation of the book; delete_one_execution does not look at the links.
BookStep ==
    /\ Next
    /\ links' = {Severed(l) : l \in links}
    /\ asked' = [n \in DOMAIN asked |-> Severed(asked[n])]

\* insert_option_stock_link: both legs are looked up in the final book ...
AskLink(o, s) ==
    /\ LinkEdit /\ asked = <<>>
    /\ raw[o].sec = "OPT" /\ raw[s].sec = "STK"
    /\ raw[o].acct = raw[s].acct /\ raw[o].con.sym = raw[s].con.sym
    /\ asked' = <<[opt |-> o, stk |-> s]>> /\ links' = links

\* ... and the row is inserted, or refused as a duplicate; no key names the legs.
InsertLink ==
    /\ asked # <<>> /\ asked' = <<>> /\ links' = links \cup Range(asked)
    /\ UNCHANGED bookVars

\* delete_option_stock_link and its strict form.
Unlink(l) ==
    /\ LinkEdit /\ links' = links \ {l} /\ asked' = asked

\* delete_execution_strict refuses a row that a link names.
DeleteUnlinked(i) ==
    /\ StrictDelete(i)
    /\ \A l \in links : i \notin {l.opt, l.stk}
    /\ links' = links /\ asked' = [n \in DOMAIN asked |-> Severed(asked[n])]

ResultNext ==
    \/ BookStep
    \/ \E o, s \in Final : AskLink(o, s)
    \/ InsertLink
    \/ \E l \in links : Unlink(l)
    \/ \E i \in DOMAIN raw : DeleteUnlinked(i)

ResultInit == Init /\ links = {} /\ asked = <<>>

ResultSpec == ResultInit /\ [][ResultNext]_resultVars

-----------------------------------------------------------------------------
(* Where a trade stands.                                                   *)

Named(i, t) == AttOf(i).whole = t \/ t \in DOMAIN Splits(i)
Options(S) == {i \in S : raw[i].sec = "OPT"}
Side(i) == IF raw[i].buy THEN 1 ELSE -1

\* Mutant: a split carries its own sign already.
LegQtySigned(i, t) ==
    (IF AttOf(i).whole = t THEN Signed(i) ELSE 0)
        + (IF t \in DOMAIN Splits(i) THEN Side(i) * Splits(i)[t] ELSE 0)

\* _LEGS_SQL joins every attribution row, the whole one and the splits, and takes the side
\* from the fill.
LegQty(i, t) ==
    (IF AttOf(i).whole = t THEN Signed(i) ELSE 0)
        + (IF t \in DOMAIN Splits(i) THEN Side(i) * AbsOf(Splits(i)[t]) ELSE 0)

\* read_instance_legs: one leg per contract.
LegsOf(t) ==
    LET fills == {i \in Options(Canonical) : Named(i, t)}
    IN {LET on == {i \in fills : raw[i].con = c}
        IN [con |-> c, net |-> SumFunction([i \in on |-> LegQty(i, t)]),
            last |-> Max({FifoDay(i) : i \in on})] : c \in {raw[i].con : i \in fills}}

\* derive_state: what the trade is on a day, and the day it was over.
StateOf(t, today) ==
    LET all == LegsOf(t)
        open == {l \in all : l.net # 0}
    IN CASE all = {} -> [state |-> "no_fills", on |-> 0]
         [] all # {} /\ open = {} -> [state |-> "closed", on |-> Max({l.last : l \in all})]
         [] open # {} /\ (\A l \in open : l.con.expiry # 0 /\ l.con.expiry < today) ->
                [state |-> "expired", on |-> Max({l.con.expiry : l \in open})]
         [] OTHER -> [state |-> "open", on |-> 0]

-----------------------------------------------------------------------------
(* What a trade has earned.                                                *)

\* slice_execution_for_instance_opt_view: the trade's part of a fill. Its amounts are
\* prorated like Weighted does.
InSlice(i, t) == IF IsSplit(i) THEN t \in DOMAIN Splits(i) ELSE AttOf(i).whole = t
SliceQty(i, t) == IF IsSplit(i) THEN AbsOf(Splits(i)[t]) ELSE raw[i].qty
Slices(since, until, t) ==
    {i \in Executions("performance_book", since, until, t, SummaryLimit) : InSlice(i, t)}

\* get_option_stock_links: the linked stock fills that are in the final book, each by its
\* distance to the day's close, whatever its side.
LinkRows(i) ==
    {[stk |-> s, slip |-> raw[s].qty * (raw[s].price - raw[s].close)] :
        s \in {n \in {l.stk : l \in {k \in links : k.opt = i}} \cap Final : raw[n].close # 0}}

\* get_option_stock_links_bulk: the total of an option's rows.
Slippage(i) == SumFunction([r \in LinkRows(i) |-> r.slip])

\* Mutant: every trade of a split option fill gets its slippage whole.
SlippageWhole(i, t) == Slippage(i)

\* _instance_option_stock_slippage_adjustment: the slice's part of the row's quantity.
SlippagePart(i, t) == (Slippage(i) * SliceQty(i, t)) \div raw[i].qty

\* compute_instance_exec_derived_net_pnl: an option's premium less its commission, another
\* fill's realized P&L, and the slippage.
InstanceNet(since, until, t) ==
    LET S == Slices(since, until, t)
        premium(i) == -Side(i) * raw[i].price * SliceQty(i, t) * Multiplier - Weighted(i, t, raw[i].comm)
    IN SumFunction([i \in Options(S) |-> premium(i) + SlippagePart(i, t)])
       + SumFunction([i \in S \ Options(S) |-> Weighted(i, t, raw[i].rp)])

\* _batch_underlying_cost, over all days: split rows by their own trade, a whole fill only
\* when it has none.
UnderlyingCost(t) ==
    LET sold == {i \in Options(Final) : ~raw[i].buy /\ raw[i].con.strike > 0}
        cost(i, q) == q * Multiplier * raw[i].con.strike
    IN SumFunction([i \in {j \in sold : t \in DOMAIN Splits(j)} |-> cost(i, AbsOf(Splits(i)[t]))])
       + SumFunction([i \in {j \in sold : AttOf(j).whole = t /\ ~IsSplit(j)} |-> cost(i, raw[i].qty)])

\* _instance_max_risk_from_executions: a position per strike and right, its premium the
\* average over what is left of it; a position that is flat goes, its premium with it.
NetPositions(S, t) ==
    LET keys == {<<raw[i].con.strike, raw[i].con.right>> : i \in S}
        on(k) == {i \in S : <<raw[i].con.strike, raw[i].con.right>> = k}
        qty(k) == SumFunction([i \in on(k) |-> Side(i) * SliceQty(i, t)])
        paid(k) == SumFunction([i \in on(k) |-> Side(i) * SliceQty(i, t) * raw[i].price])
    IN {[strike |-> k[1], right |-> k[2], qty |-> qty(k), cost |-> AbsOf(paid(k))] :
        k \in {x \in keys : qty(x) # 0}}

MaxRisk(since, until, t) ==
    LET ps == NetPositions(Options(Slices(since, until, t)), t)
    IN IF ps # {} /\ ~Unlimited(ps) /\ WorstLoss(ps) < 0 THEN -WorstLoss(ps) ELSE UnderlyingCost(t)

-----------------------------------------------------------------------------
(* The win rate.                                                           *)

\* list_instances' executions_count # 0.
Active == {t \in Trades : \E i \in Final : Named(i, t)}

\* _aggregate_win_rate_metrics: a trade that earned nothing is a loss that loses nothing.
Metrics(since, until, ts) ==
    LET net == [t \in ts |-> InstanceNet(since, until, t)]
        won == {t \in ts : net[t] > 0}
        lost == {t \in ts : net[t] < 0}
    IN [trades |-> Cardinality(ts), won |-> Cardinality(won), lost |-> Cardinality(ts \ won),
        profit |-> SumFunction([t \in won |-> net[t]]),
        loss |-> SumFunction([t \in lost |-> net[t]]),
        cost |-> SumFunction([t \in ts |-> UnderlyingCost(t)])]

\* compute_win_rate_by_structure.
WinRate(since, until) ==
    [all |-> Metrics(since, until, Active),
     structures |-> [s \in {StructureOf[t] : t \in Active} |->
                        Metrics(since, until, {t \in Active : StructureOf[t] = s})]]

-----------------------------------------------------------------------------
OneWayOnly(i) == ~IsSplit(i) \/ AttOf(i).whole = NoTrade
WhollyShared(i) == IsSplit(i) => SplitTotal(i) = raw[i].qty
OfOneSign(i) == IsSplit(i) => SumFunction(Splits(i)) = Signed(i)

\* What a position the broker still lists gives the trade: nothing once it is closed, only
\* contracts past their expiry when it is expired, and of an open trade a contract that is
\* not; a trade without fills is on no option position; a closed one closed on the day its
\* last pair was realized (instance_state.derive_state against
\* executions.get_position_instance_attribution and the FIFO pairs) -- while its fills are
\* attributed one way, shared out by splits of one sign, none stands beside the Flex rows
\* of its contract that its position prefers, no fill of another underlying counts in it, and
\* its fills of a contract are on one account: the legs are summed over accounts, a position
\* is one account's.
StatesAgree ==
    \A t \in Trades :
        LET fills == {i \in Options(Canonical) : Named(i, t)}
            listed == \E a \in Accounts, c \in Contracts :
                          c.right # "-" /\ \E i \in Counted(a, c) : t \in NamedBy(i)
            position(i, q) == [acct |-> raw[i].acct, con |-> raw[i].con, qty |-> q]
            gives(i) == {q \in Parts : \E r \in AttributionRows(position(i, q)) : r.trade = t /\ r.qty # 0}
            past(i, today) == raw[i].con.expiry # 0 /\ raw[i].con.expiry < today
        IN /\ \A i \in fills : LET on == Counted(raw[i].acct, raw[i].con)
                               IN OneWayOnly(i) /\ WhollyShared(i) /\ OfOneSign(i) /\ i \in on
                                  /\ \A j \in on : raw[j].con = raw[i].con
           /\ \A i, j \in fills : raw[i].con = raw[j].con => raw[i].acct = raw[j].acct
           => \A today \in Days :
              LET now == StateOf(t, today)
              IN /\ now.state = "no_fills" <=> ~listed
                 /\ now.state = "closed" => \A i \in fills : gives(i) = {}
                 /\ now.state = "expired" => \A i \in fills : gives(i) # {} => past(i, today)
                 /\ now.state = "expired" => \E i \in fills : gives(i) = Parts
                 /\ now.state = "open" => \E i \in fills : gives(i) = Parts /\ ~past(i, today)
                 /\ now.state = "closed" /\ (\A i \in fills : ~IsSplit(i)) =>
                        now.on = Max({RealizedOn(p) : p \in PairsOf(fills)})

\* The nets of the win rate's cards add up to what the attributed fills of the range moved:
\* each option's premium less its commission, each other fill's realized P&L, each linked
\* stock's slippage once for its option, however the fills are split; and the cost of a
\* card to what its trades sold (strategy_win_rate.compute_win_rate_by_structure) -- while
\* no quantity was corrected after its splits and the summary is within its limit.
WinRateIsTheBook ==
    LET shared == {i \in Final : IsSplit(i) \/ AttOf(i).whole # NoTrade}
        moved(i) == IF raw[i].sec = "OPT"
                    THEN -Signed(i) * raw[i].price * Multiplier - raw[i].comm + Slippage(i)
                    ELSE raw[i].rp
        sold == {i \in Options(shared) : ~raw[i].buy}
        net(m) == m.profit + m.loss
    IN (\A i \in shared : WhollyShared(i)) /\ Cardinality(Final) <= SummaryLimit =>
       \A b \in Bounds :
           LET page == WinRate(b[1], b[2])
           IN /\ net(page.all) = SumFunction([i \in {j \in shared : InRange(j, b[1], b[2])} |-> moved(i)])
              /\ page.all.cost = SumFunction([i \in sold |-> raw[i].qty * Multiplier * raw[i].con.strike])
              /\ net(page.all) = SumFunction([s \in DOMAIN page.structures |-> net(page.structures[s])])

\* The max risk of a trade with defined risk is what it loses at the worst price of its
\* underlying, every price counted and every premium in (strategy_win_rate._batch_max_risk
\* and payoff._compute_envelope) -- while it has bought or sold each contract and not both,
\* in contracts of one expiry, and can lose at all.
RiskIsTheWorst ==
    \A t \in Trades :
        LET S == Options(Slices(0, 0, t))
            premium == SumFunction([i \in S |-> -Side(i) * SliceQty(i, t) * raw[i].price * Multiplier])
            worth(price) == SumFunction(
                [i \in S |-> Side(i) * SliceQty(i, t) * Multiplier
                             * Intrinsic(raw[i].con.strike, raw[i].con.right, price)])
            calls == SumFunction([i \in {j \in S : raw[j].con.right = "C"} |-> Side(i) * SliceQty(i, t)])
            top == 4 * Max({1} \cup {raw[i].con.strike \div Unit : i \in S})
            worst == Min({premium + worth(Unit * n) : n \in 0 .. top})
            key(i) == <<raw[i].con.strike, raw[i].con.right>>
        IN /\ S # {} /\ calls >= 0 /\ worst < 0
           /\ \A i, j \in S : (key(i) = key(j) => raw[i].buy = raw[j].buy) /\ raw[i].con.expiry = raw[j].con.expiry
           => MaxRisk(0, 0, t) = -worst
=============================================================================
