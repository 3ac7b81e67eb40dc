---------------------------- MODULE Performance ----------------------------
(***************************************************************************)
(* What is computed from the executions: the FIFO pairs of option fills    *)
(* and their calendar (portfolio/reader/accounts_helpers.py), and the      *)
(* realized results of the book, of a trade and of a range of days         *)
(* (portfolio/reader/executions.py).                                       *)
(***************************************************************************)
EXTENDS ExecutionBook, Payoff

CONSTANTS
    LookBack,       \* days before a range an opening leg is looked for
    StatsLimit,     \* fills get_performance_stats reads, the newest ones
    PairLimit,      \* fills it reads of the days before, to look for opening legs
    SummaryLimit    \* fills get_performance_instance_summary_only reads

\* The limits are 5000, 20000 and 50000.
ASSUME LimitAssumption ==
    /\ {LookBack, StatsLimit, PairLimit, SummaryLimit} \subseteq Nat
    /\ StatsLimit <= PairLimit /\ StatsLimit <= SummaryLimit

\* A fraction of an amount, a float in the code, is a whole number of the model's: every
\* quantity and every total of splits divides Unit.
ASSUME ShareAssumption ==
    /\ \A q \in {s.qty : s \in Shapes} \cup (Parts \cap Nat) : Unit % q = 0
    /\ \A T \in (SUBSET Trades) \ {{}} : \A splits \in [T -> Parts] :
           Unit % SumFunction([t \in T |-> AbsOf(splits[t])]) = 0

-----------------------------------------------------------------------------
(* Pairs of option fills.                                                  *)

\* executionDateStr: the trade date, else the Chicago date of the time, else "".
FifoDay(i) == IF raw[i].day # 0 THEN raw[i].day
              ELSE IF raw[i].time # 0 THEN SessionDay(raw[i].time) ELSE 0

\* _fifo_sort_key.
FifoBefore(i, j) ==
    \/ FifoDay(i) < FifoDay(j)
    \/ FifoDay(i) = FifoDay(j) /\ raw[i].time < raw[j].time
    \/ FifoDay(i) = FifoDay(j) /\ raw[i].time = raw[j].time /\ i < j

\* Mutant: the legs are taken in the order they were imported in.
OldestAsImported(S) == Min(S)

\* The first leg in work, which is sorted.
Oldest(S) == CHOOSE i \in S : \A j \in S \ {i} : FifoBefore(i, j)

\* rem_qty of a leg o that c can close, and of c.
Opposite(rem, o, c) ==
    FifoBefore(o, c) /\ rem[o] > 0 /\ rem[c] > 0 /\ raw[o].buy # raw[c].buy

\* One round: the first leg with an open opposite leg before it closes the first such leg,
\* as far as the smaller of the two goes. leg_c opens, leg_p closes.
Round(work) ==
    LET S == DOMAIN work.rem
        closers == {c \in S : \E o \in S : Opposite(work.rem, o, c)}
        c == Oldest(closers)
        o == Oldest({i \in S : Opposite(work.rem, i, c)})
        q == Min({work.rem[o], work.rem[c]})
    IN IF closers = {} THEN work
       ELSE [rem |-> [work.rem EXCEPT ![o] = @ - q, ![c] = @ - q],
             pairs |-> work.pairs \cup {[open |-> o, close |-> c, qty |-> q]}]

\* Round after round until none pairs two legs: each uses up one of them.
Rounds(S) ==
    LET after[n \in 0 .. Cardinality(S)] ==
            IF n = 0 THEN [rem |-> [i \in S |-> raw[i].qty], pairs |-> {}] ELSE Round(after[n - 1])
    IN after[Cardinality(S)].pairs

\* The group of a leg is its underlying, expiry, strike and account, its right is not looked at.
Group(i) == <<raw[i].acct, raw[i].con.sym, raw[i].con.expiry, raw[i].con.strike>>
PairsOf(S) ==
    LET opt == {i \in S : raw[i].sec = "OPT"}
        groups == {Group(i) : i \in opt}
    IN UNION {Rounds({i \in opt : Group(i) = g}) : g \in groups}

\* net_pnl of a pair; commissions go with the matched quantity.
PairNet(p) ==
    LET buy == IF raw[p.open].buy THEN p.open ELSE p.close
        sell == IF raw[p.open].buy THEN p.close ELSE p.open
        share(i) == (p.qty * raw[i].comm) \div raw[i].qty
    IN p.qty * (raw[sell].price - raw[buy].price) * Multiplier - share(sell) - share(buy)

\* attr_date of _compute_opt_realized_calendar: the later leg's day, or the only known one.
RealizedOn(p) == Max({FifoDay(p.open), FifoDay(p.close)})
OpenedOn(p) == FifoDay(p.open)

Calendar(S, since, until) ==
    LET ps == {p \in PairsOf(S) : RealizedOn(p) # 0 /\ (since # 0 => RealizedOn(p) >= since)
                                  /\ (until # 0 => RealizedOn(p) <= until)}
    IN [d \in {RealizedOn(p) : p \in ps} |->
           SumFunction([p \in {q \in ps : RealizedOn(q) = d} |-> PairNet(p)])]

-----------------------------------------------------------------------------
(* Reads of the book.                                                      *)

\* get_executions: the newest rows up to the limit.
Executions(scope, since, until, t, limit) ==
    LET rows == Matching(scope, since, until, t)
        newer(i) == {j \in rows : Precedes(ExecKey(j), ExecKey(i))}
    IN IF Cardinality(rows) <= limit THEN rows ELSE {i \in rows : Cardinality(newer(i)) < limit}
Timed(S) == {i \in S : raw[i].time # 0}

\* calendar_by_sec_type's option rows: over the timed fills read, or with a start over the
\* option fills from LookBack days before it.
CalendarOfRange(scope, since, until, t) ==
    Calendar(Timed(Executions(scope, since, until, t, StatsLimit)), since, until)
OptCalendar(scope, since, until, t) ==
    IF since = 0 THEN Calendar(Timed(Executions(scope, 0, until, t, StatsLimit)), 0, 0)
    ELSE LET from == IF since > LookBack THEN since - LookBack ELSE 1
         IN Calendar(Timed(Executions(scope, from, until, t, PairLimit)), since, until)

\* get_executions_with_opt_pairs_single_query: the legs of the range alone, and of those
\* only the rows whose side is the word BUY or SELL.
RangeLegs(scope, since, until) == {i \in View(scope) : InRange(i, since, until) /\ ~raw[i].tws}

\* get_executions_with_opt_pairs: a pair is kept when both legs have their day in the
\* range, which is cut in Chicago; each leg names its partners.
RangePairs(scope, since, until) ==
    LET within(i) == FifoDay(i) \in since .. until
    IN {p \in PairsOf(RangeLegs(scope, since, until)) : within(p.open) /\ within(p.close)}
PairedIds(i, pairs) == {p.close : p \in {q \in pairs : q.open = i}} \cup {p.open : p \in {q \in pairs : q.close = i}}

-----------------------------------------------------------------------------
(* Realized results.                                                       *)

SplitTotal(i) == SumFunction([t \in DOMAIN Splits(i) |-> AbsOf(Splits(i)[t])])
Net(i) == raw[i].rp - raw[i].comm

\* weight_realized_for_trade of the fill's net: its share of the splits, or the whole.
WeightOverFill(i, t, amount) ==
    IF IsSplit(i) THEN IF t \in DOMAIN Splits(i) THEN (amount * AbsOf(Splits(i)[t])) \div raw[i].qty ELSE 0
    ELSE IF AttOf(i).whole = t THEN amount ELSE 0
Weighted(i, t, amount) ==
    IF IsSplit(i)
    THEN IF t \in DOMAIN Splits(i) THEN (amount * AbsOf(Splits(i)[t])) \div SplitTotal(i) ELSE 0
    ELSE IF AttOf(i).whole = t THEN amount ELSE 0

Part(i, t, amount) == IF t = NoTrade THEN amount ELSE Weighted(i, t, amount)
NetOf(S, t) == SumFunction([i \in S |-> Part(i, t, Net(i))])

\* The summary: the fills S, each weighed for the trade asked for.
Row(S, t) ==
    LET part(i) == Part(i, t, raw[i].rp)
        won == {i \in S : part(i) > 0}
        lost == {i \in S : part(i) < 0}
    IN [net |-> NetOf(S, t), fills |-> Cardinality(S),
        wins |-> Cardinality(won), losses |-> Cardinality(lost),
        gain |-> SumFunction([i \in won |-> part(i)]), loss |-> SumFunction([i \in lost |-> part(i)])]

\* A breakdown by the key of each fill.
Rows(key, t) ==
    [k \in Range(key) |-> LET S == {i \in DOMAIN key : key[i] = k}
                          IN [net |-> NetOf(S, t), fills |-> Cardinality(S)]]

StatsFills(since, until, t) == Timed(Executions("performance_book", since, until, t, StatsLimit))

\* The calendar by security type; its option rows come from OptCalendar.
TypeDays(S, t) ==
    Rows([i \in {j \in S : raw[j].sec # "OPT"} |-> <<UtcDay(raw[i].time), raw[i].sec>>], t)

\* get_performance_stats: the summary and its breakdowns over the timed fills.
Stats(since, until, t) ==
    LET S == StatsFills(since, until, t)
    IN [summary |-> Row(S, t),
        accounts |-> Rows([i \in S |-> raw[i].acct], t),
        types |-> Rows([i \in S |-> raw[i].sec], t),
        both |-> Rows([i \in S |-> <<raw[i].acct, raw[i].sec>>], t),
        days |-> Rows([i \in S |-> UtcDay(raw[i].time)], t),
        typeDays |-> TypeDays(S, t)]

\* _add_realized_splits_to_opp_and_inst: realized_by_trade of the same read.
ByTrade(since, until, only) ==
    LET S == StatsFills(since, until, only)
        named(i) == IF IsSplit(i) THEN DOMAIN Splits(i) ELSE {AttOf(i).whole} \ {NoTrade}
        trades == {t \in UNION {named(i) : i \in S} : only = NoTrade \/ t = only}
    IN [t \in trades |-> SumFunction([i \in S |-> Weighted(i, t, Net(i))])]

\* get_performance_instance_summary_only: every fill with a weight, timed or not.
TradeSummary(since, until, t) ==
    LET S == Executions("performance_book", since, until, t, SummaryLimit)
    IN Row({i \in S : IF IsSplit(i) THEN t \in DOMAIN Splits(i) ELSE AttOf(i).whole = t}, t)

-----------------------------------------------------------------------------
Days == 1 .. Max({1} \cup {FifoDay(i) : i \in DOMAIN raw})
Bounds == {<<0, 0>>} \cup {b \in Days \X Days : b[1] <= b[2]}

\* The units of a leg of S, those of its side counted in FIFO order.
Units(i, S) ==
    LET ahead == SumFunction([j \in {k \in S : raw[k].buy = raw[i].buy /\ FifoBefore(k, i)} |-> raw[j].qty])
    IN ahead + 1 .. ahead + raw[i].qty

\* The k-th unit bought of a contract is paired with the k-th unit sold, no fill pairs with
\* itself or one of its own side, and once the contract is flat the pairs' net is the cash
\* its fills moved (accounts_helpers._compute_opt_pair_map_and_pairs).
PairsAreFifo ==
    \A g \in {Group(i) : i \in {j \in Canonical : raw[j].sec = "OPT"}} :
        LET S == {i \in Canonical : raw[i].sec = "OPT" /\ Group(i) = g}
            pairs == PairsOf(S)
            moved(i) == -Signed(i) * raw[i].price * Multiplier - raw[i].comm
        IN /\ \A b, s \in S :
                  SumFunction([p \in {q \in pairs : {q.open, q.close} = {b, s}} |-> p.qty])
                      = IF raw[b].buy # raw[s].buy THEN Cardinality(Units(b, S) \cap Units(s, S)) ELSE 0
           /\ SumFunction([i \in S |-> Signed(i)]) = 0 =>
                  SumFunction([p \in pairs |-> PairNet(p)]) = SumFunction([i \in S |-> moved(i)])

\* What a range's calendar says of a day is what the whole book's says, however the book
\* is cut into ranges (executions.get_performance_stats) -- while every option fill has
\* its date and time and none is older than the look-back; and a range's pairs are the
\* book's pairs in it when no contract was held at its start
\* (executions.get_executions_with_opt_pairs) and no row is TWS's.
RangesAgree ==
    LET opt == {i \in Final : raw[i].sec = "OPT"}
        whole == OptCalendar("performance_book", 0, 0, NoTrade)
        before(g, d) == SumFunction([i \in {j \in opt : Group(j) = g /\ FifoDay(j) < d} |-> Signed(i)])
    IN \A b \in Bounds \ {<<0, 0>>} :
           LET part == OptCalendar("performance_book", b[1], b[2], NoTrade)
           IN (\A i \in opt : raw[i].day # 0 /\ raw[i].time # 0) /\ Cardinality(Final) <= StatsLimit =>
              /\ (\A i \in opt : FifoDay(i) + LookBack >= b[1]) =>
                     \A d \in b[1] .. b[2] :
                         /\ (d \in DOMAIN part) = (d \in DOMAIN whole)
                         /\ d \in DOMAIN part => part[d] = whole[d]
              /\ (\A i \in opt : before(Group(i), b[1]) = 0) =>
                     LET pairs == RangePairs("performance_book", b[1], b[2])
                     IN /\ pairs = {p \in PairsOf(Final) : OpenedOn(p) >= b[1] /\ RealizedOn(p) <= b[2]}
                        /\ \A i, j \in opt : j \in PairedIds(i, pairs) =>
                               raw[i].buy # raw[j].buy /\ i \in PairedIds(j, pairs)

\* The three readers of a trade's realized net agree in every range -- the trade's own
\* statistics, its row in the book's, its summary, which counts the same wins and losses --
\* and the trades' nets with the fills of none, like the rows of every breakdown, add up to
\* the book's, however the fills are attributed and corrected
\* (executions.get_performance_stats and its helpers) -- while every fill has its time and
\* the read is within its limit.
TradesAddUp ==
    LET total(rows) == SumFunction([k \in DOMAIN rows |-> rows[k].net])
        adds(stats) ==
            /\ \A name \in {"accounts", "types", "both", "days"} :
                  total(stats[name]) = stats.summary.net
            /\ stats.summary.net = total(stats.typeDays)
                  + IF "OPT" \in DOMAIN stats.types THEN stats.types["OPT"].net ELSE 0
    IN \A b \in Bounds :
        LET book == Stats(b[1], b[2], NoTrade)
            rows == ByTrade(b[1], b[2], NoTrade)
            none == {i \in StatsFills(b[1], b[2], NoTrade) : ~IsSplit(i) /\ AttOf(i).whole = NoTrade}
            small == Cardinality(Final) <= StatsLimit
        IN /\ book.summary.net = SumFunction(rows) + SumFunction([i \in none |-> Net(i)])
           /\ adds(book)
           /\ small => \A t \in Trades :
                  LET own == Stats(b[1], b[2], t)
                      net == own.summary.net
                      alone == TradeSummary(b[1], b[2], t)
                  IN /\ net = IF t \in DOMAIN rows THEN rows[t] ELSE 0
                     /\ net = SumFunction(ByTrade(b[1], b[2], t))
                     /\ adds(own)
                     /\ Timed(Final) = Final =>
                            [alone EXCEPT !.fills = 0] = [own.summary EXCEPT !.fills = 0]
=============================================================================
