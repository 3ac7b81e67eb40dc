--------------------------- MODULE ExecutionBook ---------------------------
(***************************************************************************)
(* The executions of an account as the env database reads them: the raw    *)
(* rows the TWS fetch, the Flex statement and the journal write on Golden  *)
(* Source (portfolio/reader/accounts.py), the views over them              *)
(* (persistence/postgres/brokerage_views.py), the paged lists              *)
(* (portfolio/reader/executions.py, keyset.py) and the trades a position's *)
(* fills belong to.                                                        *)
(*                                                                         *)
(* A day d has two times: 2d-1 in the session and 2d in the evening, which *)
(* is day d in New York and Chicago and day d+1 in UTC. 0 is NULL. Every   *)
(* fill has an exec_id; quantities are small integers and every amount of  *)
(* money is a multiple of Unit, so that a share of it is whole.            *)
(***************************************************************************)
EXTENDS Integers, Sequences, FiniteSets, FiniteSetsExt, SequencesExt

CONSTANTS
    Trades,
    Shapes,         \* fills the broker may execute
    Lines,          \* cash lines of the Flex statement
    PageLimit,
    Parts,          \* quantities a split, a correction and a position may have
    Unit,           \* what every amount of money is a multiple of
    Casts           \* the bounds of each behaviour: its fills and who tells of them, what
                    \* the user may edit and how often, the list walked with its faults,
                    \* and the cash lines

NoTrade == "none"
JournalBase == 100

ASSUME BookAssumption ==
    /\ NoTrade \notin Trades /\ IsFiniteSet(Trades)
    /\ PageLimit \in Nat \ {0} /\ Parts \subseteq Int \ {0}
    /\ Shapes \subseteq [via : {"ib", "journal"}, acct : STRING, sec : {"OPT", "STK", "BAG"},
                         con : [sym : STRING, strike : Nat, right : {"C", "P", "-"}, expiry : Nat],
                         buy : BOOLEAN, qty : Nat \ {0}, price : Nat, close : Nat, rp : Int, fee : Nat,
                         time : Nat \ {0}, timed : BOOLEAN, dated : BOOLEAN, alias : BOOLEAN]
    /\ Unit \in Nat \ {0}
    /\ \A s \in Shapes :
           /\ \A m \in {s.price, s.close, s.rp, s.fee, s.con.strike} : m % Unit = 0
           /\ s.sec = "OPT" <=> s.con.right # "-"
           /\ s.sec = "OPT" => s.con.strike > 0
    /\ Lines \subseteq [tx : Nat, ts : Nat \ {0}, amount : Int]
    /\ \A c \in DOMAIN Casts : Casts[c] \in
           [shapes : SUBSET Shapes, fills : 0 .. JournalBase - 1, sources : SUBSET {"tws", "flex", "journal"},
            may : SUBSET {"insert", "attribute", "correct", "delete", "strict", "link"}, edits : Nat,
            list : {"none", "executions", "transactions"}, faults : Nat, lines : Nat]

VARIABLES
    broker,         \* the fills the broker has executed, in order
    through,        \* last day a Flex statement has covered for each account
    raw,            \* executions_raw_flex, _tws and _journal, by account_executions_id
    att,            \* trade_execution: each exec_id's whole trade and splits
    cash,           \* transactions, by account_transactions_id
    walk,           \* a caller that reads a list page by page
    removed,        \* history: fills a row of which the user deleted
    cast, edits, faults

bookVars == <<broker, through, raw, att, cash, walk, removed, cast, edits, faults>>

limits == Casts[cast]
SessionDay(t) == (t + 1) \div 2
UtcDay(t) == t \div 2 + 1
Accounts == {s.acct : s \in Shapes}
Fills == DOMAIN broker
Unattributed == [whole |-> NoTrade, splits |-> <<>>]
IdleWalk == [at |-> "idle"]

-----------------------------------------------------------------------------
(* Raw rows.                                                               *)

FlexRows == {i \in DOMAIN raw : i > 0}
TwsRows == {i \in DOMAIN raw : i < 0 /\ i > -JournalBase}
JournalRows == {i \in DOMAIN raw : i < -JournalBase}
FillOf(i) == IF i > 0 THEN i ELSE IF i > -JournalBase THEN -i ELSE -i - JournalBase

\* The day a source gives a fill: Flex its trade date or none, the others the UTC date of
\* exec_time when they bring none.
TradeDate(s, source) ==
    IF source # "tws" /\ s.dated THEN SessionDay(s.time)
    ELSE IF source # "flex" /\ s.timed THEN UtcDay(s.time) ELSE 0

\* One row as write_account_executions_to_db builds it. TWS says BOT and SLD.
RawRow(f, source) ==
    LET s == broker[f] IN
    [exec |-> IF source = "flex" /\ s.alias THEN JournalBase + f ELSE f,
     acct |-> s.acct, con |-> s.con, sec |-> s.sec, buy |-> s.buy, tws |-> source = "tws",
     qty |-> s.qty, price |-> s.price, close |-> s.close, rp |-> s.rp, comm |-> s.qty * s.fee,
     day |-> TradeDate(s, source), time |-> IF s.timed THEN s.time ELSE 0]

\* signed_qty: the side alone gives the sign.
Signed(i) == IF raw[i].buy THEN raw[i].qty ELSE -raw[i].qty

AttOf(i) == IF raw[i].exec \in DOMAIN att THEN att[raw[i].exec] ELSE Unattributed

\* trade_fill_splits, one copy per raw row of the fill.
Splits(i) == AttOf(i).splits
IsSplit(i) == DOMAIN Splits(i) # {}

-----------------------------------------------------------------------------
(* The views.                                                              *)

InFlex(i) == \E j \in FlexRows : raw[j].exec = raw[i].exec
Canonical == FlexRows \cup {i \in TwsRows : ~InFlex(i)} \cup JournalRows
Final == FlexRows \cup JournalRows

\* fly_rows_sql. The row's own trade_date comes first in _TWS_DAY and the writer has set it.
FlexThrough(a) == Max({0} \cup {raw[j].day : j \in {k \in FlexRows : raw[k].acct = a}})
PendingAnyContract(i) ==
    raw[i].sec # "BAG" /\ ~\E j \in FlexRows : raw[j].acct = raw[i].acct /\ raw[j].con = raw[i].con
PendingFill(i) ==
    raw[i].sec # "BAG" /\ ~InFlex(i) /\ raw[i].day > FlexThrough(raw[i].acct)
Fly == {i \in TwsRows : PendingFill(i)}

View(scope) ==
    CASE scope = "performance_book" -> Final
      [] scope = "on_the_fly" -> Fly
      [] scope = "tws_raw" -> TwsRows
      [] OTHER -> Canonical

\* The WHERE of _read_executions: a bound leaves out rows with no trade_date, a trade
\* takes its whole fills and those it has a split of.
InRange(i, since, until) ==
    /\ since # 0 => raw[i].day # 0 /\ raw[i].day >= since
    /\ until # 0 => raw[i].day # 0 /\ raw[i].day <= until
OfTrade(i, t) == t = NoTrade \/ AttOf(i).whole = t \/ t \in DOMAIN Splits(i)
Matching(scope, since, until, t) == {i \in View(scope) : InRange(i, since, until) /\ OfTrade(i, t)}

-----------------------------------------------------------------------------
(* The paged lists.                                                        *)

ExecKey(i) == [day |-> raw[i].day, time |-> raw[i].time, id |-> i]
CashKey(i) == [day |-> 0, time |-> cash[i].ts, id |-> i]

\* ORDER BY trade_date DESC NULLS LAST, exec_time DESC NULLS LAST, id DESC.
Precedes(k, l) ==
    \/ k.day > l.day
    \/ k.day = l.day /\ k.time > l.time
    \/ k.day = l.day /\ k.time = l.time /\ k.id > l.id

\* executions_after_sql: a comparison with NULL is not true, so NULL has its own disjunct.
Less(x, y) == x # 0 /\ x < y
AfterSkipsNulls(k, c) ==
    LET sameDay == IF c.time = 0 THEN k.time = 0 /\ k.id < c.id
                   ELSE Less(k.time, c.time) \/ (k.time = c.time /\ k.id < c.id)
    IN IF c.day = 0 THEN k.day = 0 /\ sameDay
       ELSE Less(k.day, c.day) \/ k.day = 0 \/ (k.day = c.day /\ sameDay)
ExecutionsAfter(k, c) ==
    LET sameDay == IF c.time = 0 THEN k.time = 0 /\ k.id < c.id
                   ELSE Less(k.time, c.time) \/ k.time = 0 \/ (k.time = c.time /\ k.id < c.id)
    IN IF c.day = 0 THEN k.day = 0 /\ sameDay
       ELSE Less(k.day, c.day) \/ k.day = 0 \/ (k.day = c.day /\ sameDay)

\* transactions_after_sql: ts is NOT NULL.
TransactionsAfter(k, c) ==
    k.time <= c.time /\ (k.time < c.time \/ (k.time = c.time /\ k.id < c.id))

\* LIMIT n: the row in place j has j - 1 before it.
Place(keys, k) == Cardinality({l \in keys : Precedes(l, k)}) + 1
Newest(keys, n) ==
    [j \in 1 .. Min({n, Cardinality(keys)}) |-> CHOOSE k \in keys : Place(keys, k) = j]

KeysOf(list) == IF list = "executions" THEN {ExecKey(i) : i \in Canonical} ELSE {CashKey(i) : i \in DOMAIN cash}
After(list, k, c) == IF list = "executions" THEN ExecutionsAfter(k, c) ELSE TransactionsAfter(k, c)

\* get_executions_page / get_transactions_page: limit + 1 rows tell whether one follows.
PageFrom(list, cursor) ==
    LET left == {k \in KeysOf(list) : cursor = <<>> \/ After(list, k, cursor[1])}
        read == Newest(left, PageLimit + 1)
    IN [items |-> SubSeq(read, 1, IF Len(read) > PageLimit THEN PageLimit ELSE Len(read)),
        next |-> IF Len(read) > PageLimit THEN <<read[PageLimit]>> ELSE <<>>]

-----------------------------------------------------------------------------
Init ==
    /\ broker = <<>> /\ raw = <<>> /\ att = <<>> /\ cash = <<>>
    /\ through = [a \in Accounts |-> 0]
    /\ walk = IdleWalk /\ removed = {}
    /\ cast \in DOMAIN Casts /\ edits = 0 /\ faults = 0

\* A walk remembers the rows that have stood since it began.
Watched(keys) == IF walk.at = "on" THEN [walk EXCEPT !.stood = @ \cap keys] ELSE walk
Edit(kind) == kind \in limits.may /\ edits < limits.edits /\ edits' = edits + 1
others == <<cast, faults>>

\* The broker fills an order on a day no statement has covered yet.
Execute(s) ==
    /\ Len(broker) < limits.fills /\ SessionDay(s.time) > through[s.acct]
    /\ broker' = Append(broker, s)
    /\ UNCHANGED <<through, raw, att, cash, walk, removed, edits, others>>

\* Rows written by id: an existing TWS or journal row is left (DO NOTHING), a Flex row is
\* replaced in every column, a correction made by hand included.
Written(rows) ==
    /\ raw' = [i \in DOMAIN rows \cup DOMAIN raw |-> IF i \in DOMAIN rows THEN rows[i] ELSE raw[i]]
    /\ walk' = IF limits.list = "executions" THEN Watched(KeysOf("executions")') ELSE walk

ImportTws(f) ==
    /\ "tws" \in limits.sources /\ broker[f].via = "ib" /\ broker[f].timed /\ -f \notin DOMAIN raw
    /\ Written([i \in {-f} |-> RawRow(f, "tws")])
    /\ UNCHANGED <<broker, through, att, cash, removed, edits, others>>

ImportJournal(f) ==
    /\ "journal" \in limits.sources /\ broker[f].via = "journal" /\ -(JournalBase + f) \notin DOMAIN raw
    /\ Written([i \in {-(JournalBase + f)} |-> RawRow(f, "journal")])
    /\ UNCHANGED <<broker, through, att, cash, removed, edits, others>>

\* insert_one_execution: a fill typed in by hand, with its trade or without. The row has no
\* trade_date.
InsertByHand(f, t) ==
    LET i == -(JournalBase + f)
    IN /\ Edit("insert") /\ broker[f].via = "journal" /\ i \notin DOMAIN raw
       /\ Written([j \in {i} |-> [RawRow(f, "journal") EXCEPT !.day = 0]])
       /\ att' = IF t = NoTrade THEN att
                 ELSE [e \in DOMAIN att \cup {f} |-> IF e = f THEN [Unattributed EXCEPT !.whole = t] ELSE att[e]]
       /\ UNCHANGED <<broker, through, cash, removed, others>>

\* A Flex statement has every fill of the account up to its last day, but no combination.
ImportFlex(a, d) ==
    LET told == {f \in Fills : broker[f].acct = a /\ broker[f].via = "ib" /\ broker[f].sec # "BAG"
                               /\ SessionDay(broker[f].time) <= d}
        rows == [f \in told |-> RawRow(f, "flex")]
    IN /\ "flex" \in limits.sources /\ told # {} /\ d >= through[a] /\ \E f \in told : f \in DOMAIN raw => raw[f] # rows[f]
       /\ Written(rows)
       /\ through' = [through EXCEPT ![a] = d]
       /\ UNCHANGED <<broker, att, cash, removed, edits, others>>

-----------------------------------------------------------------------------
(* What the user does to a row.                                            *)

\* A committed attribution (FillAttribution has its steps): the whole fill goes to a trade
\* or to none and its splits stay, or splits that add up to the fill replace the others
\* and clear the whole one.
Attributed(i, a) == att' = [e \in DOMAIN att \cup {raw[i].exec} |-> IF e = raw[i].exec THEN a ELSE att[e]]

AttributeWhole(i, t) ==
    /\ Edit("attribute") /\ Attributed(i, [AttOf(i) EXCEPT !.whole = t])
    /\ UNCHANGED <<broker, through, raw, cash, walk, removed, others>>

SplitFill(i, splits) ==
    /\ Edit("attribute") /\ (DOMAIN splits = {} \/ SumFunction(splits) = Signed(i))
    /\ Attributed(i, [whole |-> IF DOMAIN splits = {} THEN AttOf(i).whole ELSE NoTrade, splits |-> splits])
    /\ UNCHANGED <<broker, through, raw, cash, walk, removed, others>>

\* update_one_execution with a quantity: the splits are not looked at.
CorrectQuantity(i, q) ==
    /\ Edit("correct") /\ raw[i].qty # q /\ Written([j \in {i} |-> [raw[i] EXCEPT !.qty = q]])
    /\ UNCHANGED <<broker, through, att, cash, removed, others>>

\* delete_one_execution: the attribution goes with the fill's last row.
RowDeleted(i) ==
    LET e == raw[i].exec
        last == \A j \in DOMAIN raw \ {i} : raw[j].exec # e
    IN /\ raw' = Restrict(raw, DOMAIN raw \ {i})
       /\ att' = IF last THEN Restrict(att, DOMAIN att \ {e}) ELSE att
       /\ removed' = removed \cup {FillOf(i)}
       /\ walk' = IF limits.list = "executions" THEN Watched(KeysOf("executions")') ELSE walk
       /\ UNCHANGED <<broker, through, cash, others>>
DeleteRow(i) == Edit("delete") /\ RowDeleted(i)

\* delete_execution_strict, but for the links it asks about first, which TradeResults has;
\* and a link that is written or removed there, an edit that leaves the book alone.
StrictDelete(i) == Edit("strict") /\ RowDeleted(i)
LinkEdit == Edit("link") /\ UNCHANGED <<broker, through, raw, att, cash, walk, removed, others>>

-----------------------------------------------------------------------------
(* Cash transactions and the pages.                                        *)

\* upsert_account_transactions, one line: with Flex's transaction id it replaces the row of
\* that id, without one it finds the row of the same time and amount. A second row of the
\* same time and amount breaks the table's other key, and the statement fails whole.
ImportCash(l) ==
    LET known == {i \in DOMAIN cash : IF l.tx # 0 THEN cash[i].tx = l.tx
                                      ELSE cash[i].ts = l.ts /\ cash[i].amount = l.amount}
        id == IF known # {} THEN CHOOSE i \in known : TRUE ELSE Cardinality(DOMAIN cash) + 1
        row == IF l.tx = 0 /\ known # {} THEN cash[id] ELSE l
    IN /\ Cardinality(DOMAIN cash) < limits.lines \/ known # {}
       /\ \A i \in DOMAIN cash \ {id} : cash[i].ts # row.ts \/ cash[i].amount # row.amount
       /\ cash' = [i \in DOMAIN cash \cup {id} |-> IF i = id THEN row ELSE cash[i]]
       /\ walk' = IF limits.list = "transactions" THEN Watched(KeysOf("transactions")') ELSE walk
       /\ UNCHANGED <<broker, through, raw, att, removed, edits, others>>

\* A caller asks for a page with the cursor of the last one; a failed read answers an
\* empty last page.
ReadPage(works) ==
    LET began == IF walk.at = "on" THEN walk
                 ELSE [at |-> "on", next |-> <<>>, got |-> <<>>, stood |-> KeysOf(limits.list), failed |-> FALSE]
        page == PageFrom(limits.list, began.next)
    IN /\ walk.at # "done" /\ limits.list # "none"
       /\ works \/ faults < limits.faults
       /\ faults' = IF works THEN faults ELSE faults + 1
       /\ walk' = IF works
                  THEN [began EXCEPT !.at = IF page.next = <<>> THEN "done" ELSE "on",
                                     !.got = @ \o page.items, !.next = page.next]
                  ELSE [began EXCEPT !.at = "done", !.failed = TRUE]
       /\ UNCHANGED <<broker, through, raw, att, cash, removed, cast, edits>>

Next ==
    \/ \E s \in limits.shapes : Execute(s)
    \/ \E f \in Fills : ImportTws(f) \/ ImportJournal(f) \/ \E t \in Trades \cup {NoTrade} : InsertByHand(f, t)
    \/ \E a \in Accounts : \E d \in {SessionDay(s.time) : s \in limits.shapes} : ImportFlex(a, d)
    \/ \E i \in IF edits < limits.edits THEN DOMAIN raw ELSE {} :
           \/ \E t \in Trades \cup {NoTrade} : AttributeWhole(i, t)
           \/ \E T \in SUBSET Trades : \E splits \in [T -> Parts] : SplitFill(i, splits)
           \/ \E q \in Parts \cap Nat : CorrectQuantity(i, q)
           \/ DeleteRow(i)
    \/ \E l \in Lines : ImportCash(l)
    \/ \E works \in BOOLEAN : ReadPage(works)

Spec == Init /\ [][Next]_bookVars

\* The book under TradeResults, of which each step is one of these or a stutter.
SharedNext == Next \/ LinkEdit \/ \E i \in DOMAIN raw : StrictDelete(i)
SharedSpec == Init /\ [][SharedNext]_bookVars

-----------------------------------------------------------------------------
(* The trades a position's fills belong to.                                *)

\* What the broker holds of a contract: the quantity account_positions has once it is synced,
\* but for what came before its fills here and an expired option, which leaves it.
Executed(a, c) == {f \in Fills : broker[f].acct = a /\ broker[f].con = c /\ broker[f].sec # "BAG"}
BrokerHolds(a, c) ==
    SumFunction([f \in Executed(a, c) |-> IF broker[f].buy THEN broker[f].qty ELSE -broker[f].qty])

\* _POS_EXEC_JOIN_PE: an option's fill is on a position of its expiry, right and strike,
\* whatever the underlying; another's on the position of its contract_key.
OnPosition(i, a, c) ==
    /\ raw[i].acct = a
    /\ IF c.right # "-"
       THEN /\ raw[i].sec = "OPT" /\ raw[i].con.expiry = c.expiry
            /\ raw[i].con.right = c.right /\ raw[i].con.strike = c.strike
       ELSE raw[i].sec = "STK" /\ raw[i].con = c

\* get_position_instance_attribution: the fills of Flex and the journal when there are any
\* on the position, else those of TWS; a fill with splits counts by them alone.
Counted(a, c) ==
    LET on(S) == {i \in S : OnPosition(i, a, c)}
    IN IF on(Final) # {} THEN on(Final) ELSE on(TwsRows)
ContributionBoth(i, t) ==
    (IF t \in DOMAIN Splits(i) THEN Splits(i)[t] ELSE 0) + (IF AttOf(i).whole = t THEN Signed(i) ELSE 0)
Contribution(i, t) ==
    IF IsSplit(i) THEN IF t \in DOMAIN Splits(i) THEN Splits(i)[t] ELSE 0
    ELSE IF AttOf(i).whole = t THEN Signed(i) ELSE 0
OpenQty(a, c, t) == MapThenSumSet(LAMBDA i : Contribution(i, t), Counted(a, c))

\* _build_attribution_rows over a row p of account_positions, read only when its quantity is
\* not zero: a row for each trade the fills name, the fills of none one more, each with
\* whether the position is mixed and whether some of it has no trade; a position without
\* fills is one row of no trade that has its whole quantity.
NamedBy(i) == IF IsSplit(i) THEN DOMAIN Splits(i) ELSE {AttOf(i).whole}
AttributionRows(p) ==
    LET on == Counted(p.acct, p.con)
        trades == UNION {NamedBy(i) : i \in on}
    IN IF p.qty = 0 THEN {}
       ELSE IF on = {}
       THEN {[trade |-> NoTrade, qty |-> p.qty, fills |-> 0, mixed |-> FALSE, unassigned |-> TRUE]}
       ELSE {[trade |-> t, qty |-> OpenQty(p.acct, p.con, t),
              fills |-> Cardinality({i \in on : t \in NamedBy(i)}),
              mixed |-> Cardinality(trades) > 1, unassigned |-> NoTrade \in trades] : t \in trades}

-----------------------------------------------------------------------------
Contracts == {s.con : s \in Shapes}
Evening(f) == broker[f].time % 2 = 0

TypeOK ==
    /\ \A i \in DOMAIN raw : FillOf(i) \in Fills /\ raw[i].qty > 0
    /\ \A e \in DOMAIN att : att[e].whole \in Trades \cup {NoTrade} /\ DOMAIN att[e].splits \subseteq Trades
    /\ \A i \in DOMAIN cash : cash[i] \in Lines
    /\ walk.at \in {"idle", "on", "done"} /\ removed \subseteq Fills

\* A fill TWS has reported is on the fly until Flex or the journal has it and never in
\* both books, also when Flex gives it another exec_id
\* (brokerage_views.fly_rows_sql) -- unless that fill was in the evening, or Flex gave no
\* trade date, or the user deleted one of its rows.
PendingUntilFlex ==
    \A f \in Fills \ removed : broker[f].sec # "BAG" /\ -f \in DOMAIN raw =>
        LET final == \E i \in Final : FillOf(i) = f
        IN /\ ~final => -f \in Fly
           /\ final /\ (~broker[f].alias \/ (broker[f].dated /\ ~Evening(f))) => -f \notin Fly

\* A reader that pages to the end gets, in the list's order, no row twice and every row
\* that stood unmoved while it read, whatever was written between its pages
\* (keyset.py) -- unless a read failed, which looks like the end.
PagesAreTheBook ==
    walk.at = "done" =>
        /\ \A m, n \in DOMAIN walk.got : m < n => Precedes(walk.got[m], walk.got[n])
        /\ ~walk.failed => walk.stood \subseteq Range(walk.got)

\* The rows of a position the broker still lists, whatever its quantity there, the row of no
\* trade included, add up to its fills, each counted once though TWS and Flex both have it and
\* a whole trade and splits may both stand, or to the position itself when it has none; a
\* position not marked mixed is one row. Once every fill the broker executed on the contract
\* counts, with its quantity and no other underlying's beside it, that is what the broker
\* holds (executions.get_position_instance_attribution) -- while no quantity was corrected
\* after the fill was split.
FillsCountOnce ==
    \A a \in Accounts, c \in Contracts :
        LET on == Counted(a, c)
            told == \A f \in Executed(a, c) : \E i \in on : FillOf(i) = f /\ raw[i].qty = broker[f].qty
            signed == MapThenSumSet(LAMBDA i : Signed(i), on)
        IN /\ \A i, j \in on : FillOf(i) = FillOf(j) => i = j
           /\ on # {} /\ told /\ (\A i \in on : raw[i].con = c) => signed = BrokerHolds(a, c)
           /\ (\A i \in on : IsSplit(i) => SumFunction(Splits(i)) = Signed(i)) =>
                  \A q \in Parts :
                      LET rows == AttributionRows([acct |-> a, con |-> c, qty |-> q])
                          total == IF on = {} THEN q ELSE signed
                      IN /\ MapThenSumSet(LAMBDA r : r.qty, rows) = total
                         /\ \A r \in rows : ~r.mixed => rows = {r} /\ r.qty = total /\ r.fills = Cardinality(on)
=============================================================================
