-------------------------- MODULE ExecutionProofs --------------------------
(***************************************************************************)
(* Theorems about the executions and what is computed from them, for any   *)
(* trades, fills, statements and edits.                                    *)
(*                                                                         *)
(* ExecutionBook. A raw row keeps the fill it was written from, whatever   *)
(* replaces or corrects it, and a Flex statement leaves out no fill of the *)
(* days it covers; so the days alone tell a fill that Flex has from one it *)
(* has not told of yet. A position's parts add up because a double sum may *)
(* be taken by fills or by trades. A paged list loses nothing because its  *)
(* order is total whatever parts of a key are NULL: what comes after the   *)
(* cursor is what the pages so far have not told.                          *)
(*                                                                         *)
(* Performance. Lay the units of a side end to end in FIFO order: a round  *)
(* pairs the first units neither side has used, so a pair's quantity is    *)
(* the overlap of its legs, and a range of days that starts flat only      *)
(* shifts every leg by the units before it. Amounts are multiples of Unit, *)
(* so a fill's shares are exact, and the totals by fill, by trade and by   *)
(* key of a breakdown are one double sum.                                  *)
(*                                                                         *)
(* TradeResults. Every step of it is a step of the book or leaves the book *)
(* alone, so the book's invariants hold of it as they are. A fill whose    *)
(* splits have its own sign counts the same for a trade's state and on the *)
(* position page, and a contract with no net has every fill in a pair.     *)
(* Where no strike lies between two prices a trade's worth is a line; so   *)
(* its lowest is at a strike or at zero, unless calls are uncovered.       *)
(***************************************************************************)
EXTENDS TradeResults, FiniteSetTheorems, SequenceTheorems, WellFoundedInduction, TLAPS

-----------------------------------------------------------------------------
(* The inductive invariant.                                                *)

RawRows == [exec : Nat, acct : STRING, con : {s.con : s \in Shapes}, sec : {"OPT", "STK", "BAG"},
        buy : BOOLEAN, tws : BOOLEAN, qty : Nat \ {0}, price : Nat, close : Nat, rp : Int,
        comm : Nat, day : Nat, time : Nat]
Attribution == [whole : Trades \cup {NoTrade}, splits : UNION {[T -> Parts] : T \in SUBSET Trades}]

\* The bounds of the behaviour, and what the broker has executed within them.
BrokerInv ==
    /\ cast \in DOMAIN Casts /\ limits.fills \in 0 .. JournalBase - 1 /\ limits.shapes \subseteq Shapes
    /\ broker \in Seq(Shapes) /\ Len(broker) <= limits.fills
    /\ through \in [Accounts -> Nat] /\ removed \subseteq Fills

\* A raw row is of the fill its id names, on that fill's account, of its contract and from
\* a source that tells of it.
OfItsFill(i) ==
    LET s == broker[FillOf(i)] IN
    /\ i \in Int /\ FillOf(i) \in Fills /\ raw[i] \in RawRows
    /\ raw[i].acct = s.acct /\ raw[i].sec = s.sec
    /\ i \in FlexRows =>
           /\ s.via = "ib" /\ SessionDay(s.time) <= through[s.acct]
           /\ raw[i].exec = IF s.alias THEN JournalBase + i ELSE i
           /\ raw[i].day = IF s.dated THEN SessionDay(s.time) ELSE 0
    /\ i \in TwsRows => s.via = "ib" /\ raw[i].exec = FillOf(i) /\ raw[i].day = UtcDay(s.time)
    /\ i \in JournalRows => s.via = "journal"
RowsInv == \A i \in DOMAIN raw : OfItsFill(i)

\* Flex has every fill of the days it covers.
StatementInv ==
    \A f \in Fills \ removed :
        broker[f].via = "ib" /\ broker[f].sec # "BAG" /\ SessionDay(broker[f].time) <= through[broker[f].acct]
            => f \in DOMAIN raw

RestInv ==
    /\ \A e \in DOMAIN att : att[e] \in Attribution
    /\ \A i \in DOMAIN cash : cash[i] \in Lines
    /\ "at" \in DOMAIN walk /\ walk.at \in {"idle", "on", "done"}

ExecutionInv == BrokerInv /\ RowsInv /\ StatementInv /\ RestInv

-----------------------------------------------------------------------------
(* Fills and rows.                                                         *)

\* What the broker may execute.
LEMMA ShapeFacts ==
    ASSUME NEW s \in Shapes
    PROVE  /\ s.via \in {"ib", "journal"} /\ s.acct \in STRING /\ s.sec \in {"OPT", "STK", "BAG"}
           /\ s.buy \in BOOLEAN /\ s.alias \in BOOLEAN /\ s.dated \in BOOLEAN /\ s.timed \in BOOLEAN
           /\ s.qty \in Nat \ {0} /\ s.price \in Nat /\ s.close \in Nat /\ s.rp \in Int /\ s.fee \in Nat
           /\ s.time \in Nat \ {0} /\ s.acct \in Accounts /\ s.con \in {r.con : r \in Shapes}
<1>1. s \in [via : {"ib", "journal"}, acct : STRING, sec : {"OPT", "STK", "BAG"},
             con : [sym : STRING, strike : Nat, right : {"C", "P", "-"}, expiry : Nat],
             buy : BOOLEAN, qty : Nat \ {0}, price : Nat, close : Nat, rp : Int, fee : Nat,
             time : Nat \ {0}, timed : BOOLEAN, dated : BOOLEAN, alias : BOOLEAN]
    BY BookAssumption, Zenon
<1>2. s.acct \in Accounts /\ s.con \in {r.con : r \in Shapes}
    BY Zenon DEF Accounts
<1> QED BY <1>1, <1>2

\* The two days of a time: New York is never ahead of UTC, and they part in the evening.
LEMMA DayFacts ==
    ASSUME NEW t \in Nat \ {0}
    PROVE  /\ SessionDay(t) \in Nat \ {0} /\ UtcDay(t) \in Nat \ {0} /\ SessionDay(t) <= UtcDay(t)
           /\ t % 2 # 0 => SessionDay(t) = UtcDay(t)
BY SMT DEF SessionDay, UtcDay

LEMMA FillFacts ==
    ASSUME BrokerInv
    PROVE  /\ Fills = 1 .. Len(broker) /\ Len(broker) \in Nat /\ Len(broker) < JournalBase
           /\ \A f \in Fills : broker[f] \in Shapes
<1>1. Len(broker) \in Nat /\ DOMAIN broker = 1 .. Len(broker) /\ \A f \in DOMAIN broker : broker[f] \in Shapes
    BY SMT DEF BrokerInv
<1>2. PICK n \in 0 .. JournalBase - 1 : Len(broker) <= n
    BY Zenon DEF BrokerInv
<1>3. Len(broker) < JournalBase
    BY <1>1, <1>2, SMT DEF JournalBase
<1> QED BY <1>1, <1>3, Zenon DEF Fills

\* The ids of the rows a fill may have.
LEMMA Ids ==
    ASSUME NEW f \in Nat, f > 0, f < JournalBase
    PROVE  /\ FillOf(f) = f /\ FillOf(-f) = f /\ FillOf(-(JournalBase + f)) = f
           /\ -f < 0 /\ -f > -JournalBase /\ -(JournalBase + f) < -JournalBase
BY SMT DEF FillOf, JournalBase

\* A row as write_account_executions_to_db builds it.
LEMMA RowFacts ==
    ASSUME BrokerInv, NEW f \in Fills, NEW source \in {"flex", "tws", "journal"}
    PROVE  LET s == broker[f] r == RawRow(f, source) IN
           /\ r \in RawRows /\ r.acct = s.acct /\ r.sec = s.sec
           /\ r.exec = IF source = "flex" /\ s.alias THEN JournalBase + f ELSE f
           /\ source = "flex" => r.day = IF s.dated THEN SessionDay(s.time) ELSE 0
           /\ source = "tws" /\ s.timed => r.day = UtcDay(s.time)
<1> DEFINE s == broker[f]
           r == RawRow(f, source)
           e == IF source = "flex" /\ s.alias THEN JournalBase + f ELSE f
           d == TradeDate(s, source)
           c == s.qty * s.fee
           h == IF s.timed THEN s.time ELSE 0
<1>1. s \in Shapes /\ f \in Nat
    BY FillFacts, SMT
<1>2. r = [exec |-> e, acct |-> s.acct, con |-> s.con, sec |-> s.sec, buy |-> s.buy, tws |-> source = "tws",
           qty |-> s.qty, price |-> s.price, close |-> s.close, rp |-> s.rp, comm |-> c, day |-> d, time |-> h]
    BY Zenon DEF RawRow
<1> HIDE DEF r
<1>3. /\ s.acct \in STRING /\ s.con \in {q.con : q \in Shapes} /\ s.sec \in {"OPT", "STK", "BAG"}
      /\ s.buy \in BOOLEAN /\ s.qty \in Nat \ {0} /\ s.price \in Nat /\ s.close \in Nat /\ s.rp \in Int
      /\ s.fee \in Nat /\ s.time \in Nat \ {0}
    BY <1>1, ShapeFacts
<1>4. d \in Nat
    <2>1. SessionDay(s.time) \in Nat /\ UtcDay(s.time) \in Nat
        BY <1>3, DayFacts
    <2> QED BY <2>1, Zenon DEF TradeDate
<1>5. e \in Nat /\ h \in Nat
    BY <1>1, <1>3, SMT DEF JournalBase
<1>6. c \in Nat
    BY <1>3, SMT
<1>7. (source = "tws") \in BOOLEAN
    BY Zenon
<1>8. source = "flex" => d = IF s.dated THEN SessionDay(s.time) ELSE 0
    BY Zenon DEF TradeDate
<1>9. source = "tws" /\ s.timed => d = UtcDay(s.time)
    BY Zenon DEF TradeDate
<1> HIDE DEF s, e, d, c, h
<1>10. r \in RawRows
    BY <1>2, <1>3, <1>4, <1>5, <1>6, <1>7 DEF RawRows
<1>11. r.acct = s.acct /\ r.sec = s.sec /\ r.exec = e /\ r.day = d
    BY <1>2
<1> QED BY <1>8, <1>9, <1>10, <1>11, Zenon DEF s, r, e, d

-----------------------------------------------------------------------------
(* Every step keeps the invariant.                                         *)

\* The statement never takes a day back.
Covered == \A a \in Accounts : through[a] <= through'[a]

\* A row that stands is still of its fill.
LEMMA RowStands ==
    ASSUME ExecutionInv, NEW i \in DOMAIN raw, i \in DOMAIN raw', raw'[i] = raw[i], FillOf(i) \in Fills',
           broker'[FillOf(i)] = broker[FillOf(i)], Covered, through' \in [Accounts -> Nat]
    PROVE  OfItsFill(i)'
<1>1. OfItsFill(i)
    BY DEF ExecutionInv, RowsInv
<1>2. /\ i \in FlexRows' => i \in FlexRows
      /\ i \in TwsRows' => i \in TwsRows
      /\ i \in JournalRows' => i \in JournalRows
    BY DEF FlexRows, TwsRows, JournalRows
<1> DEFINE s == broker[FillOf(i)]
<1>3. broker'[FillOf(i)] = s /\ s \in Shapes
    BY <1>1, FillFacts, Zenon DEF OfItsFill, ExecutionInv
<1>4. SessionDay(s.time) <= through[s.acct] => SessionDay(s.time) <= through'[s.acct]
    <2>1. s.acct \in Accounts /\ SessionDay(s.time) \in Nat
        BY <1>3, ShapeFacts, DayFacts
    <2>2. through[s.acct] \in Nat /\ through'[s.acct] \in Nat /\ through[s.acct] <= through'[s.acct]
        BY <2>1, Zenon DEF Covered, ExecutionInv, BrokerInv
    <2> HIDE DEF s
    <2> QED BY <2>1, <2>2, SMT
<1>5. /\ i \in Int /\ FillOf(i) \in Fills /\ raw[i] \in RawRows
      /\ raw[i].acct = s.acct /\ raw[i].sec = s.sec
      /\ i \in FlexRows =>
             /\ s.via = "ib" /\ SessionDay(s.time) <= through[s.acct]
             /\ raw[i].exec = IF s.alias THEN JournalBase + i ELSE i
             /\ raw[i].day = IF s.dated THEN SessionDay(s.time) ELSE 0
      /\ i \in TwsRows => s.via = "ib" /\ raw[i].exec = FillOf(i) /\ raw[i].day = UtcDay(s.time)
      /\ i \in JournalRows => s.via = "journal"
    BY <1>1, Zenon DEF OfItsFill
<1> HIDE DEF s
<1> QED BY <1>2, <1>3, <1>4, <1>5, Zenon DEF OfItsFill

\* A write leaves every row that it does not bring, and brings its own.
LEMMA WrittenRows ==
    ASSUME ExecutionInv, NEW rows, Written(rows), UNCHANGED broker, Covered, through' \in [Accounts -> Nat],
           \A i \in DOMAIN rows : i \in DOMAIN raw' => OfItsFill(i)'
    PROVE  /\ RowsInv' /\ DOMAIN raw' = DOMAIN rows \cup DOMAIN raw
           /\ "at" \in DOMAIN walk' /\ walk'.at \in {"idle", "on", "done"}
<1>1. /\ DOMAIN raw' = DOMAIN rows \cup DOMAIN raw
      /\ \A i \in DOMAIN raw \ DOMAIN rows : raw'[i] = raw[i]
    BY Zenon DEF Written
<1>2. Fills' = Fills /\ broker' = broker
    BY Zenon DEF Fills
<1>3. \A i \in DOMAIN raw : FillOf(i) \in Fills
    BY Zenon DEF ExecutionInv, RowsInv, OfItsFill
<1>4. ASSUME NEW i \in DOMAIN raw' PROVE OfItsFill(i)'
    <2>1. CASE i \in DOMAIN rows
        BY <1>4, <2>1
    <2>2. CASE i \notin DOMAIN rows
        <3>1. i \in DOMAIN raw /\ raw'[i] = raw[i]
            BY <1>1, <2>2, Zenon
        <3> QED BY <1>2, <1>3, <3>1, RowStands
    <2> QED BY <2>1, <2>2
<1>5. "at" \in DOMAIN walk' /\ walk'.at \in {"idle", "on", "done"}
    BY Zenon DEF Written, Watched, ExecutionInv, RestInv
<1> QED BY <1>1, <1>4, <1>5, Zenon DEF RowsInv

\* What a step that executes nothing and covers no day leaves.
LEMMA BrokerStands ==
    ASSUME ExecutionInv, UNCHANGED <<broker, through, cast>>, removed' \subseteq Fills
    PROVE  BrokerInv' /\ Fills' = Fills /\ Covered /\ through' \in [Accounts -> Nat]
<1>1. limits' = limits /\ Fills' = Fills
    BY Zenon DEF limits, Fills
<1>2. BrokerInv'
    BY <1>1, Zenon DEF ExecutionInv, BrokerInv
<1>3. \A a \in Accounts : through[a] \in Nat /\ through'[a] = through[a]
    BY Zenon DEF ExecutionInv, BrokerInv
<1>4. Covered
    BY <1>3, SMT DEF Covered
<1> QED BY <1>1, <1>2, <1>4, Zenon DEF ExecutionInv, BrokerInv

\* Flex still has the fills it had while no row of it is taken away.
LEMMA StatementStands ==
    ASSUME ExecutionInv, UNCHANGED <<broker, through>>, removed \subseteq removed',
           \A f \in Fills \ removed' : f \in DOMAIN raw => f \in DOMAIN raw'
    PROVE  StatementInv'
BY Zenon DEF ExecutionInv, StatementInv, Fills

LEMMA ExecuteKeeps ==
    ASSUME ExecutionInv, NEW s \in limits.shapes, Execute(s)
    PROVE  ExecutionInv'
<1>1. /\ Len(broker) < limits.fills /\ SessionDay(s.time) > through[s.acct] /\ broker' = Append(broker, s)
      /\ UNCHANGED <<through, raw, att, cash, walk, removed, cast>>
    BY Zenon DEF Execute, others
<1>2. s \in Shapes /\ broker \in Seq(Shapes) /\ through \in [Accounts -> Nat]
    BY Zenon DEF ExecutionInv, BrokerInv
<1>3. /\ broker' \in Seq(Shapes) /\ Len(broker') = Len(broker) + 1
      /\ Fills' = Fills \cup {Len(broker) + 1} /\ broker'[Len(broker) + 1] = s
      /\ \A f \in Fills : broker'[f] = broker[f]
    BY <1>1, <1>2, SMT DEF Fills
<1>4. BrokerInv'
    <2>1. limits' = limits
        BY <1>1, Zenon DEF limits
    <2>2. PICK n \in 0 .. JournalBase - 1 : n = limits.fills
        BY Zenon DEF ExecutionInv, BrokerInv
    <2>3. Len(broker') <= n
        BY <1>1, <1>2, <1>3, <2>2, SMT DEF JournalBase
    <2> QED BY <1>1, <1>3, <2>1, <2>2, <2>3, Zenon DEF ExecutionInv, BrokerInv
<1>5. RowsInv'
    <2>1. Covered
        <3>1. \A a \in Accounts : through[a] \in Nat /\ through'[a] = through[a]
            BY <1>1, <1>2, Zenon
        <3> QED BY <3>1, SMT DEF Covered
    <2>2. ASSUME NEW i \in DOMAIN raw PROVE OfItsFill(i)'
        <3>1. FillOf(i) \in Fills
            BY Zenon DEF ExecutionInv, RowsInv, OfItsFill
        <3> QED BY <1>1, <1>2, <1>3, <2>1, <3>1, RowStands, Zenon
    <2> QED BY <1>1, <2>2, Zenon DEF RowsInv
<1>6. StatementInv'
    <2> SUFFICES ASSUME NEW f \in Fills', f \notin removed', broker'[f].via = "ib", broker'[f].sec # "BAG",
                        SessionDay(broker'[f].time) <= through'[broker'[f].acct]
                 PROVE  f \in DOMAIN raw'
        BY Zenon DEF StatementInv
    <2>1. CASE f \in Fills
        BY <1>1, <1>3, <2>1, Zenon DEF ExecutionInv, StatementInv
    <2>2. CASE f = Len(broker) + 1
        <3>1. SessionDay(s.time) <= through[s.acct]
            BY <1>1, <1>3, <2>2
        <3>2. SessionDay(s.time) \in Nat /\ through[s.acct] \in Nat
            BY <1>2, ShapeFacts, DayFacts
        <3> QED BY <1>1, <3>1, <3>2, SMT
    <2> QED BY <1>3, <2>1, <2>2
<1>7. RestInv'
    BY <1>1, Zenon DEF ExecutionInv, RestInv
<1> QED BY <1>4, <1>5, <1>6, <1>7 DEF ExecutionInv

\* A write of one row that covers no day.
LEMMA OneRowKeeps ==
    ASSUME ExecutionInv, NEW i, NEW r, Written([j \in {i} |-> r]), UNCHANGED <<broker, through, cash, removed, cast>>,
           i \in DOMAIN raw' => OfItsFill(i)', \A e \in DOMAIN att' : att'[e] \in Attribution
    PROVE  ExecutionInv'
<1>1. BrokerInv' /\ Covered /\ through' \in [Accounts -> Nat]
    BY BrokerStands, Zenon DEF ExecutionInv, BrokerInv
<1> DEFINE rows == [j \in {i} |-> r]
<1>2. DOMAIN rows = {i}
    OBVIOUS
<1>3. Written(rows)
    OBVIOUS
<1> HIDE DEF rows
<1>4. /\ RowsInv' /\ DOMAIN raw' = {i} \cup DOMAIN raw
      /\ "at" \in DOMAIN walk' /\ walk'.at \in {"idle", "on", "done"}
    BY <1>1, <1>2, <1>3, WrittenRows, Zenon
<1>5. StatementInv'
    BY <1>4, StatementStands
<1>6. RestInv'
    BY <1>4, Zenon DEF RestInv, ExecutionInv
<1> QED BY <1>1, <1>4, <1>5, <1>6 DEF ExecutionInv

\* The row a write brings, where it stands.
LEMMA RowBrought ==
    ASSUME BrokerInv, NEW i, NEW r, Written([j \in {i} |-> r])
    PROVE  raw'[i] = r /\ i \in DOMAIN raw'
BY Zenon DEF Written

LEMMA ImportTwsKeeps ==
    ASSUME ExecutionInv, NEW f \in Fills, ImportTws(f)
    PROVE  ExecutionInv'
<1> DEFINE i == -f
           r == RawRow(f, "tws")
           s == broker[f]
<1>1. /\ s.via = "ib" /\ s.timed /\ Written([j \in {i} |-> r])
      /\ UNCHANGED <<broker, through, att, cash, removed, cast>>
    BY Zenon DEF ImportTws, others
<1>2. f \in Nat /\ f > 0 /\ f < JournalBase
    BY FillFacts, SMT DEF ExecutionInv, JournalBase
<1>3. /\ i \in Int /\ FillOf(i) = f /\ i \notin FlexRows' /\ i \notin JournalRows'
    BY <1>2, Ids, SMT DEF FlexRows, JournalRows, JournalBase
<1>4. r \in RawRows /\ r.acct = s.acct /\ r.sec = s.sec /\ r.exec = f /\ r.day = UtcDay(s.time)
    BY <1>1, RowFacts DEF ExecutionInv
<1>5. raw'[i] = r
    BY <1>1, RowBrought, Zenon DEF ExecutionInv
<1> HIDE DEF i, r
<1>6. OfItsFill(i)'
    <2>1. Fills' = Fills /\ broker'[f] = s
        BY <1>1, Zenon DEF Fills
    <2> HIDE DEF s
    <2> QED BY <1>1, <1>3, <1>4, <1>5, <2>1, Zenon DEF OfItsFill
<1>7. \A e \in DOMAIN att' : att'[e] \in Attribution
    BY <1>1, Zenon DEF ExecutionInv, RestInv
<1> QED BY <1>1, <1>6, <1>7, OneRowKeeps, Zenon

LEMMA JournalRowKeeps ==
    ASSUME ExecutionInv, NEW f \in Fills, broker[f].via = "journal", NEW r \in RawRows,
           r.acct = broker[f].acct, r.sec = broker[f].sec, Written([j \in {-(JournalBase + f)} |-> r]),
           UNCHANGED <<broker, through, cash, removed, cast>>, \A e \in DOMAIN att' : att'[e] \in Attribution
    PROVE  ExecutionInv'
<1> DEFINE i == -(JournalBase + f)
           s == broker[f]
<1>1. f \in Nat /\ f > 0 /\ f < JournalBase
    BY FillFacts, SMT DEF ExecutionInv, JournalBase
<1>2. /\ i \in Int /\ FillOf(i) = f /\ i \notin FlexRows' /\ i \notin TwsRows'
    BY <1>1, Ids, SMT DEF FlexRows, TwsRows, JournalBase
<1>3. raw'[i] = r
    BY RowBrought, Zenon DEF ExecutionInv
<1>4. Fills' = Fills /\ broker'[f] = s
    BY Zenon DEF Fills
<1> HIDE DEF i
<1>5. OfItsFill(i)'
    BY <1>2, <1>3, <1>4, Zenon DEF OfItsFill
<1> QED BY <1>5, OneRowKeeps, Zenon DEF i

LEMMA ImportJournalKeeps ==
    ASSUME ExecutionInv, NEW f \in Fills, ImportJournal(f)
    PROVE  ExecutionInv'
<1>1. /\ broker[f].via = "journal" /\ Written([j \in {-(JournalBase + f)} |-> RawRow(f, "journal")])
      /\ UNCHANGED <<broker, through, att, cash, removed, cast>>
    BY Zenon DEF ImportJournal, others
<1>2. /\ RawRow(f, "journal") \in RawRows /\ RawRow(f, "journal").acct = broker[f].acct
      /\ RawRow(f, "journal").sec = broker[f].sec
    BY RowFacts, Zenon DEF ExecutionInv
<1>3. \A e \in DOMAIN att' : att'[e] \in Attribution
    BY <1>1, Zenon DEF ExecutionInv, RestInv
<1> QED BY <1>1, <1>2, <1>3, JournalRowKeeps, Zenon

LEMMA InsertByHandKeeps ==
    ASSUME ExecutionInv, NEW f \in Fills, NEW t \in Trades \cup {NoTrade}, InsertByHand(f, t)
    PROVE  ExecutionInv'
<1> DEFINE r == [RawRow(f, "journal") EXCEPT !.day = 0]
<1>1. /\ broker[f].via = "journal" /\ Written([j \in {-(JournalBase + f)} |-> r])
      /\ UNCHANGED <<broker, through, cash, removed, cast>>
      /\ att' = IF t = NoTrade THEN att
                ELSE [e \in DOMAIN att \cup {f} |-> IF e = f THEN [Unattributed EXCEPT !.whole = t] ELSE att[e]]
    BY Zenon DEF InsertByHand, others
<1>2. r \in RawRows /\ r.acct = broker[f].acct /\ r.sec = broker[f].sec
    <2>1. RawRow(f, "journal") \in RawRows /\ RawRow(f, "journal").acct = broker[f].acct
          /\ RawRow(f, "journal").sec = broker[f].sec
        BY RowFacts, Zenon DEF ExecutionInv
    <2> QED BY <2>1, SMT DEF RawRows
<1>3. [Unattributed EXCEPT !.whole = t] \in Attribution
    <2>1. <<>> \in [{} -> Parts]
        BY SMT
    <2>2. <<>> \in UNION {[T -> Parts] : T \in SUBSET Trades}
        BY <2>1, Zenon
    <2>3. [Unattributed EXCEPT !.whole = t] = [whole |-> t, splits |-> <<>>]
        BY DEF Unattributed
    <2> QED BY <2>2, <2>3, Zenon DEF Attribution
<1>4. \A e \in DOMAIN att' : att'[e] \in Attribution
    BY <1>1, <1>3, Zenon DEF ExecutionInv, RestInv
<1> HIDE DEF r
<1> QED BY <1>1, <1>2, <1>4, JournalRowKeeps, Zenon

\* A statement brings every fill of its days, and no row it leaves is of a day it
\* takes back.
LEMMA ImportFlexKeeps ==
    ASSUME ExecutionInv, NEW a \in Accounts, NEW d \in {SessionDay(s.time) : s \in limits.shapes}, ImportFlex(a, d)
    PROVE  ExecutionInv'
<1> DEFINE told == {f \in Fills : broker[f].acct = a /\ broker[f].via = "ib" /\ broker[f].sec # "BAG"
                                  /\ SessionDay(broker[f].time) <= d}
           rows == [f \in told |-> RawRow(f, "flex")]
<1>1. /\ d >= through[a] /\ Written(rows) /\ through' = [through EXCEPT ![a] = d]
      /\ UNCHANGED <<broker, att, cash, removed, cast>>
    BY Zenon DEF ImportFlex, others
<1>2. d \in Nat
    <2>1. PICK s \in limits.shapes : d = SessionDay(s.time)
        OBVIOUS
    <2>2. s \in Shapes
        BY Zenon DEF ExecutionInv, BrokerInv
    <2> QED BY <2>1, <2>2, ShapeFacts, DayFacts
<1>3. through \in [Accounts -> Nat] /\ through' \in [Accounts -> Nat]
    BY <1>1, <1>2, Zenon DEF ExecutionInv, BrokerInv
<1>4. through'[a] = d /\ \A b \in Accounts \ {a} : through'[b] = through[b]
    BY <1>1, <1>3, Zenon
<1>5. Covered
    <2>1. \A b \in Accounts : through[b] \in Nat /\ through'[b] \in Nat
        BY <1>3, Zenon
    <2> QED BY <1>1, <1>2, <1>4, <2>1, SMT DEF Covered
<1>6. limits' = limits /\ Fills' = Fills
    BY <1>1, Zenon DEF limits, Fills
<1>7. BrokerInv'
    BY <1>1, <1>3, <1>6, Zenon DEF ExecutionInv, BrokerInv
<1>8. ASSUME NEW f \in told, f \in DOMAIN raw' PROVE OfItsFill(f)'
    <2> DEFINE s == broker[f]
               r == RawRow(f, "flex")
    <2>1. f \in Nat /\ f > 0 /\ f < JournalBase /\ f \in Fills
        BY FillFacts, SMT DEF ExecutionInv, JournalBase
    <2>2. FillOf(f) = f /\ f \in Int /\ f \notin TwsRows' /\ f \notin JournalRows'
        BY <2>1, Ids, SMT DEF TwsRows, JournalRows, JournalBase
    <2>3. /\ r \in RawRows /\ r.acct = s.acct /\ r.sec = s.sec
          /\ r.exec = IF s.alias THEN JournalBase + f ELSE f
          /\ r.day = IF s.dated THEN SessionDay(s.time) ELSE 0
        BY <2>1, RowFacts DEF ExecutionInv
    <2>4. raw'[f] = r
        BY <1>1, <1>8, Zenon DEF Written
    <2>5. s.via = "ib" /\ SessionDay(s.time) <= through'[s.acct]
        BY <1>4, <1>8, Zenon
    <2> HIDE DEF r, told, rows
    <2>6. Fills' = Fills /\ broker'[f] = s
        BY <1>1, <1>6, Zenon
    <2> HIDE DEF s
    <2> QED BY <2>1, <2>2, <2>3, <2>4, <2>5, <2>6, Zenon DEF OfItsFill
<1>9. DOMAIN rows = told
    OBVIOUS
<1>10. /\ RowsInv' /\ DOMAIN raw' = told \cup DOMAIN raw
       /\ "at" \in DOMAIN walk' /\ walk'.at \in {"idle", "on", "done"}
    <2> HIDE DEF rows, told
    <2> QED BY <1>1, <1>3, <1>5, <1>8, <1>9, WrittenRows, Zenon
<1>11. StatementInv'
    <2> SUFFICES ASSUME NEW f \in Fills, f \notin removed, broker[f].via = "ib", broker[f].sec # "BAG",
                        SessionDay(broker[f].time) <= through'[broker[f].acct]
                 PROVE  f \in DOMAIN raw'
        BY <1>1, <1>6, Zenon DEF StatementInv
    <2>1. CASE broker[f].acct = a
        BY <1>4, <1>10, <2>1, Zenon
    <2>2. CASE broker[f].acct # a
        <3>1. broker[f].acct \in Accounts
            BY FillFacts, ShapeFacts, Zenon DEF ExecutionInv
        <3>2. f \in DOMAIN raw
            BY <1>4, <2>2, <3>1, Zenon DEF ExecutionInv, StatementInv
        <3> HIDE DEF told
        <3> QED BY <1>10, <3>2, Zenon
    <2> QED BY <2>1, <2>2
<1>12. RestInv'
    BY <1>1, <1>10, Zenon DEF RestInv, ExecutionInv
<1> QED BY <1>7, <1>10, <1>11, <1>12 DEF ExecutionInv

\* A step that leaves the broker and the rows.
LEMMA RowsUntouched ==
    ASSUME ExecutionInv, UNCHANGED <<broker, through, raw, removed, cast>>
    PROVE  BrokerInv' /\ RowsInv' /\ StatementInv'
<1>1. BrokerInv' /\ Fills' = Fills /\ Covered /\ through' \in [Accounts -> Nat]
    BY BrokerStands, Zenon DEF ExecutionInv, BrokerInv
<1>2. ASSUME NEW i \in DOMAIN raw PROVE OfItsFill(i)'
    <2>1. FillOf(i) \in Fills
        BY Zenon DEF ExecutionInv, RowsInv, OfItsFill
    <2> QED BY <1>1, <2>1, RowStands
<1>3. StatementInv'
    BY StatementStands
<1> QED BY <1>1, <1>2, <1>3, Zenon DEF RowsInv

\* What the fill of a row is attributed to.
LEMMA AttOfFacts ==
    ASSUME RestInv, NEW i
    PROVE  AttOf(i) \in Attribution
<1>1. Unattributed \in Attribution
    <2>1. <<>> \in [{} -> Parts]
        BY SMT
    <2>2. <<>> \in UNION {[T -> Parts] : T \in SUBSET Trades}
        BY <2>1, Zenon
    <2> QED BY <2>2, Zenon DEF Attribution, Unattributed
<1> QED BY <1>1, Zenon DEF AttOf, RestInv

LEMMA AttributedKeeps ==
    ASSUME ExecutionInv, NEW i \in DOMAIN raw, NEW a \in Attribution, Attributed(i, a),
           UNCHANGED <<broker, through, raw, cash, walk, removed, cast>>
    PROVE  ExecutionInv'
<1>1. \A e \in DOMAIN att' : att'[e] \in Attribution
    BY Zenon DEF Attributed, ExecutionInv, RestInv
<1>2. RestInv'
    BY <1>1, Zenon DEF ExecutionInv, RestInv
<1> QED BY <1>2, RowsUntouched DEF ExecutionInv

LEMMA AttributeWholeKeeps ==
    ASSUME ExecutionInv, NEW i \in DOMAIN raw, NEW t \in Trades \cup {NoTrade}, AttributeWhole(i, t)
    PROVE  ExecutionInv'
<1>1. AttOf(i) \in Attribution
    BY AttOfFacts DEF ExecutionInv
<1>2. [AttOf(i) EXCEPT !.whole = t] \in Attribution
    BY <1>1, SMT DEF Attribution
<1> QED BY <1>2, AttributedKeeps, Zenon DEF AttributeWhole, others

LEMMA SplitFillKeeps ==
    ASSUME ExecutionInv, NEW i \in DOMAIN raw, NEW T \in SUBSET Trades, NEW splits \in [T -> Parts],
           SplitFill(i, splits)
    PROVE  ExecutionInv'
<1> DEFINE a == [whole |-> IF DOMAIN splits = {} THEN AttOf(i).whole ELSE NoTrade, splits |-> splits]
<1>1. AttOf(i).whole \in Trades \cup {NoTrade}
    BY AttOfFacts DEF ExecutionInv, Attribution
<1>2. splits \in UNION {[S -> Parts] : S \in SUBSET Trades}
    BY Zenon
<1>3. a \in Attribution
    BY <1>1, <1>2, Zenon DEF Attribution
<1>4. Attributed(i, a) /\ UNCHANGED <<broker, through, raw, cash, walk, removed, cast>>
    BY Zenon DEF SplitFill, others
<1> HIDE DEF a
<1> QED BY <1>3, <1>4, AttributedKeeps

\* A correction changes a row's quantity and nothing of what it is.
LEMMA CorrectQuantityKeeps ==
    ASSUME ExecutionInv, NEW i \in DOMAIN raw, NEW q \in Parts \cap Nat, CorrectQuantity(i, q)
    PROVE  ExecutionInv'
<1> DEFINE r == [raw[i] EXCEPT !.qty = q]
<1>1. /\ Written([j \in {i} |-> r]) /\ UNCHANGED <<broker, through, att, cash, removed, cast>>
    BY Zenon DEF CorrectQuantity, others
<1>2. OfItsFill(i)
    BY Zenon DEF ExecutionInv, RowsInv
<1>3. q \in Nat \ {0}
    BY BookAssumption, SMT
<1>4. r \in RawRows /\ r.acct = raw[i].acct /\ r.sec = raw[i].sec /\ r.exec = raw[i].exec /\ r.day = raw[i].day
    <2>1. raw[i] \in RawRows
        BY <1>2 DEF OfItsFill
    <2> QED BY <1>3, <2>1, SMT DEF RawRows
<1>5. raw'[i] = r
    BY <1>1, RowBrought, Zenon DEF ExecutionInv
<1> HIDE DEF r
<1>6. OfItsFill(i)'
    <2>1. Fills' = Fills /\ broker' = broker /\ through' = through
        BY <1>1, Zenon DEF Fills
    <2>2. /\ i \in FlexRows' => i \in FlexRows
          /\ i \in TwsRows' => i \in TwsRows
          /\ i \in JournalRows' => i \in JournalRows
        BY DEF FlexRows, TwsRows, JournalRows
    <2> QED BY <1>2, <1>4, <1>5, <2>1, <2>2, Zenon DEF OfItsFill
<1>7. \A e \in DOMAIN att' : att'[e] \in Attribution
    BY <1>1, Zenon DEF ExecutionInv, RestInv
<1> QED BY <1>1, <1>6, <1>7, OneRowKeeps, Zenon

\* A deleted row takes its fill out of what the book is answerable for.
LEMMA RowDeletedKeeps ==
    ASSUME ExecutionInv, NEW i \in DOMAIN raw, RowDeleted(i)
    PROVE  ExecutionInv'
<1> DEFINE rest == DOMAIN raw \ {i}
<1>1. /\ raw' = [j \in rest |-> raw[j]] /\ removed' = removed \cup {FillOf(i)}
      /\ UNCHANGED <<broker, through, cash, cast>>
    BY Zenon DEF RowDeleted, Restrict, others
<1>2. DOMAIN raw' = rest /\ \A j \in rest : raw'[j] = raw[j]
    BY <1>1
<1>3. \A j \in DOMAIN raw : FillOf(j) \in Fills
    BY Zenon DEF ExecutionInv, RowsInv, OfItsFill
<1>4. BrokerInv' /\ Fills' = Fills /\ Covered /\ through' \in [Accounts -> Nat]
    <2>1. removed' \subseteq Fills
        BY <1>1, <1>3, Zenon DEF ExecutionInv, BrokerInv
    <2> QED BY <1>1, <2>1, BrokerStands
<1>5. RowsInv'
    <2>1. ASSUME NEW j \in rest PROVE OfItsFill(j)'
        BY <1>1, <1>2, <1>3, <1>4, RowStands
    <2> QED BY <1>2, <2>1, Zenon DEF RowsInv
<1>6. StatementInv'
    <2>1. ASSUME NEW f \in Fills \ removed', f \in DOMAIN raw PROVE f \in DOMAIN raw'
        <3>1. f \in Nat /\ f > 0 /\ f < JournalBase
            BY FillFacts, SMT DEF ExecutionInv, JournalBase
        <3>2. FillOf(f) = f
            BY <3>1, Ids
        <3>3. f # i
            BY <1>1, <2>1, <3>2, Zenon
        <3> QED BY <1>2, <2>1, <3>3, Zenon
    <2> QED BY <1>1, <2>1, StatementStands, Zenon
<1>7. RestInv'
    <2>1. \A e \in DOMAIN att' : att'[e] \in Attribution
        BY Zenon DEF RowDeleted, Restrict, ExecutionInv, RestInv
    <2>2. "at" \in DOMAIN walk' /\ walk'.at \in {"idle", "on", "done"}
        BY Zenon DEF RowDeleted, Watched, ExecutionInv, RestInv
    <2> QED BY <1>1, <2>1, <2>2, Zenon DEF ExecutionInv, RestInv
<1> QED BY <1>4, <1>5, <1>6, <1>7 DEF ExecutionInv

LEMMA ImportCashKeeps ==
    ASSUME ExecutionInv, NEW l \in Lines, ImportCash(l)
    PROVE  ExecutionInv'
<1>1. UNCHANGED <<broker, through, raw, att, removed, cast>>
    BY Zenon DEF ImportCash, others
<1>2. \A i \in DOMAIN cash' : cash'[i] \in Lines
    <2> DEFINE known == {i \in DOMAIN cash : IF l.tx # 0 THEN cash[i].tx = l.tx
                                             ELSE cash[i].ts = l.ts /\ cash[i].amount = l.amount}
               id == IF known # {} THEN CHOOSE i \in known : TRUE ELSE Cardinality(DOMAIN cash) + 1
               row == IF l.tx = 0 /\ known # {} THEN cash[id] ELSE l
    <2>1. cash' = [i \in DOMAIN cash \cup {id} |-> IF i = id THEN row ELSE cash[i]]
        BY Zenon DEF ImportCash
    <2>2. known # {} => id \in DOMAIN cash
        OBVIOUS
    <2>3. \A i \in DOMAIN cash : cash[i] \in Lines
        BY Zenon DEF ExecutionInv, RestInv
    <2> HIDE DEF known, id
    <2> QED BY <2>1, <2>2, <2>3, Zenon
<1>3. "at" \in DOMAIN walk' /\ walk'.at \in {"idle", "on", "done"}
    BY Zenon DEF ImportCash, Watched, ExecutionInv, RestInv
<1> QED BY <1>1, <1>2, <1>3, RowsUntouched, Zenon DEF ExecutionInv, RestInv

LEMMA ReadPageKeeps ==
    ASSUME ExecutionInv, NEW works \in BOOLEAN, ReadPage(works)
    PROVE  ExecutionInv'
<1>1. UNCHANGED <<broker, through, raw, att, cash, removed, cast>>
    BY Zenon DEF ReadPage
<1>2. "at" \in DOMAIN walk' /\ walk'.at \in {"idle", "on", "done"}
    <2> DEFINE began == IF walk.at = "on" THEN walk
                        ELSE [at |-> "on", next |-> <<>>, got |-> <<>>,
                              stood |-> KeysOf(limits.list), failed |-> FALSE]
               page == PageFrom(limits.list, began.next)
    <2>1. walk' = IF works
                  THEN [began EXCEPT !.at = IF page.next = <<>> THEN "done" ELSE "on",
                                     !.got = @ \o page.items, !.next = page.next]
                  ELSE [began EXCEPT !.at = "done", !.failed = TRUE]
        BY Zenon DEF ReadPage
    <2>2. "at" \in DOMAIN began
        BY DEF ExecutionInv, RestInv
    <2> HIDE DEF began, page
    <2>3. CASE works
        BY <2>1, <2>2, <2>3
    <2>4. CASE ~works
        BY <2>1, <2>2, <2>4
    <2> QED BY <2>3, <2>4
<1> QED BY <1>1, <1>2, RowsUntouched, Zenon DEF ExecutionInv, RestInv

LEMMA ExecutionInvStep == ExecutionInv /\ [SharedNext]_bookVars => ExecutionInv'
<1> SUFFICES ASSUME ExecutionInv, [SharedNext]_bookVars PROVE ExecutionInv'
    OBVIOUS
<1>1. ASSUME NEW s \in limits.shapes, Execute(s) PROVE ExecutionInv'
    BY <1>1, ExecuteKeeps
<1>2. ASSUME NEW f \in Fills, ImportTws(f) PROVE ExecutionInv'
    BY <1>2, ImportTwsKeeps
<1>3. ASSUME NEW f \in Fills, ImportJournal(f) PROVE ExecutionInv'
    BY <1>3, ImportJournalKeeps
<1>4. ASSUME NEW f \in Fills, NEW t \in Trades \cup {NoTrade}, InsertByHand(f, t) PROVE ExecutionInv'
    BY <1>4, InsertByHandKeeps
<1>5. ASSUME NEW a \in Accounts, NEW d \in {SessionDay(s.time) : s \in limits.shapes}, ImportFlex(a, d)
      PROVE  ExecutionInv'
    BY <1>5, ImportFlexKeeps
<1>6. ASSUME NEW i \in DOMAIN raw, NEW t \in Trades \cup {NoTrade}, AttributeWhole(i, t) PROVE ExecutionInv'
    BY <1>6, AttributeWholeKeeps
<1>7. ASSUME NEW i \in DOMAIN raw, NEW T \in SUBSET Trades, NEW splits \in [T -> Parts], SplitFill(i, splits)
      PROVE  ExecutionInv'
    BY <1>7, SplitFillKeeps
<1>8. ASSUME NEW i \in DOMAIN raw, NEW q \in Parts \cap Nat, CorrectQuantity(i, q) PROVE ExecutionInv'
    BY <1>8, CorrectQuantityKeeps
<1>9. ASSUME NEW i \in DOMAIN raw, DeleteRow(i) PROVE ExecutionInv'
    BY <1>9, RowDeletedKeeps DEF DeleteRow
<1>10. ASSUME NEW l \in Lines, ImportCash(l) PROVE ExecutionInv'
    BY <1>10, ImportCashKeeps
<1>11. ASSUME NEW works \in BOOLEAN, ReadPage(works) PROVE ExecutionInv'
    BY <1>11, ReadPageKeeps
<1>12. CASE UNCHANGED bookVars
    <2>1. UNCHANGED <<broker, through, raw, att, cash, walk, removed, cast>>
        BY <1>12 DEF bookVars
    <2> QED BY <2>1, RowsUntouched, Zenon DEF ExecutionInv, RestInv
<1>13. CASE \E i \in IF edits < limits.edits THEN DOMAIN raw ELSE {} :
                \/ \E t \in Trades \cup {NoTrade} : AttributeWhole(i, t)
                \/ \E T \in SUBSET Trades : \E splits \in [T -> Parts] : SplitFill(i, splits)
                \/ \E q \in Parts \cap Nat : CorrectQuantity(i, q)
                \/ DeleteRow(i)
    <2>1. PICK i \in DOMAIN raw :
                \/ \E t \in Trades \cup {NoTrade} : AttributeWhole(i, t)
                \/ \E T \in SUBSET Trades : \E splits \in [T -> Parts] : SplitFill(i, splits)
                \/ \E q \in Parts \cap Nat : CorrectQuantity(i, q)
                \/ DeleteRow(i)
        BY <1>13, Zenon
    <2> QED BY <2>1, <1>6, <1>7, <1>8, <1>9, Zenon
<1>14. ASSUME NEW i \in DOMAIN raw, StrictDelete(i) PROVE ExecutionInv'
    BY <1>14, RowDeletedKeeps DEF StrictDelete
<1>15. CASE LinkEdit
    <2>1. UNCHANGED <<broker, through, raw, att, cash, walk, removed, cast>>
        BY <1>15, Zenon DEF LinkEdit, others
    <2> QED BY <2>1, RowsUntouched, Zenon DEF ExecutionInv, RestInv
<1> QED BY <1>1, <1>2, <1>3, <1>4, <1>5, <1>10, <1>11, <1>12, <1>13, <1>14, <1>15,
          Zenon DEF SharedNext, Next

LEMMA ExecutionInvInit == Init => ExecutionInv
<1> SUFFICES ASSUME Init PROVE ExecutionInv
    OBVIOUS
<1>1. /\ broker = <<>> /\ raw = <<>> /\ att = <<>> /\ cash = <<>> /\ removed = {} /\ walk = IdleWalk
      /\ through = [a \in Accounts |-> 0] /\ cast \in DOMAIN Casts
    BY Zenon DEF Init
<1>2. limits.fills \in 0 .. JournalBase - 1 /\ limits.shapes \subseteq Shapes
    <2>1. Casts[cast] \in [shapes : SUBSET Shapes, fills : 0 .. JournalBase - 1,
               sources : SUBSET {"tws", "flex", "journal"},
               may : SUBSET {"insert", "attribute", "correct", "delete", "strict", "link"}, edits : Nat,
               list : {"none", "executions", "transactions"}, faults : Nat, lines : Nat]
        BY <1>1, BookAssumption, Zenon
    <2> QED BY <2>1, Zenon DEF limits
<1>3. broker \in Seq(Shapes) /\ Len(broker) = 0 /\ DOMAIN broker = {} /\ DOMAIN raw = {} /\ DOMAIN att = {}
      /\ DOMAIN cash = {}
    BY <1>1
<1>4. Len(broker) <= limits.fills
    <2>1. PICK n \in 0 .. JournalBase - 1 : n = limits.fills
        BY <1>2
    <2>2. 0 <= n
        BY SMT DEF JournalBase
    <2> QED BY <1>3, <2>1, <2>2, Zenon
<1>5. through \in [Accounts -> Nat]
    BY <1>1, SMT
<1>6. BrokerInv
    BY <1>1, <1>2, <1>3, <1>4, <1>5, Zenon DEF BrokerInv
<1>7. RowsInv /\ StatementInv
    BY <1>3, Zenon DEF RowsInv, StatementInv, Fills
<1>8. RestInv
    <2>1. "at" \in DOMAIN walk /\ walk.at = "idle"
        BY <1>1 DEF IdleWalk
    <2> QED BY <1>3, <2>1, Zenon DEF RestInv
<1> QED BY <1>6, <1>7, <1>8 DEF ExecutionInv

LEMMA ExecutionInvariant == SharedSpec => []ExecutionInv
BY ExecutionInvInit, ExecutionInvStep, PTL DEF SharedSpec

-----------------------------------------------------------------------------
(* The theorems.                                                           *)

\* The rows, the attributions, the cash lines and the reader keep their types
\* (portfolio/reader/accounts.py).
THEOREM ExecutionTypes == SharedSpec => []TypeOK
<1>1. ASSUME ExecutionInv PROVE TypeOK
    <2>1. ASSUME NEW i \in DOMAIN raw PROVE FillOf(i) \in Fills /\ raw[i].qty > 0
        <3>1. FillOf(i) \in Fills /\ raw[i] \in RawRows
            BY <1>1, Zenon DEF ExecutionInv, RowsInv, OfItsFill
        <3>2. raw[i].qty \in Nat \ {0}
            BY <3>1 DEF RawRows
        <3> QED BY <3>1, <3>2, SMT
    <2>2. ASSUME NEW e \in DOMAIN att
          PROVE  att[e].whole \in Trades \cup {NoTrade} /\ DOMAIN att[e].splits \subseteq Trades
        <3>1. att[e] \in Attribution
            BY <1>1, Zenon DEF ExecutionInv, RestInv
        <3> QED BY <3>1 DEF Attribution
    <2> QED BY <1>1, <2>1, <2>2, Zenon DEF TypeOK, ExecutionInv, BrokerInv, RestInv
<1> QED BY <1>1, ExecutionInvariant, PTL

\* The last day Flex has covered is a day it has, and none is above it.
LEMMA Highest ==
    ASSUME NEW S \in SUBSET Nat, NEW n \in Nat, \A x \in S : x <= n
    PROVE  /\ Max({0} \cup S) \in {0} \cup S /\ \A x \in {0} \cup S : Max({0} \cup S) >= x
           /\ Max({0} \cup S) <= n
<1> DEFINE T == {0} \cup S
           above == {k \in Nat : \A x \in T : x <= k}
<1>1. n \in above
    BY SMT
<1>2. PICK k \in above : \A j \in above : ~(<<j, k>> \in OpToRel(<, Nat))
    BY <1>1, NatLessThanWellFounded, WFMin, Zenon
<1>3. \A j \in above : ~(j < k)
    BY <1>2, Zenon DEF OpToRel
<1>4. k \in T
    <2> SUFFICES ASSUME k \notin T PROVE FALSE
        OBVIOUS
    <2>1. \A x \in T : x \in Nat /\ x <= k /\ x # k
        OBVIOUS
    <2>2. k > 0 /\ k \in Nat
        BY <2>1, SMT
    <2>3. k - 1 \in Nat /\ \A x \in T : x <= k - 1
        BY <2>1, <2>2, SMT
    <2>4. k - 1 \in above
        BY <2>3
    <2> HIDE DEF above
    <2> QED BY <1>3, <2>2, <2>4, SMT
<1>5. \A x \in T : k >= x
    BY SMT
<1> HIDE DEF above
<1>6. Max(T) \in T /\ \A x \in T : Max(T) >= x
    BY <1>4, <1>5, Zenon DEF Max
<1> DEFINE m == Max(T)
<1>7. m \in T /\ \A x \in T : m >= x
    BY <1>6
<1> HIDE DEF m
<1>8. m <= n
    BY <1>7, SMT
<1> QED BY <1>7, <1>8, Zenon DEF m

\* A fill TWS has reported is on the fly until Flex or the journal has it, and then no more,
\* for any fills, statements, edits and deletes
\* (brokerage_views.fly_rows_sql).
THEOREM ExecutionPending == SharedSpec => []PendingUntilFlex
<1>1. ASSUME ExecutionInv, NEW f \in Fills \ removed, broker[f].sec # "BAG", -f \in DOMAIN raw
      PROVE  LET final == \E i \in Final : FillOf(i) = f
             IN /\ ~final => -f \in Fly
                /\ final /\ (~broker[f].alias \/ (broker[f].dated /\ ~Evening(f))) => -f \notin Fly
    <2> DEFINE i == -f
               s == broker[f]
               final == \E j \in Final : FillOf(j) = f
               days == {raw[j].day : j \in {k \in FlexRows : raw[k].acct = s.acct}}
    <2>1. f \in Nat /\ f > 0 /\ f < JournalBase /\ s \in Shapes
        BY <1>1, FillFacts, SMT DEF ExecutionInv, JournalBase
    <2>2. FillOf(i) = f /\ FillOf(f) = f /\ i < 0 /\ i > -JournalBase
        BY <2>1, Ids
    <2>3. i \in TwsRows
        BY <1>1, <2>2, Zenon DEF TwsRows
    <2>4. /\ raw[i].acct = s.acct /\ raw[i].sec = s.sec /\ s.via = "ib"
          /\ raw[i].exec = f /\ raw[i].day = UtcDay(s.time)
        <3>1. OfItsFill(i)
            BY <1>1, Zenon DEF ExecutionInv, RowsInv
        <3> QED BY <2>2, <2>3, <3>1, Zenon DEF OfItsFill
    <2>5. /\ SessionDay(s.time) \in Nat \ {0} /\ UtcDay(s.time) \in Nat
          /\ SessionDay(s.time) <= UtcDay(s.time)
          /\ s.time % 2 # 0 => SessionDay(s.time) = UtcDay(s.time)
        BY <2>1, ShapeFacts, DayFacts
    <2>6. through[s.acct] \in Nat
        BY <1>1, <2>1, ShapeFacts, Zenon DEF ExecutionInv, BrokerInv
    <2>7. ASSUME NEW j \in FlexRows
          PROVE  /\ j \in Fills /\ FillOf(j) = j /\ broker[j] \in Shapes /\ raw[j].acct = broker[j].acct
                 /\ raw[j].exec = IF broker[j].alias THEN JournalBase + j ELSE j
                 /\ raw[j].day = IF broker[j].dated THEN SessionDay(broker[j].time) ELSE 0
                 /\ SessionDay(broker[j].time) <= through[broker[j].acct]
                 /\ raw[j].day \in Nat /\ raw[j].day <= through[broker[j].acct]
        <3>1. OfItsFill(j) /\ j > 0
            BY <1>1, Zenon DEF ExecutionInv, RowsInv, FlexRows
        <3>2. FillOf(j) = j
            BY <3>1, SMT DEF OfItsFill, FillOf
        <3>3. j \in Fills /\ broker[j] \in Shapes
            BY <1>1, <3>1, <3>2, FillFacts, Zenon DEF OfItsFill, ExecutionInv
        <3>4. /\ raw[j].exec = IF broker[j].alias THEN JournalBase + j ELSE j
              /\ raw[j].day = IF broker[j].dated THEN SessionDay(broker[j].time) ELSE 0
              /\ SessionDay(broker[j].time) <= through[broker[j].acct] /\ raw[j].acct = broker[j].acct
            BY <3>1, <3>2, Zenon DEF OfItsFill
        <3>5. SessionDay(broker[j].time) \in Nat
            BY <3>3, ShapeFacts, DayFacts
        <3>6. through[broker[j].acct] \in Nat
            BY <1>1, <3>3, ShapeFacts, Zenon DEF ExecutionInv, BrokerInv
        <3>7. 0 <= through[broker[j].acct]
            BY <3>6, SMT
        <3>8. raw[j].day \in Nat /\ raw[j].day <= through[broker[j].acct]
            BY <3>4, <3>5, <3>7
        <3> QED BY <3>2, <3>3, <3>4, <3>8
    <2>8. days \in SUBSET Nat /\ \A x \in days : x <= through[s.acct]
        <3>1. ASSUME NEW j \in FlexRows, raw[j].acct = s.acct
              PROVE  raw[j].day \in Nat /\ raw[j].day <= through[s.acct]
            BY <2>7, <3>1
        <3> QED BY <3>1, Zenon
    <2>9. /\ FlexThrough(s.acct) <= through[s.acct] /\ FlexThrough(s.acct) \in {0} \cup days
          /\ \A x \in days : FlexThrough(s.acct) >= x
        <3> HIDE DEF days, s
        <3>1. /\ Max({0} \cup days) \in {0} \cup days /\ \A x \in {0} \cup days : Max({0} \cup days) >= x
              /\ Max({0} \cup days) <= through[s.acct]
            BY <2>6, <2>8, Highest, Zenon
        <3>2. FlexThrough(s.acct) = Max({0} \cup days)
            BY Zenon DEF FlexThrough, days
        <3> QED BY <3>1, <3>2, Zenon
    <2>10. final <=> f \in FlexRows
        <3>1. ASSUME NEW j \in JournalRows, FillOf(j) = f PROVE FALSE
            <4>1. j \in DOMAIN raw
                BY DEF JournalRows
            <4>2. OfItsFill(j)
                BY <1>1, <4>1, Zenon DEF ExecutionInv, RowsInv
            <4>3. s.via = "journal"
                BY <3>1, <4>2, Zenon DEF OfItsFill
            <4> QED BY <2>4, <4>3
        <3> QED BY <2>2, <2>7, <3>1, ZenonT(30) DEF Final
    <2>11. f \in FlexRows <=> f \in DOMAIN raw
        BY <2>1 DEF FlexRows
    <2>12. i \in Fly <=> ~InFlex(i) /\ UtcDay(s.time) > FlexThrough(s.acct)
        BY <1>1, <2>3, <2>4, Zenon DEF Fly, PendingFill
    <2>13. ASSUME ~final PROVE i \in Fly
        <3>1. ~InFlex(i)
            <4> SUFFICES ASSUME NEW j \in FlexRows, raw[j].exec = f PROVE FALSE
                BY <2>4, Zenon DEF InFlex
            <4>1. j \in Nat /\ j > 0
                BY <1>1, <2>7, FillFacts, SMT DEF ExecutionInv
            <4>2. f = j \/ f = JournalBase + j
                BY <2>7
            <4>3. f = j
                BY <2>1, <4>1, <4>2, SMT DEF JournalBase
            <4> QED BY <2>10, <2>13, <4>3
        <3>2. ~(SessionDay(s.time) <= through[s.acct])
            BY <1>1, <2>4, <2>10, <2>11, <2>13, Zenon DEF ExecutionInv, StatementInv
        <3>3. FlexThrough(s.acct) \in Nat
            BY <2>8, <2>9
        <3> HIDE DEF s
        <3>4. UtcDay(s.time) > FlexThrough(s.acct)
            BY <2>5, <2>6, <2>9, <3>2, <3>3, SMT
        <3> QED BY <2>12, <3>1, <3>4
    <2>14. ASSUME final, ~s.alias \/ (s.dated /\ ~Evening(f)) PROVE i \notin Fly
        <3>1. f \in FlexRows
            BY <2>10, <2>14
        <3>2. CASE ~s.alias
            <4>1. raw[f].exec = f
                BY <2>7, <3>1, <3>2, Zenon
            <4> QED BY <2>4, <2>12, <3>1, <4>1, Zenon DEF InFlex
        <3>3. CASE s.dated /\ ~Evening(f)
            <4>1. raw[f].day = SessionDay(s.time) /\ raw[f].acct = s.acct
                BY <2>7, <3>1, <3>3, Zenon
            <4>2. SessionDay(s.time) = UtcDay(s.time)
                BY <2>5, <3>3 DEF Evening
            <4>3. UtcDay(s.time) \in days
                BY <3>1, <4>1, <4>2, Zenon
            <4>4. FlexThrough(s.acct) >= UtcDay(s.time) /\ FlexThrough(s.acct) \in Nat
                BY <2>8, <2>9, <4>3
            <4> HIDE DEF s
            <4> QED BY <2>5, <2>12, <4>4, SMT
        <3> QED BY <2>14, <3>2, <3>3
    <2> QED BY <2>13, <2>14
<1>2. ExecutionInv => PendingUntilFlex
    BY <1>1, Zenon DEF PendingUntilFlex
<1> QED BY <1>2, ExecutionInvariant, PTL

-----------------------------------------------------------------------------
(* Sums over finite sets. The folds of the community modules choose an     *)
(* element and go on with the rest; that any element could be taken first  *)
(* is shown by taking a smallest set for which it is not so.               *)

\* A set of naturals has a least element.
LEMMA LeastOf ==
    ASSUME NEW N, N \subseteq Nat, N # {}
    PROVE  \E n \in N : \A m \in N : n <= m
<1>1. PICK n \in N : \A m \in N : ~(<<m, n>> \in OpToRel(<, Nat))
  BY NatLessThanWellFounded, WFMin, Zenon
<1>2. \A m \in N : ~(m < n)
  BY <1>1, Zenon DEF OpToRel
<1>3. \A m \in N : m \in Nat
  OBVIOUS
<1> QED BY <1>2, <1>3

\* What is true of a set when it is true of that set less any of its elements is true of
\* every finite set.
LEMMA OneByOne ==
    ASSUME NEW S, IsFiniteSet(S), NEW Bad, Bad \subseteq SUBSET S,
           \A s \in SUBSET S : (\A x \in s : s \ {x} \notin Bad) => s \notin Bad
    PROVE  Bad = {}
<1> DEFINE N == {Cardinality(s) : s \in Bad}
<1>1. ASSUME NEW s \in SUBSET S
      PROVE  IsFiniteSet(s) /\ Cardinality(s) \in Nat
  BY FS_Subset, FS_CardinalityType
<1>2. SUFFICES ASSUME Bad # {} PROVE FALSE
  OBVIOUS
<1>3. N \subseteq Nat /\ N # {}
  BY <1>1, <1>2
<1>4. PICK n \in N : \A m \in N : n <= m
  BY <1>3, LeastOf, Zenon
<1>5. PICK s \in Bad : Cardinality(s) = n
  BY <1>4
<1>6. s \in SUBSET S
  BY <1>5
<1>7. PICK x \in s : s \ {x} \in Bad
  BY <1>5, <1>6, Zenon
<1>8. Cardinality(s \ {x}) = Cardinality(s) - 1
  BY <1>1, <1>6, <1>7, FS_RemoveElement
<1>9. n \in Nat /\ Cardinality(s \ {x}) \in N
  BY <1>3, <1>4, <1>7
<1>10. n <= Cardinality(s \ {x})
  BY <1>4, <1>9, Zenon
<1> HIDE DEF N
<1>11. n <= n - 1
  BY <1>5, <1>8, <1>10, Zenon
<1> QED BY <1>9, <1>11

\* T adds up the values F over each subset of S, taking the elements as the folds do.
OneOf(s) == CHOOSE x \in s : TRUE
Table(T, F, S) ==
    T = [s \in SUBSET S |-> IF s = {} THEN 0 ELSE F[OneOf(s)] + T[s \ {OneOf(s)}]]
Numbers(F, S) == \A x \in S : F[x] \in Int

\* The element chosen is one of the set.
LEMMA OneOfIsIn == \A s : s # {} => OneOf(s) \in s
BY DEF OneOf

TableLaw(T, F, S) ==
    /\ T[{}] = 0
    /\ \A s \in SUBSET S : s # {} => T[s] = F[OneOf(s)] + T[s \ {OneOf(s)}]

\* What a table says of each subset.
LEMMA TableRows ==
    ASSUME NEW S, NEW T, NEW F, Table(T, F, S)
    PROVE  TableLaw(T, F, S)
<1>1. {} \in SUBSET S
  OBVIOUS
<1> QED BY <1>1, Zenon DEF Table, TableLaw

\* The sum over a set is that over the set less any element, and this element's value.
AddsUp(T, F, S) ==
    \A s \in SUBSET S : T[s] \in Int /\ \A x \in s : T[s] = F[x] + T[s \ {x}]

\* The sums of numbers are numbers.
LEMMA TableInts ==
    ASSUME NEW S, IsFiniteSet(S), NEW F, Numbers(F, S), NEW T, Table(T, F, S)
    PROVE  \A s \in SUBSET S : T[s] \in Int
<1> DEFINE Bad == {s \in SUBSET S : T[s] \notin Int}
<1>1. TableLaw(T, F, S)
  BY TableRows, Zenon
<1>2. ASSUME NEW s \in SUBSET S, \A x \in s : s \ {x} \notin Bad
      PROVE  s \notin Bad
  <2>1. CASE s = {}
    BY <1>1, <2>1 DEF TableLaw
  <2>2. CASE s # {}
    <3>1. PICK p \in s : T[s] = F[p] + T[s \ {p}]
      <4>1. T[s] = F[OneOf(s)] + T[s \ {OneOf(s)}]
        BY <1>1, <2>2, Zenon DEF TableLaw
      <4> QED BY <2>2, <4>1, OneOfIsIn, Zenon
    <3>2. T[s \ {p}] \in Int /\ F[p] \in Int
      BY <1>2 DEF Numbers
    <3> QED BY <3>1, <3>2
  <2> QED BY <2>1, <2>2
<1>3. Bad = {}
  <2>1. Bad \subseteq SUBSET S
    OBVIOUS
  <2> HIDE DEF Bad
  <2> QED BY <1>2, <2>1, OneByOne, Zenon
<1> QED BY <1>3

\* Whatever element is taken out, its value is what the sum loses.
LEMMA TableStep ==
    ASSUME NEW S, IsFiniteSet(S), NEW F, Numbers(F, S), NEW T, Table(T, F, S)
    PROVE  AddsUp(T, F, S)
<1> DEFINE Bad == {s \in SUBSET S : ~(T[s] \in Int /\ \A x \in s : T[s] = F[x] + T[s \ {x}])}
<1>1. /\ T[{}] = 0
      /\ \A s \in SUBSET S : s # {} => T[s] = F[OneOf(s)] + T[s \ {OneOf(s)}]
  <2>1. TableLaw(T, F, S)
    BY TableRows, Zenon
  <2> QED BY <2>1, Zenon DEF TableLaw
<1>2. ASSUME NEW s \in SUBSET S, \A x \in s : s \ {x} \notin Bad
      PROVE  s \notin Bad
  <2>1. CASE s = {}
    BY <1>1, <2>1
  <2>2. CASE s # {}
    <3>1. PICK p \in s : T[s] = F[p] + T[s \ {p}]
      BY <1>1, <2>2, OneOfIsIn, Zenon
    <3>2. \A x \in s : /\ s \ {x} \in SUBSET S /\ T[s \ {x}] \in Int /\ F[x] \in Int
                       /\ \A y \in s \ {x} : T[s \ {x}] = F[y] + T[(s \ {x}) \ {y}]
      BY <1>2, Zenon DEF Numbers
    <3>3. T[s] \in Int
      <4>1. T[s \ {p}] \in Int /\ F[p] \in Int
        BY <3>2, Zenon
      <4> QED BY <3>1, <4>1
    <3>4. ASSUME NEW x \in s PROVE T[s] = F[x] + T[s \ {x}]
      <4>1. CASE x = p
        BY <3>1, <4>1
      <4>2. CASE x # p
        <5>1. (s \ {x}) \ {p} = (s \ {p}) \ {x}
          OBVIOUS
        <5>2. x \in s \ {p} /\ p \in s \ {x}
          BY <4>2
        <5>3. T[s \ {p}] = F[x] + T[(s \ {p}) \ {x}] /\ T[s \ {x}] = F[p] + T[(s \ {p}) \ {x}]
          BY <3>2, <5>1, <5>2, Zenon
        <5>4. T[s \ {x}] \in Int /\ T[s \ {p}] \in Int /\ F[x] \in Int /\ F[p] \in Int
          BY <3>2, Zenon
        <5> DEFINE c == T[(s \ {p}) \ {x}]
        <5>5. c \in Int /\ T[s \ {p}] = F[x] + c /\ T[s \ {x}] = F[p] + c
          <6>1. (s \ {p}) \ {x} \in SUBSET S
            OBVIOUS
          <6> QED BY <5>3, <6>1, TableInts
        <5> HIDE DEF c
        <5> QED BY <3>1, <5>4, <5>5
      <4> QED BY <4>1, <4>2
    <3> QED BY <3>3, <3>4
  <2> QED BY <2>1, <2>2
<1>3. Bad = {}
  <2>1. Bad \subseteq SUBSET S
    OBVIOUS
  <2> HIDE DEF Bad
  <2> QED BY <1>2, <2>1, OneByOne, Zenon
<1> QED BY <1>3 DEF AddsUp

\* One step of a table from another: the sums over sets with an element more.
More(T, F, D) ==
    [s \in D |-> IF s = {} THEN 0 ELSE F[OneOf(s)] + T[s \ {OneOf(s)}]]

\* Every finite set has a table.
LEMMA TableExists ==
    ASSUME NEW S, IsFiniteSet(S), NEW F
    PROVE  \E T : Table(T, F, S)
<1> DEFINE D(n) == {s \in SUBSET S : Cardinality(s) <= n}
           Bad == {n \in Nat : ~\E T : T = More(T, F, D(n))}
<1>1. ASSUME NEW s \in SUBSET S
      PROVE  IsFiniteSet(s) /\ Cardinality(s) \in Nat /\ Cardinality(s) <= Cardinality(S)
  BY FS_Subset, FS_CardinalityType
<1>2. 0 \notin Bad
  <2> DEFINE T == [s \in D(0) |-> 0]
  <2>1. \A s \in D(0) : s = {}
    <3> TAKE s \in D(0)
    <3>1. Cardinality(s) = 0 /\ IsFiniteSet(s)
      BY <1>1
    <3> QED BY <3>1, FS_EmptySet
  <2>2. T = More(T, F, D(0))
    BY <2>1 DEF More
  <2> QED BY <2>2, Zenon
<1>3. ASSUME NEW n \in Nat, n \notin Bad
      PROVE  n + 1 \notin Bad
  <2>1. PICK T : T = More(T, F, D(n))
    BY <1>3
  <2> DEFINE U == More(T, F, D(n + 1))
  <2>2. D(n) \subseteq D(n + 1)
    <3>1. \A s \in SUBSET S : Cardinality(s) \in Nat
      BY <1>1
    <3> QED BY <3>1
  <2>3. \A s \in D(n) : U[s] = T[s]
    <3> TAKE s \in D(n)
    <3>1. T[s] = More(T, F, D(n))[s]
      BY <2>1, Zenon
    <3> QED BY <2>2, <3>1 DEF More
  <2>4. \A s \in D(n + 1) : s # {} => s \ {OneOf(s)} \in D(n)
    <3> TAKE s \in D(n + 1)
    <3> HAVE s # {}
    <3>1. OneOf(s) \in s
      BY OneOfIsIn
    <3>2. Cardinality(s \ {OneOf(s)}) = Cardinality(s) - 1 /\ Cardinality(s) \in Nat
      BY <1>1, <3>1, FS_RemoveElement
    <3> QED BY <3>2
  <2> HIDE DEF D
  <2>5. \A s \in D(n + 1) : s # {} => U[s \ {OneOf(s)}] = T[s \ {OneOf(s)}]
    BY <2>3, <2>4
  <2>6. U = More(U, F, D(n + 1))
    BY <2>5, Zenon DEF More
  <2> QED BY <2>6
<1>4. Bad = {}
  <2>1. Bad \subseteq Nat
    OBVIOUS
  <2> HIDE DEF Bad
  <2>2. SUFFICES ASSUME Bad # {} PROVE FALSE
    OBVIOUS
  <2>3. PICK n \in Bad : \A m \in Bad : n <= m
    BY <2>1, <2>2, LeastOf, Zenon
  <2>4. n \in Nat /\ n # 0
    BY <1>2, <2>1
  <2>5. n - 1 \in Nat /\ n - 1 \notin Bad /\ n = (n - 1) + 1
    BY <2>3, <2>4
  <2> QED BY <1>3, <2>5
<1>5. Cardinality(S) \in Nat /\ D(Cardinality(S)) = SUBSET S
  BY <1>1
<1>6. PICK T : T = More(T, F, D(Cardinality(S)))
  BY <1>4, <1>5, Zenon
<1> HIDE DEF D
<1>7. T = More(T, F, SUBSET S)
  BY <1>5, <1>6, Zenon
<1> QED BY <1>7, Zenon DEF More, Table

\* The sum of the values of f on S.
Total(f, S) == MapThenSumSet(LAMBDA x : f[x], S)

\* It is the last row of a table.
LEMMA TotalTable ==
    ASSUME NEW f, NEW S, IsFiniteSet(S)
    PROVE  \E T : Table(T, f, S) /\ T[S] = Total(f, S)
<1> DEFINE Sums(T) == [s \in SUBSET S |-> IF s = {} THEN 0
                           ELSE f[CHOOSE x \in s : TRUE] + T[s \ {CHOOSE x \in s : TRUE}]]
           C == CHOOSE T : T = Sums(T)
<1>1. Total(f, S) = C[S]
  BY DEF Total, MapThenSumSet, MapThenFoldSet
<1>2. PICK T : Table(T, f, S)
  BY TableExists, Zenon
<1>3. \A U : Table(U, f, S) <=> U = Sums(U)
  BY DEF Table, OneOf
<1>4. C = Sums(C)
  <2>1. T = Sums(T)
    BY <1>2, <1>3, Zenon
  <2> HIDE DEF Sums
  <2> QED BY <2>1, Zenon
<1>5. Table(C, f, S)
  BY <1>3, <1>4, Zenon
<1> QED BY <1>1, <1>5, Zenon

\* Two tables of the same values agree where both are.
LEMMA TablesAgree ==
    ASSUME NEW S, IsFiniteSet(S), NEW R \in SUBSET S, NEW f, NEW g, Numbers(f, S),
           \A x \in R : g[x] = f[x], NEW T, Table(T, f, S), NEW U, Table(U, g, R)
    PROVE  T[R] = U[R]
<1> DEFINE Bad == {s \in SUBSET R : T[s] # U[s]}
<1>1. IsFiniteSet(R) /\ Numbers(g, R)
  BY FS_Subset DEF Numbers
<1>2. AddsUp(T, f, S) /\ AddsUp(U, g, R) /\ TableLaw(T, f, S) /\ TableLaw(U, g, R)
  BY <1>1, TableStep, TableRows, Zenon
<1>3. ASSUME NEW s \in SUBSET R, \A x \in s : s \ {x} \notin Bad PROVE s \notin Bad
  <2>1. CASE s = {}
    BY <1>2, <2>1 DEF TableLaw
  <2>2. CASE s # {}
    <3>1. PICK x \in s : TRUE
      BY <2>2
    <3>2. T[s] = f[x] + T[s \ {x}] /\ U[s] = g[x] + U[s \ {x}]
      BY <1>2, Zenon DEF AddsUp
    <3>3. T[s \ {x}] = U[s \ {x}] /\ g[x] = f[x]
      BY <1>3
    <3> QED BY <3>2, <3>3
  <2> QED BY <2>1, <2>2
<1>4. Bad = {}
  <2>1. Bad \subseteq SUBSET R
    OBVIOUS
  <2> HIDE DEF Bad
  <2> QED BY <1>1, <1>3, <2>1, OneByOne, Zenon
<1> QED BY <1>4

LEMMA TableIsTotal ==
    ASSUME NEW S, IsFiniteSet(S), NEW f, Numbers(f, S), NEW T, Table(T, f, S)
    PROVE  T[S] = Total(f, S)
<1>1. PICK U : Table(U, f, S) /\ U[S] = Total(f, S)
  BY TotalTable, Zenon
<1>2. S \in SUBSET S /\ \A x \in S : f[x] = f[x]
  OBVIOUS
<1> QED BY <1>1, <1>2, TablesAgree

\* A sum of numbers is a number, and any of them may be taken out of it first.
LEMMA TotalStep ==
    ASSUME NEW S, IsFiniteSet(S), NEW f, Numbers(f, S)
    PROVE  Total(f, S) \in Int /\ \A x \in S : Total(f, S) = f[x] + Total(f, S \ {x})
<1>1. PICK T : Table(T, f, S) /\ T[S] = Total(f, S)
  BY TotalTable, Zenon
<1>2. AddsUp(T, f, S)
  BY <1>1, TableStep, Zenon
<1>3. ASSUME NEW x \in S PROVE T[S] = f[x] + Total(f, S \ {x})
  <2>1. IsFiniteSet(S \ {x})
    BY FS_Subset, Zenon
  <2>2. PICK U : Table(U, f, S \ {x}) /\ U[S \ {x}] = Total(f, S \ {x})
    BY <2>1, TotalTable, Zenon
  <2>3. S \ {x} \in SUBSET S /\ \A y \in S \ {x} : f[y] = f[y]
    OBVIOUS
  <2>4. T[S \ {x}] = U[S \ {x}]
    BY <1>1, <2>2, <2>3, TablesAgree
  <2> QED BY <1>2, <2>2, <2>4, ZenonT(30) DEF AddsUp
<1> QED BY <1>1, <1>2, <1>3, Zenon DEF AddsUp

LEMMA TotalNone == \A f : Total(f, {}) = 0
<1> TAKE f
<1>1. IsFiniteSet({})
  BY FS_EmptySet
<1>2. PICK T : Table(T, f, {}) /\ T[{}] = Total(f, {})
  BY <1>1, TotalTable, Zenon
<1>3. TableLaw(T, f, {})
  BY <1>2, TableRows, Zenon
<1> QED BY <1>2, <1>3, Zenon DEF TableLaw

\* Sums add up: the values of h are those of f and g together.
LEMMA TotalAdds ==
    ASSUME NEW S, IsFiniteSet(S), NEW f, NEW g, NEW h, Numbers(f, S), Numbers(g, S),
           \A x \in S : h[x] = f[x] + g[x]
    PROVE  Total(h, S) = Total(f, S) + Total(g, S)
<1> DEFINE Bad == {s \in SUBSET S : Total(h, s) # Total(f, s) + Total(g, s)}
<1>1. ASSUME NEW s \in SUBSET S
      PROVE  /\ IsFiniteSet(s) /\ Numbers(f, s) /\ Numbers(g, s) /\ Numbers(h, s)
             /\ Total(f, s) \in Int /\ Total(g, s) \in Int
  <2>1. IsFiniteSet(s)
    BY FS_Subset
  <2>2. Numbers(f, s) /\ Numbers(g, s) /\ Numbers(h, s)
    BY DEF Numbers
  <2> QED BY <2>1, <2>2, TotalStep, Zenon
<1>2. ASSUME NEW s \in SUBSET S, \A x \in s : s \ {x} \notin Bad PROVE s \notin Bad
  <2>1. CASE s = {}
    BY <2>1, TotalNone
  <2>2. CASE s # {}
    <3>1. PICK x \in s : TRUE
      BY <2>2
    <3>2. Total(f, s) = f[x] + Total(f, s \ {x}) /\ Total(g, s) = g[x] + Total(g, s \ {x})
          /\ Total(h, s) = h[x] + Total(h, s \ {x})
      BY <1>1, TotalStep, Zenon
    <3>3. Total(h, s \ {x}) = Total(f, s \ {x}) + Total(g, s \ {x})
      BY <1>2
    <3>4. s \ {x} \in SUBSET S
      OBVIOUS
    <3>5. Total(f, s \ {x}) \in Int /\ Total(g, s \ {x}) \in Int
      BY <1>1, <3>4, Zenon
    <3>6. f[x] \in Int /\ g[x] \in Int /\ h[x] = f[x] + g[x]
      BY DEF Numbers
    <3> QED BY <3>2, <3>3, <3>5, <3>6
  <2> QED BY <2>1, <2>2
<1>3. Bad = {}
  <2>1. Bad \subseteq SUBSET S
    OBVIOUS
  <2> HIDE DEF Bad
  <2> QED BY <1>2, <2>1, OneByOne, Zenon
<1> QED BY <1>3

\* The values that are 0 may be left out.
LEMMA TotalWithin ==
    ASSUME NEW S, IsFiniteSet(S), NEW R \in SUBSET S, NEW f, NEW g, Numbers(f, S), Numbers(g, R),
           \A x \in S : f[x] = IF x \in R THEN g[x] ELSE 0
    PROVE  Total(f, S) = Total(g, R)
<1> DEFINE Bad == {s \in SUBSET S : Total(f, s) # Total(g, s \cap R)}
<1>1. ASSUME NEW s \in SUBSET S
      PROVE  IsFiniteSet(s) /\ IsFiniteSet(s \cap R) /\ Numbers(f, s) /\ Numbers(g, s \cap R)
  <2>1. IsFiniteSet(s)
    BY FS_Subset
  <2>2. IsFiniteSet(s \cap R)
    BY FS_Subset
  <2> QED BY <2>1, <2>2 DEF Numbers
<1>2. ASSUME NEW s \in SUBSET S, \A x \in s : s \ {x} \notin Bad PROVE s \notin Bad
  <2>1. CASE s = {}
    <3>1. s \cap R = {}
      BY <2>1
    <3> QED BY <2>1, <3>1, TotalNone
  <2>2. CASE s # {}
    <3>1. PICK x \in s : TRUE
      BY <2>2
    <3>2. Total(f, s) = f[x] + Total(f, s \ {x}) /\ Total(f, s \ {x}) = Total(g, (s \ {x}) \cap R)
      <4>1. Total(f, s) = f[x] + Total(f, s \ {x})
        BY <1>1, TotalStep, Zenon
      <4> QED BY <1>2, <4>1
    <3>3. CASE x \in R
      <4>1. (s \ {x}) \cap R = (s \cap R) \ {x} /\ x \in s \cap R
        BY <3>3
      <4>2. Total(g, s \cap R) = g[x] + Total(g, (s \cap R) \ {x})
        BY <1>1, <4>1, TotalStep, Zenon
      <4>3. f[x] = g[x]
        BY <3>3
      <4> QED BY <3>2, <4>1, <4>2, <4>3
    <3>4. CASE x \notin R
      <4>1. (s \ {x}) \cap R = s \cap R
        BY <3>4
      <4>2. f[x] = 0 /\ Total(g, s \cap R) \in Int
        BY <1>1, <3>4, TotalStep, Zenon
      <4>3. Total(f, s \ {x}) = Total(g, s \cap R)
        BY <3>2, <4>1, Zenon
      <4>4. Total(f, s) = f[x] + Total(g, s \cap R)
        BY <3>2, <4>3, Zenon
      <4> HIDE DEF Bad
      <4>5. Total(f, s) = Total(g, s \cap R)
        BY <4>2, <4>4, SMT
      <4> QED BY <4>5 DEF Bad
    <3> QED BY <3>3, <3>4
  <2> QED BY <2>1, <2>2
<1>3. Bad = {}
  <2>1. Bad \subseteq SUBSET S
    OBVIOUS
  <2> HIDE DEF Bad
  <2> QED BY <1>2, <2>1, OneByOne, Zenon
<1>4. S \cap R = R
  OBVIOUS
<1> QED BY <1>3, <1>4

\* A sum over a set of pictures, no two of them alike, is one over what they are of.
LEMMA TotalAlong ==
    ASSUME NEW S, IsFiniteSet(S), NEW b, NEW f, NEW g, Numbers(f, S), \A x \in S : g[b[x]] = f[x],
           \A x, y \in S : b[x] = b[y] => x = y, NEW P, P = {b[x] : x \in S}
    PROVE  Total(g, P) = Total(f, S)
<1> DEFINE Im(s) == {b[x] : x \in s}
           Bad == {s \in SUBSET S : Total(g, Im(s)) # Total(f, s)}
<1>1. ASSUME NEW s \in SUBSET S
      PROVE  IsFiniteSet(s) /\ IsFiniteSet(Im(s)) /\ Numbers(f, s) /\ Numbers(g, Im(s))
  <2>1. IsFiniteSet(s)
    BY FS_Subset
  <2>2. IsFiniteSet(Im(s))
    <3> DEFINE c == [x \in s |-> b[x]]
    <3>1. c \in Surjection(s, Im(s))
      BY DEF Surjection
    <3> QED BY <2>1, <3>1, FS_Surjection, Zenon
  <2> QED BY <2>1, <2>2 DEF Numbers
<1>2. ASSUME NEW s \in SUBSET S, \A x \in s : s \ {x} \notin Bad PROVE s \notin Bad
  <2>1. CASE s = {}
    <3>1. Im(s) = {}
      BY <2>1
    <3> QED BY <2>1, <3>1, TotalNone
  <2>2. CASE s # {}
    <3>1. PICK x \in s : TRUE
      BY <2>2
    <3>2. Im(s) \ {b[x]} = Im(s \ {x}) /\ b[x] \in Im(s)
      OBVIOUS
    <3>3. Total(g, Im(s \ {x})) = Total(f, s \ {x})
      BY <1>2
    <3> HIDE DEF Im
    <3>4. Total(f, s) = f[x] + Total(f, s \ {x}) /\ Total(g, Im(s)) = g[b[x]] + Total(g, Im(s) \ {b[x]})
      BY <1>1, <3>2, TotalStep, Zenon
    <3>5. g[b[x]] = f[x]
      OBVIOUS
    <3>6. Total(g, Im(s)) = Total(f, s)
      BY <3>2, <3>3, <3>4, <3>5, Zenon
    <3> QED BY <3>6
  <2> QED BY <2>1, <2>2
<1>3. Bad = {}
  <2>1. Bad \subseteq SUBSET S
    OBVIOUS
  <2> HIDE DEF Bad
  <2> QED BY <1>2, <2>1, OneByOne, Zenon
<1>4. S \notin Bad
  BY <1>3
<1> QED BY <1>4

\* A table of numbers adds up to the same by rows and by columns.
Cells(M, S, R) == \A i \in S : \A t \in R : M[i][t] \in Int
ByRows(M, S, R, rows) == \A i \in S : rows[i] = Total(M[i], R)
ByColumns(M, S, R, columns) == \A t \in R : columns[t] = Total([i \in S |-> M[i][t]], S)
LEMMA TotalBothWays ==
    ASSUME NEW S, IsFiniteSet(S), NEW R, IsFiniteSet(R), NEW M, Cells(M, S, R),
           NEW rows, ByRows(M, S, R, rows), NEW columns, ByColumns(M, S, R, columns)
    PROVE  Total(columns, R) = Total(rows, S)
<1> USE DEF Cells, ByRows, ByColumns
<1> DEFINE col(s, t) == Total([i \in S |-> M[i][t]], s)
           Bad == {s \in SUBSET S : Total([t \in R |-> col(s, t)], R) # Total(rows, s)}
<1>1. \A i \in S : Numbers(M[i], R) /\ rows[i] \in Int
  <2>1. \A i \in S : Numbers(M[i], R)
    BY DEF Numbers
  <2> QED BY <2>1, TotalStep
<1>2. ASSUME NEW t \in R, NEW s \in SUBSET S
      PROVE  IsFiniteSet(s) /\ Numbers([i \in S |-> M[i][t]], s)
  <2>1. IsFiniteSet(s)
    BY FS_Subset
  <2> QED BY <2>1 DEF Numbers
<1>3. ASSUME NEW s \in SUBSET S, \A x \in s : s \ {x} \notin Bad PROVE s \notin Bad
  <2>1. CASE s = {}
    <3> DEFINE z == [t \in R |-> col(s, t)]
    <3>1. \A t \in R : z[t] = 0
      BY <2>1, TotalNone, Zenon
    <3>2. Total(z, R) = 0
      <4>1. \A t \in R : z[t] = IF t \in {} THEN z[t] ELSE 0
        BY <3>1
      <4>2. Numbers(z, R) /\ Numbers(z, {}) /\ {} \in SUBSET R
        BY <3>1 DEF Numbers
      <4> HIDE DEF z
      <4>3. Total(z, R) = Total(z, {})
        BY <4>1, <4>2, TotalWithin
      <4> QED BY <4>3, TotalNone, Zenon
    <3>3. Total(rows, s) = 0
      BY <2>1, TotalNone, Zenon
    <3> QED BY <3>2, <3>3
  <2>2. CASE s # {}
    <3>1. PICK x \in s : TRUE
      BY <2>2
    <3> DEFINE h == [t \in R |-> col(s, t)]
               g == [t \in R |-> col(s \ {x}, t)]
    <3>2. ASSUME NEW t \in R
          PROVE  h[t] = M[x][t] + g[t] /\ g[t] \in Int
      <4> DEFINE v == [i \in S |-> M[i][t]]
      <4>1. h[t] = Total(v, s) /\ g[t] = Total(v, s \ {x}) /\ v[x] = M[x][t]
        OBVIOUS
      <4>2. IsFiniteSet(s) /\ Numbers(v, s) /\ IsFiniteSet(s \ {x}) /\ Numbers(v, s \ {x})
        <5>1. s \ {x} \in SUBSET S
          OBVIOUS
        <5> QED BY <1>2, <5>1
      <4> HIDE DEF v, h, g
      <4>3. Total(v, s) = v[x] + Total(v, s \ {x}) /\ Total(v, s \ {x}) \in Int
        BY <4>2, TotalStep, Zenon
      <4> QED BY <4>1, <4>3, Zenon
    <3>3. Numbers(M[x], R) /\ Numbers(g, R)
      BY <1>1, <3>2, Zenon DEF Numbers
    <3>4. Total(g, R) = Total(rows, s \ {x})
      BY <1>3, Zenon
    <3>5. s \ {x} \in SUBSET S
      OBVIOUS
    <3>6. Total(rows, s) = rows[x] + Total(rows, s \ {x})
      <4>1. IsFiniteSet(s) /\ Numbers(rows, s)
        <5>1. IsFiniteSet(s)
          BY FS_Subset
        <5> QED BY <1>1, <5>1 DEF Numbers
      <4> QED BY <4>1, TotalStep, Zenon
    <3> HIDE DEF h, g
    <3>7. Total(h, R) = Total(M[x], R) + Total(g, R)
      BY <3>2, <3>3, TotalAdds, ZenonT(30)
    <3>8. rows[x] = Total(M[x], R)
      OBVIOUS
    <3>9. Total(h, R) = Total(rows, s)
      BY <3>4, <3>6, <3>7, <3>8, Zenon
    <3> QED BY <3>9 DEF h
  <2> QED BY <2>1, <2>2
<1>4. Bad = {}
  <2>1. Bad \subseteq SUBSET S
    OBVIOUS
  <2> HIDE DEF Bad
  <2> QED BY <1>3, <2>1, OneByOne, Zenon
<1>5. Total([t \in R |-> col(S, t)], R) = Total(rows, S)
  BY <1>4
<1>6. Total(columns, R) = Total([t \in R |-> col(S, t)], R)
  <2> DEFINE h == [t \in R |-> col(S, t)]
  <2>1. \A t \in R : columns[t] = h[t] /\ h[t] \in Int
    <3>1. \A t \in R : col(S, t) \in Int
      <4> TAKE t \in R
      <4> DEFINE v == [i \in S |-> M[i][t]]
      <4>1. Numbers(v, S)
        BY <1>2
      <4> HIDE DEF v
      <4>2. Total(v, S) \in Int
        BY <4>1, TotalStep, Zenon
      <4> QED BY <4>2 DEF v
    <3> QED BY <3>1
  <2>2. /\ Numbers(columns, R) /\ Numbers(h, R) /\ R \in SUBSET R
        /\ \A t \in R : columns[t] = IF t \in R THEN h[t] ELSE 0
    BY <2>1, Zenon DEF Numbers
  <2> HIDE DEF h
  <2>3. Total(columns, R) = Total(h, R)
    BY <2>2, TotalWithin
  <2> QED BY <2>3 DEF h
<1> QED BY <1>5, <1>6, Zenon

-----------------------------------------------------------------------------
(* The trades of a position's fills.                                       *)

\* There is no more than a row from each source for each fill.
LEMMA RowsAreFinite ==
    ASSUME ExecutionInv
    PROVE  IsFiniteSet(DOMAIN raw)
<1>1. ASSUME NEW i \in DOMAIN raw PROVE i \in -200 .. 100
    <2>1. i \in Int /\ FillOf(i) \in Fills
        BY Zenon DEF ExecutionInv, RowsInv, OfItsFill
    <2>2. FillOf(i) \in Nat /\ FillOf(i) > 0 /\ FillOf(i) < JournalBase
        BY <2>1, FillFacts, SMT DEF ExecutionInv, JournalBase
    <2> QED BY <2>1, <2>2, SMT DEF FillOf, JournalBase
<1>2. IsFiniteSet(-200 .. 100)
    <2>1. -200 \in Int /\ 100 \in Int
        BY SMT
    <2> QED BY <2>1, FS_Interval, Zenon
<1> QED BY <1>1, <1>2, FS_Subset

\* The sums of the model: of what each fill is to a trade, of the fills, of the rows of the
\* page.
Contributions(t, S) == MapThenSumSet(LAMBDA i : Contribution(i, t), S)
SignedSum(S) == MapThenSumSet(LAMBDA i : Signed(i), S)
Quantities(R) == MapThenSumSet(LAMBDA r : r.qty, R)

LEMMA SumOfContributions ==
    ASSUME NEW t, NEW S, IsFiniteSet(S), \A i \in S : Contribution(i, t) \in Int
    PROVE  Contributions(t, S) = Total([i \in S |-> Contribution(i, t)], S)
<1> DEFINE F == [i \in S |-> Contribution(i, t)]
           Sums(T) == [s \in SUBSET S |-> IF s = {} THEN 0
                           ELSE Contribution(CHOOSE x \in s : TRUE, t) + T[s \ {CHOOSE x \in s : TRUE}]]
           C == CHOOSE T : T = Sums(T)
<1>1. Contributions(t, S) = C[S]
    BY DEF Contributions, MapThenSumSet, MapThenFoldSet
<1>2. PICK T : Table(T, F, S)
    BY TableExists, Zenon
<1>3. ASSUME NEW U PROVE Table(U, F, S) <=> U = Sums(U)
    <2>1. \A s \in SUBSET S : s # {} => F[OneOf(s)] = Contribution(CHOOSE x \in s : TRUE, t)
        BY OneOfIsIn DEF OneOf
    <2> HIDE DEF F
    <2> QED BY <2>1, ZenonT(30) DEF Table, OneOf
<1>4. C = Sums(C)
    <2>1. T = Sums(T)
        BY <1>2, <1>3, Zenon
    <2> HIDE DEF Sums
    <2> QED BY <2>1, Zenon
<1>5. Table(C, F, S)
    BY <1>3, <1>4, Zenon
<1>6. Numbers(F, S)
    BY DEF Numbers
<1> HIDE DEF F, C
<1>7. C[S] = Total(F, S)
    BY <1>5, <1>6, TableIsTotal
<1> QED BY <1>1, <1>7 DEF F

LEMMA SumOfSigned ==
    ASSUME NEW S, IsFiniteSet(S), \A i \in S : Signed(i) \in Int
    PROVE  SignedSum(S) = Total([i \in S |-> Signed(i)], S)
<1> DEFINE F == [i \in S |-> Signed(i)]
           Sums(T) == [s \in SUBSET S |-> IF s = {} THEN 0
                           ELSE Signed(CHOOSE x \in s : TRUE) + T[s \ {CHOOSE x \in s : TRUE}]]
           C == CHOOSE T : T = Sums(T)
<1>1. SignedSum(S) = C[S]
    BY DEF SignedSum, MapThenSumSet, MapThenFoldSet
<1>2. PICK T : Table(T, F, S)
    BY TableExists, Zenon
<1>3. ASSUME NEW U PROVE Table(U, F, S) <=> U = Sums(U)
    <2>1. \A s \in SUBSET S : s # {} => F[OneOf(s)] = Signed(CHOOSE x \in s : TRUE)
        BY OneOfIsIn DEF OneOf
    <2> HIDE DEF F
    <2> QED BY <2>1, ZenonT(30) DEF Table, OneOf
<1>4. C = Sums(C)
    <2>1. T = Sums(T)
        BY <1>2, <1>3, Zenon
    <2> HIDE DEF Sums
    <2> QED BY <2>1, Zenon
<1>5. Table(C, F, S)
    BY <1>3, <1>4, Zenon
<1>6. Numbers(F, S)
    BY DEF Numbers
<1> HIDE DEF F, C
<1>7. C[S] = Total(F, S)
    BY <1>5, <1>6, TableIsTotal
<1> QED BY <1>1, <1>7 DEF F

LEMMA SumOfQuantities ==
    ASSUME NEW S, IsFiniteSet(S), \A r \in S : r.qty \in Int
    PROVE  Quantities(S) = Total([r \in S |-> r.qty], S)
<1> DEFINE F == [r \in S |-> r.qty]
           Sums(T) == [s \in SUBSET S |-> IF s = {} THEN 0
                           ELSE (CHOOSE x \in s : TRUE).qty + T[s \ {CHOOSE x \in s : TRUE}]]
           C == CHOOSE T : T = Sums(T)
<1>1. Quantities(S) = C[S]
    BY DEF Quantities, MapThenSumSet, MapThenFoldSet
<1>2. PICK T : Table(T, F, S)
    BY TableExists, Zenon
<1>3. ASSUME NEW U PROVE Table(U, F, S) <=> U = Sums(U)
    <2>1. \A s \in SUBSET S : s # {} => F[OneOf(s)] = (CHOOSE x \in s : TRUE).qty
        BY OneOfIsIn DEF OneOf
    <2> HIDE DEF F
    <2> QED BY <2>1 DEF Table, OneOf
<1>4. C = Sums(C)
    <2>1. T = Sums(T)
        BY <1>2, <1>3, Zenon
    <2> HIDE DEF Sums
    <2> QED BY <2>1, Zenon
<1>5. Table(C, F, S)
    BY <1>3, <1>4, Zenon
<1>6. Numbers(F, S)
    BY DEF Numbers
<1> HIDE DEF F, C
<1>7. C[S] = Total(F, S)
    BY <1>5, <1>6, TableIsTotal
<1> QED BY <1>1, <1>7 DEF F

LEMMA SumOfSplits == \A f : SumFunction(f) = Total(f, DOMAIN f)
BY Zenon DEF SumFunction, SumFunctionOnSet, FoldFunctionOnSet, Total, MapThenSumSet

\* What a fill is to a trade is a number, and to the trades it names it is the fill.
LEMMA ContributionsAdd ==
    ASSUME ExecutionInv, NEW i \in DOMAIN raw, NEW A, IsFiniteSet(A), NamedBy(i) \subseteq A,
           IsSplit(i) => SumFunction(Splits(i)) = Signed(i)
    PROVE  /\ Signed(i) \in Int /\ \A t : Contribution(i, t) \in Int
           /\ Total([t \in A |-> Contribution(i, t)], A) = Signed(i)
<1>1. Signed(i) \in Int
    <2>1. raw[i] \in RawRows
        BY Zenon DEF ExecutionInv, RowsInv, OfItsFill
    <2>2. raw[i].qty \in Int /\ -raw[i].qty \in Int
        BY <2>1, SMT DEF RawRows
    <2> QED BY <2>2, Zenon DEF Signed
<1>2. AttOf(i) \in Attribution
    BY AttOfFacts DEF ExecutionInv
<1>3. PICK D \in SUBSET Trades : Splits(i) \in [D -> Parts]
    BY <1>2, Zenon DEF Attribution, Splits
<1>4. DOMAIN Splits(i) = D /\ \A t \in D : Splits(i)[t] \in Int
    BY <1>3, BookAssumption
<1>5. ASSUME NEW t PROVE Contribution(i, t) \in Int
    BY <1>1, <1>4, SMT DEF Contribution
<1> DEFINE F == [t \in A |-> Contribution(i, t)]
<1>6. Numbers(F, A)
    BY <1>5 DEF Numbers
<1>7. CASE IsSplit(i)
    <2>1. NamedBy(i) = D
        BY <1>4, <1>7, Zenon DEF NamedBy
    <2>2. Numbers(Splits(i), D) /\ D \in SUBSET A
        BY <1>4, <2>1 DEF Numbers
    <2>3. \A t \in A : F[t] = IF t \in D THEN Splits(i)[t] ELSE 0
        BY <1>4, <1>7 DEF Contribution
    <2> HIDE DEF F
    <2>4. Total(F, A) = Total(Splits(i), D)
        BY <1>6, <2>2, <2>3, TotalWithin
    <2>5. Total(Splits(i), D) = Signed(i)
        BY <1>4, <1>7, SumOfSplits
    <2> QED BY <1>1, <1>5, <2>4, <2>5 DEF F
<1>8. CASE ~IsSplit(i)
    <2> DEFINE w == AttOf(i).whole
               G == [t \in {w} |-> Signed(i)]
    <2>1. NamedBy(i) = {w}
        BY <1>8, Zenon DEF NamedBy
    <2>2. Numbers(G, {w}) /\ {w} \in SUBSET A
        BY <1>1, <2>1 DEF Numbers
    <2>3. \A t \in A : F[t] = IF t \in {w} THEN G[t] ELSE 0
        BY <1>8 DEF Contribution
    <2>4. Total(G, {w}) = G[w] + Total(G, {w} \ {w})
        <3>1. IsFiniteSet({w})
            BY FS_Singleton, Zenon
        <3>2. w \in {w}
            OBVIOUS
        <3> HIDE DEF G
        <3> QED BY <2>2, <3>1, <3>2, TotalStep, Zenon
    <2>5. {w} \ {w} = {} /\ G[w] = Signed(i)
        OBVIOUS
    <2> HIDE DEF F, G
    <2>6. Total(F, A) = Total(G, {w})
        BY <1>6, <2>2, <2>3, TotalWithin
    <2>7. Total(G, {w} \ {w}) = 0
        BY <2>5, TotalNone, Zenon
    <2>8. Total(G, {w}) = Signed(i)
        BY <1>1, <2>4, <2>5, <2>7
    <2> QED BY <1>1, <1>5, <2>6, <2>8 DEF F
<1> QED BY <1>7, <1>8

\* No two rows counted are of one fill.
LEMMA OneRowEach ==
    ASSUME ExecutionInv, NEW a, NEW c, NEW i \in Counted(a, c), NEW j \in Counted(a, c), FillOf(i) = FillOf(j)
    PROVE  i = j
<1>1. OfItsFill(i) /\ OfItsFill(j) /\ i \in DOMAIN raw /\ j \in DOMAIN raw
    BY DEF Counted, Final, FlexRows, TwsRows, JournalRows, ExecutionInv, RowsInv
<1>2. i \in Int /\ j \in Int /\ FillOf(i) \in Nat /\ FillOf(i) > 0
    <2>1. i \in Int /\ j \in Int /\ FillOf(i) \in Fills
        BY <1>1, Zenon DEF OfItsFill
    <2> QED BY <2>1, FillFacts, SMT DEF ExecutionInv
<1>3. CASE i \in TwsRows /\ j \in TwsRows
    BY <1>2, <1>3, SMT DEF TwsRows, FillOf, JournalBase
<1>4. CASE i \in Final /\ j \in Final
    <2>1. i \in FlexRows <=> j \in FlexRows
        <3>1. (i \in FlexRows \/ i \in JournalRows) /\ (j \in FlexRows \/ j \in JournalRows)
            BY <1>4 DEF Final
        <3>2. /\ i \in FlexRows => broker[FillOf(i)].via = "ib"
              /\ j \in FlexRows => broker[FillOf(i)].via = "ib"
              /\ i \in JournalRows => broker[FillOf(i)].via = "journal"
              /\ j \in JournalRows => broker[FillOf(i)].via = "journal"
            BY <1>1, Zenon DEF OfItsFill
        <3> QED BY <3>1, <3>2
    <2>2. CASE i \in FlexRows /\ j \in FlexRows
        BY <1>2, <2>2, SMT DEF FlexRows, FillOf
    <2>3. CASE i \in JournalRows /\ j \in JournalRows
        BY <1>2, <2>3, SMT DEF JournalRows, FillOf, JournalBase
    <2> QED BY <1>4, <2>1, <2>2, <2>3 DEF Final
<1>5. (i \in TwsRows /\ j \in TwsRows) \/ (i \in Final /\ j \in Final)
    <2> DEFINE on(S) == {k \in S : OnPosition(k, a, c)}
    <2>1. Counted(a, c) = on(Final) \/ Counted(a, c) = on(TwsRows)
        BY Zenon DEF Counted
    <2> QED BY <2>1
<1> QED BY <1>3, <1>4, <1>5

\* The rows of a position that has fills add up to them.
RowsOf(a, c, q) == AttributionRows([acct |-> a, con |-> c, qty |-> q])
LEMMA PageAdds ==
    ASSUME ExecutionInv, NEW a, NEW c, NEW q, q # 0, Counted(a, c) # {},
           \A i \in Counted(a, c) : IsSplit(i) => SumFunction(Splits(i)) = Signed(i)
    PROVE  /\ Quantities(RowsOf(a, c, q)) = SignedSum(Counted(a, c))
           /\ \A r \in RowsOf(a, c, q) :
                  ~r.mixed => /\ RowsOf(a, c, q) = {r}
                              /\ r.qty = SignedSum(Counted(a, c))
                              /\ r.fills = Cardinality(Counted(a, c))
<1> DEFINE S == Counted(a, c)
           A == UNION {NamedBy(i) : i \in S}
           M == [i \in S |-> [t \in A |-> Contribution(i, t)]]
           columns == [t \in A |-> OpenQty(a, c, t)]
           signed == [i \in S |-> Signed(i)]
           row(t) == [trade |-> t, qty |-> OpenQty(a, c, t),
                      fills |-> Cardinality({i \in S : t \in NamedBy(i)}),
                      mixed |-> Cardinality(A) > 1, unassigned |-> NoTrade \in A]
           b == [t \in A |-> row(t)]
           P == RowsOf(a, c, q)
           quantity == [r \in P |-> r.qty]
<1>1. S \subseteq DOMAIN raw /\ IsFiniteSet(S)
    <2>1. S \subseteq DOMAIN raw
        BY DEF Counted, Final, FlexRows, TwsRows, JournalRows
    <2> QED BY <2>1, RowsAreFinite, FS_Subset
<1>2. IsFiniteSet(A) /\ A \subseteq Trades \cup {NoTrade}
    <2>1. ASSUME NEW i \in S PROVE NamedBy(i) \subseteq Trades \cup {NoTrade}
        <3>1. AttOf(i) \in Attribution
            BY AttOfFacts DEF ExecutionInv
        <3>2. AttOf(i).whole \in Trades \cup {NoTrade} /\ DOMAIN Splits(i) \subseteq Trades
            BY <3>1 DEF Attribution, Splits
        <3> QED BY <3>2, Zenon DEF NamedBy
    <2>2. A \subseteq Trades \cup {NoTrade}
        BY <2>1
    <2>3. IsFiniteSet(Trades \cup {NoTrade})
        BY BookAssumption, FS_AddElement
    <2> QED BY <2>2, <2>3, FS_Subset
<1>3. ASSUME NEW i \in S
      PROVE  /\ Signed(i) \in Int /\ \A t : Contribution(i, t) \in Int
             /\ Total(M[i], A) = Signed(i)
    <2>1. NamedBy(i) \subseteq A /\ i \in DOMAIN raw
        BY <1>1
    <2>2. M[i] = [t \in A |-> Contribution(i, t)]
        OBVIOUS
    <2> HIDE DEF A, M
    <2> QED BY <1>2, <2>1, <2>2, ContributionsAdd
<1>4. P = {b[t] : t \in A}
    <2> DEFINE p == [acct |-> a, con |-> c, qty |-> q]
    <2>1. p.acct = a /\ p.con = c /\ p.qty = q /\ P = AttributionRows(p)
        BY DEF RowsOf
    <2> HIDE DEF p, P
    <2> QED BY <2>1, Zenon DEF AttributionRows
<1>5. ASSUME NEW t \in A
      PROVE  columns[t] = Total([i \in S |-> M[i][t]], S) /\ columns[t] \in Int
    <2> DEFINE F == [i \in S |-> Contribution(i, t)]
    <2>1. OpenQty(a, c, t) = Contributions(t, S)
        BY DEF OpenQty, Contributions
    <2>2. F = [i \in S |-> M[i][t]]
        OBVIOUS
    <2>3. Contributions(t, S) = Total(F, S)
        <3> HIDE DEF M, columns
        <3> QED BY <1>1, <1>3, SumOfContributions, Zenon
    <2>4. Numbers(F, S)
        BY <1>3, Zenon DEF Numbers
    <2>5. Total(F, S) \in Int
        <3> HIDE DEF F
        <3> QED BY <1>1, <2>4, TotalStep, Zenon
    <2>6. columns[t] = OpenQty(a, c, t)
        OBVIOUS
    <2> HIDE DEF F, M, columns, S, A
    <2> QED BY <2>1, <2>2, <2>3, <2>5, <2>6, Zenon
<1>6. Total(columns, A) = Total(signed, S)
    <2>1. Cells(M, S, A)
        BY <1>3, Zenon DEF Cells
    <2>2. ByRows(M, S, A, signed)
        BY <1>3 DEF ByRows
    <2>3. ByColumns(M, S, A, columns)
        BY <1>5, Zenon DEF ByColumns
    <2> HIDE DEF S, A, M, columns, signed
    <2> QED BY <1>1, <1>2, <2>1, <2>2, <2>3, TotalBothWays
<1>7. SignedSum(S) = Total(signed, S)
    BY <1>1, <1>3, SumOfSigned, Zenon
<1>8. Quantities(P) = Total(columns, A)
    <2>1. IsFiniteSet(P)
        <3>1. b \in Surjection(A, P)
            BY <1>4, Zenon DEF Surjection
        <3> QED BY <1>2, <3>1, FS_Surjection, Zenon
    <2>2. \A t \in A : b[t].trade = t /\ b[t].qty = columns[t]
        OBVIOUS
    <2>3. \A r \in P : r.qty \in Int
        <3>1. \A t \in A : b[t].qty \in Int
            BY <1>5, <2>2, Zenon
        <3> HIDE DEF P, b, A, columns
        <3> QED BY <1>4, <3>1
    <2>4. Quantities(P) = Total(quantity, P)
        <3> HIDE DEF P
        <3> QED BY <2>1, <2>3, SumOfQuantities DEF quantity
    <2>5. \A t \in A : quantity[b[t]] = columns[t]
        <3> HIDE DEF P, b, A, columns
        <3> QED BY <1>4, <2>2 DEF quantity
    <2>6. \A x, y \in A : b[x] = b[y] => x = y
        <3> HIDE DEF P, b, A, columns
        <3> QED BY <2>2, Zenon
    <2>7. Numbers(columns, A)
        BY <1>5, Zenon DEF Numbers
    <2> HIDE DEF P, b, A, columns, quantity
    <2>8. Total(quantity, P) = Total(columns, A)
        BY <1>2, <1>4, <2>5, <2>6, <2>7, TotalAlong
    <2> QED BY <2>4, <2>8
<1>9. ASSUME NEW r \in P, ~r.mixed
      PROVE  P = {r} /\ r.qty = SignedSum(S) /\ r.fills = Cardinality(S)
    <2>1. PICK t \in A : r = row(t)
        BY <1>4, <1>9, Zenon
    <2>2. r.qty = columns[t] /\ r.fills = Cardinality({i \in S : t \in NamedBy(i)}) /\ ~(Cardinality(A) > 1)
        <3>1. columns[t] = OpenQty(a, c, t)
            OBVIOUS
        <3> QED BY <1>9, <2>1, <3>1, Zenon
    <2>3. A = {t}
        <3> HIDE DEF A
        <3>1. Cardinality(A) \in Nat
            BY <1>2, FS_CardinalityType
        <3>2. Cardinality(A) # 0
            BY <1>2, FS_EmptySet
        <3>3. Cardinality(A) = 1
            BY <2>2, <3>1, <3>2
        <3>4. PICK x : A = {x}
            BY <1>2, <3>3, FS_Singleton
        <3> QED BY <3>4
    <2>4. {i \in S : t \in NamedBy(i)} = S
        <3>1. ASSUME NEW i \in S PROVE t \in NamedBy(i)
            <4>1. NamedBy(i) # {}
                BY DEF NamedBy, IsSplit
            <4>2. NamedBy(i) \subseteq {t}
                BY <2>3
            <4> QED BY <4>1, <4>2
        <3> QED BY <3>1
    <2>5. Total(columns, A) = columns[t]
        <3>1. Numbers(columns, A) /\ columns[t] \in Int
            BY <1>5, Zenon DEF Numbers
        <3>2. A \ {t} = {}
            BY <2>3
        <3> HIDE DEF columns, A
        <3>3. Total(columns, A) = columns[t] + Total(columns, A \ {t})
            BY <1>2, <3>1, TotalStep, Zenon
        <3>4. Total(columns, A) = columns[t] + Total(columns, {})
            BY <3>2, <3>3, Zenon
        <3>5. Total(columns, {}) = 0
            BY TotalNone, Zenon
        <3> QED BY <3>1, <3>4, <3>5
    <2>6. P = {r}
        <3>1. P = {b[x] : x \in {t}} /\ b[t] = row(t)
            BY <1>4, <2>3, Zenon
        <3> HIDE DEF P, b, A, row
        <3> QED BY <2>1, <3>1
    <2> HIDE DEF columns, A, signed, S, P
    <2> QED BY <1>6, <1>7, <2>2, <2>4, <2>5, <2>6, Zenon
<1> HIDE DEF S, P, A, columns, signed
<1>10. Quantities(P) = SignedSum(S)
    BY <1>6, <1>7, <1>8, Zenon
<1> QED BY <1>9, <1>10, Zenon DEF S, P

-----------------------------------------------------------------------------
(* The paged lists.                                                        *)

Keys == [day : Nat, time : Nat, id : Int]

\* The order of a list is a strict order in which any two rows have their places.
LEMMA PrecedesOrders ==
    /\ \A k \in Keys : ~Precedes(k, k)
    /\ \A k, l \in Keys : k = l \/ Precedes(k, l) \/ Precedes(l, k)
    /\ \A k, l, m \in Keys : Precedes(k, l) /\ Precedes(l, m) => Precedes(k, m)
<1>1. \A k, l \in Keys : k.day = l.day /\ k.time = l.time /\ k.id = l.id => k = l
    BY SMT DEF Keys
<1>2. \A k \in Keys : k.day \in Int /\ k.time \in Int /\ k.id \in Int
    BY SMT DEF Keys
<1> QED BY <1>1, <1>2, SMT DEF Precedes

\* After a cursor is what the list has after it.
LEMMA AfterIsBehind ==
    ASSUME NEW k \in Keys, NEW c \in Keys
    PROVE  /\ ExecutionsAfter(k, c) <=> Precedes(c, k)
           /\ k.day = 0 /\ c.day = 0 => (TransactionsAfter(k, c) <=> Precedes(c, k))
<1>1. /\ k.day \in Nat /\ k.time \in Nat /\ k.id \in Int
      /\ c.day \in Nat /\ c.time \in Nat /\ c.id \in Int
    BY DEF Keys
<1>2. ExecutionsAfter(k, c) <=> Precedes(c, k)
    BY <1>1, SMT DEF ExecutionsAfter, Less, Precedes
<1>3. k.day = 0 /\ c.day = 0 => (TransactionsAfter(k, c) <=> Precedes(c, k))
    BY <1>1, SMT DEF TransactionsAfter, Precedes
<1> QED BY <1>2, <1>3

\* Each row of a set has a place of its own, and each place its row.
LEMMA Places ==
    ASSUME NEW S \in SUBSET Keys, IsFiniteSet(S)
    PROVE  /\ Cardinality(S) \in Nat /\ \A k \in S : Place(S, k) \in 1 .. Cardinality(S)
           /\ \A k, l \in S : Precedes(k, l) <=> Place(S, k) < Place(S, l)
           /\ \A k, l \in S : Place(S, k) = Place(S, l) => k = l
           /\ \A j \in 1 .. Cardinality(S) : \E k \in S : Place(S, k) = j
<1> DEFINE before(k) == {l \in S : Precedes(l, k)}
           n == Cardinality(S)
<1>1. n \in Nat
    BY FS_CardinalityType
<1>2. ASSUME NEW k \in S
      PROVE  /\ IsFiniteSet(before(k)) /\ Cardinality(before(k)) \in Nat /\ k \notin before(k)
             /\ Place(S, k) = Cardinality(before(k)) + 1 /\ Place(S, k) \in Nat
    <2>1. before(k) \subseteq S
        OBVIOUS
    <2>2. IsFiniteSet(before(k)) /\ Cardinality(before(k)) \in Nat
        BY <2>1, FS_Subset, FS_CardinalityType
    <2>3. k \notin before(k)
        BY PrecedesOrders
    <2>4. Place(S, k) = Cardinality(before(k)) + 1
        BY Zenon DEF Place
    <2> HIDE DEF before
    <2> QED BY <2>2, <2>3, <2>4
<1>3. ASSUME NEW k \in S, NEW T \in SUBSET S, before(k) \cup {k} \subseteq T
      PROVE  Place(S, k) <= Cardinality(T)
    <2> HIDE DEF before
    <2>1. Cardinality(before(k) \cup {k}) = Cardinality(before(k)) + 1
        BY <1>2, FS_AddElement, Zenon
    <2>2. IsFiniteSet(T)
        BY FS_Subset
    <2>3. Cardinality(before(k) \cup {k}) <= Cardinality(T)
        BY <1>3, <2>2, FS_Subset
    <2> QED BY <1>2, <2>1, <2>3
<1>4. ASSUME NEW k \in S PROVE Place(S, k) \in 1 .. n
    <2>1. before(k) \cup {k} \subseteq S
        OBVIOUS
    <2>2. Place(S, k) <= n
        BY <1>3, <2>1
    <2> HIDE DEF before
    <2> QED BY <1>1, <1>2, <2>2
<1>5. ASSUME NEW k \in S, NEW l \in S, Precedes(k, l) PROVE Place(S, k) < Place(S, l)
    <2>1. before(k) \cup {k} \subseteq before(l) /\ before(l) \subseteq S
        BY <1>5, PrecedesOrders
    <2>2. Place(S, k) <= Cardinality(before(l))
        BY <1>3, <2>1
    <2> HIDE DEF before
    <2> QED BY <1>2, <2>2
<1> HIDE DEF before, n
<1>6. \A k, l \in S : Precedes(k, l) <=> Place(S, k) < Place(S, l)
    <2> SUFFICES ASSUME NEW k \in S, NEW l \in S, Place(S, k) < Place(S, l) PROVE Precedes(k, l)
        BY <1>5
    <2>1. k = l \/ Precedes(k, l) \/ Precedes(l, k)
        BY PrecedesOrders
    <2>2. k # l /\ ~(Place(S, l) < Place(S, k))
        BY <1>2
    <2> QED BY <1>5, <2>1, <2>2
<1>7. \A k, l \in S : Place(S, k) = Place(S, l) => k = l
    <2> SUFFICES ASSUME NEW k \in S, NEW l \in S, Place(S, k) = Place(S, l) PROVE k = l
        OBVIOUS
    <2>1. k = l \/ Precedes(k, l) \/ Precedes(l, k)
        BY PrecedesOrders
    <2>2. ~(Place(S, k) < Place(S, l)) /\ ~(Place(S, l) < Place(S, k))
        BY <1>2
    <2> QED BY <1>6, <2>1, <2>2
<1>8. ASSUME NEW j \in 1 .. n PROVE \E k \in S : Place(S, k) = j
    <2> DEFINE f == [k \in S |-> Place(S, k)]
    <2>1. f \in Injection(S, 1 .. n)
        BY <1>4, <1>7 DEF Injection, IsInjective
    <2>2. IsFiniteSet(1 .. n) /\ Cardinality(1 .. n) = n
        BY <1>1, FS_Interval
    <2>3. f \in Surjection(S, 1 .. n)
        <3> HIDE DEF f
        <3> QED BY <2>1, <2>2, FS_Injection DEF n
    <2> QED BY <2>3, Zenon DEF Surjection
<1> QED BY <1>1, <1>4, <1>6, <1>7, <1>8 DEF n

\* LIMIT n gives rows in the list's order, and what it leaves out comes after them; it
\* leaves out nothing when it gives fewer than n.
LEMMA NewestFacts ==
    ASSUME NEW S \in SUBSET Keys, IsFiniteSet(S), NEW n \in Nat
    PROVE  LET q == Newest(S, n) IN
           /\ q \in Seq(S) /\ Len(q) <= n
           /\ \A i, j \in 1 .. Len(q) : i < j => Precedes(q[i], q[j])
           /\ \A k \in S : \/ \E j \in 1 .. Len(q) : q[j] = k
                           \/ Len(q) = n /\ \A j \in 1 .. Len(q) : Precedes(q[j], k)
<1> DEFINE q == Newest(S, n)
           c == Cardinality(S)
           m == Min({n, c})
<1>1. c \in Nat
    BY FS_CardinalityType
<1>2. m \in Nat /\ m <= n /\ m <= c /\ (m = n \/ m = c)
    <2> HIDE DEF c
    <2>1. \E x \in {n, c} : \A y \in {n, c} : x <= y
        BY <1>1, SMT
    <2>2. m \in {n, c} /\ \A y \in {n, c} : m <= y
        BY <2>1, Zenon DEF Min
    <2> HIDE DEF m
    <2> QED BY <1>1, <2>2, SMT
<1>3. q = [j \in 1 .. m |-> CHOOSE k \in S : Place(S, k) = j]
    BY Zenon DEF Newest
<1> HIDE DEF q, m
<1>4. ASSUME NEW j \in 1 .. m PROVE q[j] \in S /\ Place(S, q[j]) = j
    <2>1. j \in 1 .. c
        BY <1>1, <1>2, SMT
    <2>2. \E k \in S : Place(S, k) = j
        BY <2>1, Places
    <2> QED BY <1>3, <2>2, Zenon
<1>5. q \in Seq(S) /\ Len(q) = m
    BY <1>2, <1>3, <1>4, SMT
<1>6. ASSUME NEW i \in 1 .. m, NEW j \in 1 .. m, i < j PROVE Precedes(q[i], q[j])
    BY <1>4, <1>6, Places
<1>7. ASSUME NEW k \in S
      PROVE  (\E j \in 1 .. m : q[j] = k) \/ (m = n /\ \A j \in 1 .. m : Precedes(q[j], k))
    <2>1. Place(S, k) \in 1 .. c
        BY Places
    <2>2. CASE Place(S, k) <= m
        <3>1. Place(S, k) \in 1 .. m
            BY <1>1, <1>2, <2>1, <2>2, SMT
        <3>2. q[Place(S, k)] = k
            BY <1>4, <3>1, Places
        <3> QED BY <3>1, <3>2
    <2>3. CASE ~(Place(S, k) <= m)
        <3>1. m = n
            BY <1>1, <1>2, <2>1, <2>3, SMT
        <3>2. ASSUME NEW j \in 1 .. m PROVE Precedes(q[j], k)
            <4>1. j < Place(S, k)
                BY <1>1, <1>2, <2>1, <2>3, SMT
            <4> QED BY <1>4, <4>1, Places
        <3> QED BY <3>1, <3>2
    <2> QED BY <2>2, <2>3
<1> QED BY <1>2, <1>5, <1>6, <1>7 DEF q

\* The cash lines and the reader. A walk that is on has read to its cursor, and what has
\* stood since it began is read or comes after that.
CashInv == IsFiniteSet(DOMAIN cash) /\ DOMAIN cash \subseteq Nat
Walks == [at : {"on", "done"}, next : Seq(Keys), got : Seq(Keys), stood : SUBSET Keys, failed : BOOLEAN]
InOrder(q) == \A m, n \in DOMAIN q : m < n => Precedes(q[m], q[n])
ReadTo(c, q, S) ==
    /\ \A m \in DOMAIN q : q[m] = c \/ Precedes(q[m], c)
    /\ \A k \in S : (\E m \in DOMAIN q : q[m] = k) \/ Precedes(c, k)
WalkInv ==
    walk.at # "idle" =>
        /\ limits.list \in {"executions", "transactions"} /\ walk \in Walks /\ InOrder(walk.got)
        /\ walk.at = "on" =>
               /\ walk.stood \subseteq KeysOf(limits.list)
               /\ \E c \in Keys : /\ walk.next = <<c>> /\ ReadTo(c, walk.got, walk.stood)
                                  /\ limits.list = "transactions" => c.day = 0
        /\ walk.at = "done" /\ ~walk.failed => \A k \in walk.stood : \E m \in DOMAIN walk.got : walk.got[m] = k
ReadInv == CashInv /\ WalkInv

\* What a list has keys of.
LEMMA KeysOfFacts ==
    ASSUME ExecutionInv, CashInv, NEW list
    PROVE  /\ KeysOf(list) \in SUBSET Keys /\ IsFiniteSet(KeysOf(list))
           /\ list # "executions" => \A k \in KeysOf(list) : k.day = 0
<1>1. CASE list = "executions"
    <2> DEFINE f == [i \in Canonical |-> ExecKey(i)]
               K == {ExecKey(i) : i \in Canonical}
    <2>1. Canonical \subseteq DOMAIN raw
        BY DEF Canonical, FlexRows, TwsRows, JournalRows
    <2>2. IsFiniteSet(Canonical)
        BY <2>1, RowsAreFinite, FS_Subset
    <2>3. f \in Surjection(Canonical, K)
        BY DEF Surjection
    <2>4. IsFiniteSet(K)
        <3> HIDE DEF f, K
        <3> QED BY <2>2, <2>3, FS_Surjection, Zenon
    <2>5. ASSUME NEW i \in Canonical PROVE ExecKey(i) \in Keys
        <3>1. i \in Int /\ raw[i] \in RawRows
            BY <2>1, Zenon DEF ExecutionInv, RowsInv, OfItsFill
        <3>2. raw[i].day \in Nat /\ raw[i].time \in Nat
            BY <3>1 DEF RawRows
        <3> QED BY <3>1, <3>2, Zenon DEF ExecKey, Keys
    <2>6. KeysOf(list) = K
        BY <1>1, Zenon DEF KeysOf
    <2> QED BY <1>1, <2>4, <2>5, <2>6
<1>2. CASE list # "executions"
    <2> DEFINE f == [i \in DOMAIN cash |-> CashKey(i)]
               K == {CashKey(i) : i \in DOMAIN cash}
    <2>1. f \in Surjection(DOMAIN cash, K)
        BY DEF Surjection
    <2>2. IsFiniteSet(K)
        <3> HIDE DEF f, K
        <3> QED BY <2>1, FS_Surjection, Zenon DEF CashInv
    <2>3. ASSUME NEW i \in DOMAIN cash PROVE CashKey(i) \in Keys /\ CashKey(i).day = 0
        <3>1. cash[i] \in Lines /\ i \in Int
            BY DEF ExecutionInv, RestInv, CashInv
        <3>2. cash[i].ts \in Nat
            BY <3>1, BookAssumption
        <3> QED BY <3>1, <3>2 DEF CashKey, Keys
    <2>4. KeysOf(list) = K
        BY <1>2, Zenon DEF KeysOf
    <2> QED BY <2>2, <2>3, <2>4
<1> QED BY <1>1, <1>2

\* The rows of a page: in order, all of them after the cursor, with a cursor that what is
\* left comes after, or with nothing left.
Behind(cursor, k) == cursor = <<>> \/ Precedes(cursor[1], k)
LEMMA PageFacts ==
    ASSUME ExecutionInv, CashInv, NEW list \in {"executions", "transactions"}, NEW cursor,
           cursor = <<>> \/ \E c \in Keys : cursor = <<c>> /\ (list = "transactions" => c.day = 0)
    PROVE  LET page == PageFrom(list, cursor)
               left == {k \in KeysOf(list) : Behind(cursor, k)}
           IN /\ page.items \in Seq(left) /\ InOrder(page.items)
              /\ page.next = <<>> => \A k \in left : \E m \in DOMAIN page.items : page.items[m] = k
              /\ page.next # <<>> => \E d \in left : page.next = <<d>> /\ ReadTo(d, page.items, left)
<1> DEFINE left == {k \in KeysOf(list) : Behind(cursor, k)}
           read == Newest(left, PageLimit + 1)
           p == IF Len(read) > PageLimit THEN PageLimit ELSE Len(read)
           page == PageFrom(list, cursor)
<1>1. KeysOf(list) \in SUBSET Keys /\ IsFiniteSet(KeysOf(list))
      /\ (list = "transactions" => \A k \in KeysOf(list) : k.day = 0)
    BY KeysOfFacts
<1>2. left = {k \in KeysOf(list) : cursor = <<>> \/ After(list, k, cursor[1])}
    <2>1. ASSUME NEW k \in KeysOf(list), cursor # <<>>
          PROVE  After(list, k, cursor[1]) <=> Precedes(cursor[1], k)
        <3>1. PICK c \in Keys : cursor = <<c>> /\ (list = "transactions" => c.day = 0)
            BY <2>1
        <3>2. cursor[1] = c /\ k \in Keys
            BY <1>1, <3>1
        <3> QED BY <1>1, <3>1, <3>2, AfterIsBehind DEF After
    <2> QED BY <2>1 DEF Behind
<1>3. page = [items |-> SubSeq(read, 1, p), next |-> IF Len(read) > PageLimit THEN <<read[PageLimit]>> ELSE <<>>]
    BY <1>2, Zenon DEF PageFrom
<1>4. left \in SUBSET Keys /\ IsFiniteSet(left) /\ PageLimit + 1 \in Nat /\ PageLimit \in Nat /\ PageLimit > 0
    <2>1. left \subseteq KeysOf(list)
        OBVIOUS
    <2>2. PageLimit + 1 \in Nat /\ PageLimit \in Nat /\ PageLimit > 0
        BY BookAssumption, SMT
    <2> HIDE DEF left
    <2> QED BY <1>1, <2>1, <2>2, FS_Subset
<1> HIDE DEF left, page
<1>5. /\ read \in Seq(left) /\ Len(read) <= PageLimit + 1
      /\ \A i, j \in 1 .. Len(read) : i < j => Precedes(read[i], read[j])
      /\ \A k \in left : \/ \E j \in 1 .. Len(read) : read[j] = k
                         \/ Len(read) = PageLimit + 1 /\ \A j \in 1 .. Len(read) : Precedes(read[j], k)
    BY <1>4, NewestFacts, Zenon
<1> HIDE DEF read
<1>6. p \in Nat /\ p <= Len(read) /\ Len(read) \in Nat
    BY <1>4, <1>5, SMT
<1> DEFINE items == SubSeq(read, 1, p)
<1>7. items \in Seq(left) /\ Len(items) = p /\ DOMAIN items = 1 .. p /\ \A m \in 1 .. p : items[m] = read[m]
    <2> HIDE DEF p
    <2>1. items = [m \in 1 .. p |-> read[m]]
        BY <1>5, <1>6, SMT
    <2> HIDE DEF items
    <2>2. \A m \in 1 .. p : read[m] \in left
        BY <1>5, <1>6
    <2> QED BY <1>6, <2>1, <2>2
<1>8. page.items = items /\ page.next = IF Len(read) > PageLimit THEN <<read[PageLimit]>> ELSE <<>>
    BY <1>3, Zenon
<1> HIDE DEF items
<1>9. InOrder(items)
    BY <1>5, <1>6, <1>7 DEF InOrder
<1>10. CASE Len(read) > PageLimit
    <2> DEFINE d == read[PageLimit]
    <2>1. p = PageLimit /\ PageLimit \in 1 .. Len(read) /\ Len(read) = PageLimit + 1 /\ d \in left
        BY <1>4, <1>5, <1>6, <1>10
    <2> HIDE DEF d, p
    <2>2. \A m \in DOMAIN items : items[m] = d \/ Precedes(items[m], d)
        BY <1>4, <1>5, <1>7, <2>1 DEF d
    <2>3. ASSUME NEW k \in left
          PROVE  (\E m \in DOMAIN items : items[m] = k) \/ Precedes(d, k)
        <3>1. CASE \E j \in 1 .. Len(read) : read[j] = k
            <4>1. PICK j \in 1 .. Len(read) : read[j] = k
                BY <3>1
            <4>2. j \in 1 .. p \/ PageLimit < j
                BY <1>4, <2>1
            <4> QED BY <1>5, <1>7, <2>1, <4>1, <4>2 DEF d
        <3>2. CASE \A j \in 1 .. Len(read) : Precedes(read[j], k)
            BY <2>1, <3>2 DEF d
        <3> QED BY <1>5, <3>1, <3>2
    <2>4. page.next = <<d>> /\ page.next # <<>>
        BY <1>8, <1>10 DEF d
    <2>5. ReadTo(d, items, left)
        BY <2>2, <2>3, Zenon DEF ReadTo
    <2> QED BY <1>7, <1>8, <1>9, <2>1, <2>4, <2>5, Zenon DEF left, page
<1>11. CASE ~(Len(read) > PageLimit)
    <2>1. p = Len(read) /\ Len(read) # PageLimit + 1
        BY <1>4, <1>6, <1>11
    <2>2. page.next = <<>>
        BY <1>8, <1>11
    <2>3. \A k \in left : \E m \in DOMAIN items : items[m] = k
        <3> HIDE DEF p
        <3> QED BY <1>5, <1>7, <2>1, Zenon
    <2> QED BY <1>7, <1>8, <1>9, <2>2, <2>3, Zenon DEF left, page
<1> QED BY <1>10, <1>11, Zenon

\* A list that no write touches has the keys it had.
LEMMA KeysStand ==
    ASSUME NEW list, IF list = "executions" THEN UNCHANGED raw ELSE UNCHANGED cash
    PROVE  KeysOf(list)' = KeysOf(list)
<1>1. CASE list = "executions"
    BY <1>1, Zenon DEF KeysOf, ExecKey, Canonical, FlexRows, TwsRows, JournalRows, InFlex
<1>2. CASE list # "executions"
    BY <1>2, Zenon DEF KeysOf, CashKey
<1> QED BY <1>1, <1>2

\* A write between two pages: what is taken away was not promised, and what is brought in
\* is not either.
LEMMA WalkStands ==
    ASSUME WalkInv, UNCHANGED cast,
           \/ walk' = Watched(KeysOf(limits.list)')
           \/ walk' = walk /\ KeysOf(limits.list)' = KeysOf(limits.list)
    PROVE  WalkInv'
<1> DEFINE K == KeysOf(limits.list)'
<1>1. limits' = limits
    BY Zenon DEF limits
<1>2. CASE walk.at # "on"
    <2>1. walk' = walk
        BY <1>2, Zenon DEF Watched
    <2> QED BY <1>1, <1>2, <2>1, Zenon DEF WalkInv
<1>3. CASE walk.at = "on"
    <2>1. /\ limits.list \in {"executions", "transactions"} /\ walk \in Walks /\ InOrder(walk.got)
          /\ walk.stood \subseteq KeysOf(limits.list)
        BY <1>3, Zenon DEF WalkInv
    <2>2. PICK c \in Keys : walk.next = <<c>> /\ ReadTo(c, walk.got, walk.stood)
                            /\ (limits.list = "transactions" => c.day = 0)
        BY <1>3, Zenon DEF WalkInv
    <2> HIDE DEF K
    <2>3. /\ walk' \in Walks /\ walk'.at = "on" /\ walk'.got = walk.got /\ walk'.next = walk.next
          /\ walk'.stood \subseteq walk.stood /\ walk'.stood \subseteq K
        <3>1. CASE walk' = Watched(K)
            <4>1. walk' = [walk EXCEPT !.stood = walk.stood \cap K]
                BY <1>3, <3>1, Zenon DEF Watched
            <4> QED BY <1>3, <2>1, <4>1 DEF Walks
        <3>2. CASE walk' = walk /\ K = KeysOf(limits.list)
            BY <1>3, <2>1, <3>2
        <3> QED BY <3>1, <3>2 DEF K
    <2>4. ReadTo(c, walk'.got, walk'.stood)
        BY <2>2, <2>3, Zenon DEF ReadTo
    <2>5. walk'.at # "done" /\ InOrder(walk'.got) /\ walk'.next = <<c>>
        BY <2>1, <2>2, <2>3
    <2> QED BY <1>1, <2>1, <2>2, <2>3, <2>4, <2>5, Zenon DEF WalkInv, K
<1> QED BY <1>2, <1>3

\* A page is read.
LEMMA PageWalks ==
    ASSUME ExecutionInv, ReadInv, NEW works \in BOOLEAN, ReadPage(works)
    PROVE  WalkInv'
<1> DEFINE list == limits.list
           began == IF walk.at = "on" THEN walk
                    ELSE [at |-> "on", next |-> <<>>, got |-> <<>>, stood |-> KeysOf(list), failed |-> FALSE]
           page == PageFrom(list, began.next)
           left == {k \in KeysOf(list) : Behind(began.next, k)}
<1>1. /\ walk.at # "done" /\ list # "none" /\ UNCHANGED <<raw, cash, cast>>
      /\ walk' = IF works
                 THEN [began EXCEPT !.at = IF page.next = <<>> THEN "done" ELSE "on",
                                    !.got = @ \o page.items, !.next = page.next]
                 ELSE [began EXCEPT !.at = "done", !.failed = TRUE]
    BY Zenon DEF ReadPage
<1>2. list \in {"executions", "transactions"}
    <2>1. Casts[cast] \in [shapes : SUBSET Shapes, fills : 0 .. JournalBase - 1,
               sources : SUBSET {"tws", "flex", "journal"},
               may : SUBSET {"insert", "attribute", "correct", "delete", "strict", "link"}, edits : Nat,
               list : {"none", "executions", "transactions"}, faults : Nat, lines : Nat]
        BY BookAssumption, Zenon DEF ExecutionInv, BrokerInv
    <2> QED BY <1>1, <2>1, Zenon DEF limits
<1>3. limits' = limits /\ KeysOf(list)' = KeysOf(list) /\ KeysOf(list) \in SUBSET Keys
    <2>1. limits' = limits
        BY <1>1, Zenon DEF limits
    <2>2. KeysOf(list)' = KeysOf(list)
        <3> DEFINE l == list
        <3>1. l' = l
            BY <2>1
        <3>2. KeysOf("executions")' = KeysOf("executions") /\ KeysOf("transactions")' = KeysOf("transactions")
            BY <1>1, KeysStand
        <3> HIDE DEF l
        <3>3. KeysOf(l)' = KeysOf(l)
            BY <1>2, <3>1, <3>2 DEF l
        <3> QED BY <3>3 DEF l
    <2> QED BY <2>1, <2>2, KeysOfFacts DEF ReadInv
<1>4. /\ began \in Walks /\ began.at = "on" /\ InOrder(began.got) /\ began.stood \subseteq KeysOf(list)
      /\ \/ began.next = <<>> /\ began.got = <<>>
         \/ \E c \in Keys : /\ began.next = <<c>> /\ ReadTo(c, began.got, began.stood)
                            /\ list = "transactions" => c.day = 0
    <2>1. CASE walk.at = "on"
        BY <2>1, Zenon DEF ReadInv, WalkInv
    <2>2. CASE walk.at # "on"
        <3> DEFINE new == [at |-> "on", next |-> <<>>, got |-> <<>>, stood |-> KeysOf(list), failed |-> FALSE]
        <3>1. began = new
            BY <2>2
        <3>2. <<>> \in Seq(Keys) /\ FALSE \in BOOLEAN
            BY Zenon, EmptySeq
        <3>3. new \in Walks
            BY <1>3, <3>2, Zenon DEF Walks
        <3>4. /\ new.at = "on" /\ new.got = <<>> /\ new.next = <<>> /\ new.stood \subseteq KeysOf(list)
            OBVIOUS
        <3>5. InOrder(<<>>)
            BY SMT DEF InOrder
        <3> HIDE DEF new, began
        <3> QED BY <3>1, <3>3, <3>4, <3>5
    <2> QED BY <2>1, <2>2
<1> HIDE DEF began
<1>5. /\ page.items \in Seq(left) /\ InOrder(page.items)
      /\ page.next = <<>> => \A k \in left : \E m \in DOMAIN page.items : page.items[m] = k
      /\ page.next # <<>> => \E d \in left : page.next = <<d>> /\ ReadTo(d, page.items, left)
    <2>1. began.next = <<>> \/ \E c \in Keys : began.next = <<c>> /\ (list = "transactions" => c.day = 0)
        BY <1>4, Zenon
    <2> QED BY <1>2, <2>1, PageFacts, Zenon DEF ReadInv
<1>6. left \in SUBSET Keys /\ (list = "transactions" => \A k \in left : k.day = 0)
    BY <1>2, <1>3, KeysOfFacts DEF ReadInv
<1> HIDE DEF page, left
<1> DEFINE got == began.got \o page.items
           old == DOMAIN began.got
           new == DOMAIN page.items
           len == Len(began.got)
<1>7. /\ got \in Seq(Keys) /\ len \in Nat /\ old \subseteq Nat /\ new \subseteq Nat
      /\ \A i \in old : i \in DOMAIN got /\ i <= len /\ got[i] = began.got[i] /\ got[i] \in Keys
      /\ \A i \in new : len + i \in DOMAIN got /\ got[len + i] = page.items[i] /\ page.items[i] \in left
      /\ \A i \in DOMAIN got : i \in Nat /\ (i \in old \/ (i > len /\ i - len \in new))
    <2>1. began.got \in Seq(Keys)
        BY <1>4 DEF Walks
    <2>2. page.items \in Seq(Keys)
        BY <1>5, <1>6
    <2> DEFINE n == Len(page.items)
    <2>3. /\ got \in Seq(Keys) /\ Len(got) = len + n
          /\ \A i \in 1 .. len + n : got[i] = IF i <= len THEN began.got[i] ELSE page.items[i - len]
        BY <2>1, <2>2, ConcatProperties, Zenon
    <2>4. len \in Nat /\ n \in Nat /\ old = 1 .. len /\ new = 1 .. n /\ DOMAIN got = 1 .. Len(got)
        BY <2>1, <2>2, <2>3, LenProperties
    <2>5. /\ \A i \in old : began.got[i] \in Keys
          /\ \A i \in new : page.items[i] \in left
        BY <1>5, <2>1, <2>4
    <2> HIDE DEF got, old, new, len, n
    <2>6. \A i \in old : i \in DOMAIN got /\ i <= len /\ got[i] = began.got[i]
        BY <2>3, <2>4, SMT
    <2>7. ASSUME NEW i \in new
          PROVE  len + i \in DOMAIN got /\ got[len + i] = page.items[i]
        <3>1. len + i \in 1 .. len + n /\ ~(len + i <= len) /\ (len + i) - len = i
            BY <2>4, SMT
        <3> QED BY <2>3, <2>4, <3>1, Zenon
    <2>8. \A i \in DOMAIN got : i \in Nat /\ (i \in old \/ (i > len /\ i - len \in new))
        BY <2>3, <2>4, SMT
    <2>9. old \subseteq Nat /\ new \subseteq Nat
        BY <2>4, SMT
    <2> QED BY <2>3, <2>4, <2>5, <2>6, <2>7, <2>8, <2>9, Zenon
<1> HIDE DEF got, old, new, len
<1>8. /\ \A i \in old, j \in new : Precedes(began.got[i], page.items[j])
      /\ \A k \in began.stood : (\E m \in old : began.got[m] = k) \/ k \in left
    <2>1. CASE began.next = <<>> /\ began.got = <<>>
        <3>1. \A k \in KeysOf(list) : k \in left
            BY <2>1, Zenon DEF left, Behind
        <3>2. old = {}
            BY <2>1 DEF old
        <3> QED BY <1>4, <3>1, <3>2
    <2>2. ASSUME NEW c \in Keys, began.next = <<c>>, ReadTo(c, began.got, began.stood)
          PROVE  /\ \A i \in old, j \in new : Precedes(began.got[i], page.items[j])
                 /\ \A k \in began.stood : (\E m \in old : began.got[m] = k) \/ k \in left
        <3>1. began.next # <<>> /\ began.next[1] = c
            BY <2>2
        <3>2. \A k \in KeysOf(list) : k \in left <=> Precedes(c, k)
            BY <3>1 DEF left, Behind
        <3>3. \A k \in left : Precedes(c, k) /\ k \in Keys
            BY <3>2, <1>6 DEF left
        <3>4. \A i \in old : began.got[i] = c \/ Precedes(began.got[i], c)
            BY <2>2, Zenon DEF ReadTo, old
        <3>5. ASSUME NEW i \in old, NEW j \in new
              PROVE  Precedes(began.got[i], page.items[j])
            <4>1. began.got[i] \in Keys /\ page.items[j] \in left
                BY <1>7
            <4> QED BY <3>3, <3>4, <4>1, PrecedesOrders, Zenon
        <3>6. \A k \in began.stood : (\E m \in old : began.got[m] = k) \/ k \in left
            BY <1>4, <2>2, <3>2 DEF ReadTo, old
        <3> QED BY <3>5, <3>6
    <2> QED BY <1>4, <2>1, <2>2
<1>9. InOrder(got)
    <2> SUFFICES ASSUME NEW m \in DOMAIN got, NEW n \in DOMAIN got, m < n PROVE Precedes(got[m], got[n])
        BY Zenon DEF InOrder
    <2>1. CASE n \in old
        <3>1. m \in old
            BY <1>7, <2>1
        <3> QED BY <1>4, <1>7, <2>1, <3>1 DEF InOrder, old
    <2>2. CASE m \notin old
        <3> DEFINE i == m - len
                   j == n - len
        <3>1. i \in new /\ j \in new /\ i < j
              /\ m = len + i /\ n = len + j
            BY <1>7, <2>2
        <3>2. got[m] = page.items[i] /\ got[n] = page.items[j]
            BY <1>7, <3>1
        <3> HIDE DEF i, j
        <3> QED BY <1>5, <3>1, <3>2 DEF InOrder, new
    <2>3. CASE m \in old /\ n \notin old
        <3> DEFINE j == n - len
        <3>1. j \in new /\ n = len + j
            BY <1>7, <2>3
        <3>2. got[m] = began.got[m] /\ got[n] = page.items[j]
            BY <1>7, <2>3, <3>1
        <3> HIDE DEF j
        <3> QED BY <1>8, <2>3, <3>1, <3>2
    <2> QED BY <2>1, <2>2, <2>3
<1>10. /\ \A m \in old : \E n \in DOMAIN got : got[n] = began.got[m]
       /\ \A m \in new : \E n \in DOMAIN got : got[n] = page.items[m]
    <2>1. ASSUME NEW m \in old PROVE \E n \in DOMAIN got : got[n] = began.got[m]
        <3>1. m \in DOMAIN got /\ got[m] = began.got[m]
            BY <1>7
        <3> QED BY <3>1
    <2>2. ASSUME NEW m \in new PROVE \E n \in DOMAIN got : got[n] = page.items[m]
        <3>1. len + m \in DOMAIN got /\ got[len + m] = page.items[m]
            BY <1>7
        <3> QED BY <3>1
    <2> QED BY <2>1, <2>2
<1>11. CASE ~works
    <2>1. walk' = [began EXCEPT !.at = "done", !.failed = TRUE]
        BY <1>1, <1>11
    <2>2. walk' \in Walks /\ walk'.at = "done" /\ walk'.failed = TRUE /\ walk'.got = began.got
        BY <1>4, <2>1, Zenon DEF Walks
    <2>3. walk'.at # "idle" /\ walk'.at # "on" /\ walk'.failed
        BY <2>2
    <2> QED BY <1>2, <1>3, <1>4, <2>2, <2>3, Zenon DEF WalkInv
<1>12. CASE works /\ page.next = <<>>
    <2>1. walk' = [began EXCEPT !.at = "done", !.got = got, !.next = page.next]
        BY <1>1, <1>12 DEF got
    <2>2. page.next \in Seq(Keys)
        BY <1>12
    <2>3. walk' \in Walks /\ walk'.at = "done" /\ walk'.got = got /\ walk'.stood = began.stood
        BY <1>4, <1>7, <2>1, <2>2, Zenon DEF Walks
    <2>4. \A k \in began.stood : \E m \in DOMAIN got : got[m] = k
        BY <1>5, <1>8, <1>10, <1>12, ZenonT(30) DEF new
    <2>5. walk'.at # "idle" /\ walk'.at # "on"
        BY <2>3
    <2> QED BY <1>2, <1>3, <1>9, <2>3, <2>4, <2>5, Zenon DEF WalkInv
<1>13. CASE works /\ page.next # <<>>
    <2>1. PICK d \in left : page.next = <<d>> /\ ReadTo(d, page.items, left)
        BY <1>5, <1>13
    <2>2. walk' = [began EXCEPT !.at = "on", !.got = got, !.next = page.next]
        BY <1>1, <1>13 DEF got
    <2>3. page.next \in Seq(Keys) /\ d \in Keys
        BY <1>6, <2>1
    <2>4. walk' \in Walks /\ walk'.at = "on" /\ walk'.got = got /\ walk'.stood = began.stood /\ walk'.next = <<d>>
        BY <1>4, <1>7, <2>1, <2>2, <2>3, Zenon DEF Walks
    <2>5. ASSUME NEW n \in DOMAIN got PROVE got[n] = d \/ Precedes(got[n], d)
        <3>1. CASE n \in old
            <4>1. \A j \in new : Precedes(got[n], page.items[j]) /\ page.items[j] \in Keys
                BY <1>6, <1>7, <1>8, <3>1
            <4>2. \A j \in new : page.items[j] = d \/ Precedes(page.items[j], d)
                BY <2>1, Zenon DEF ReadTo, old, new
            <4>3. \E j \in new : TRUE
                <5>1. (\E j \in new : page.items[j] = d) \/ Precedes(d, d)
                    BY <2>1, Zenon DEF ReadTo, old, new
                <5> QED BY <2>3, <5>1, PrecedesOrders
            <4>4. got[n] \in Keys
                BY <1>7, <3>1
            <4> QED BY <2>3, <4>1, <4>2, <4>3, <4>4, PrecedesOrders, Zenon
        <3>2. CASE n \notin old
            <4> DEFINE j == n - len
            <4>1. j \in new /\ n = len + j
                BY <1>7, <3>2
            <4>2. got[n] = page.items[j]
                BY <1>7, <4>1
            <4> HIDE DEF j
            <4> QED BY <2>1, <4>1, <4>2, Zenon DEF ReadTo, old, new
        <3> QED BY <3>1, <3>2
    <2>6. ASSUME NEW k \in began.stood PROVE (\E m \in DOMAIN got : got[m] = k) \/ Precedes(d, k)
        BY <1>8, <1>10, <2>1, Zenon DEF ReadTo, old, new
    <2>7. ReadTo(d, got, began.stood)
        BY <2>5, <2>6, Zenon DEF ReadTo, old, new
    <2>8. list = "transactions" => d.day = 0
        BY <1>6
    <2>9. walk'.at # "done"
        BY <2>4
    <2> QED BY <1>2, <1>3, <1>4, <1>9, <2>3, <2>4, <2>7, <2>8, <2>9, Zenon DEF WalkInv
<1> QED BY <1>11, <1>12, <1>13

\* The keys a list has after a step are those of the list that the caller reads.
LEMMA ListStands ==
    ASSUME UNCHANGED cast, NEW list, limits.list = list
    PROVE  KeysOf(limits.list)' = KeysOf(list)'
<1> DEFINE l == limits.list
<1>1. l' = l
    BY Zenon DEF limits
<1>2. l' = list /\ l = list
    BY <1>1
<1> HIDE DEF l
<1>3. KeysOf(l)' = KeysOf(list)'
    BY <1>2
<1> QED BY <1>3 DEF l

\* No row and no line is written.
LEMMA NoWriteWalks ==
    ASSUME ReadInv, UNCHANGED <<raw, cash, walk, cast>>
    PROVE  ReadInv'
<1>1. KeysOf(limits.list)' = KeysOf(limits.list)
    <2> DEFINE l == limits.list
    <2>1. KeysOf(l)' = KeysOf(limits.list)'
        OBVIOUS
    <2> PICK m : m = limits.list
        OBVIOUS
    <2>2. KeysOf(limits.list)' = KeysOf(m)' /\ KeysOf(m)' = KeysOf(m)
        BY ListStands, KeysStand
    <2> QED BY <2>2
<1> QED BY <1>1, WalkStands, Zenon DEF ReadInv, CashInv

\* Rows are written, or one is deleted.
LEMMA RowsWalk ==
    ASSUME ReadInv, UNCHANGED <<cash, cast>>,
           walk' = IF limits.list = "executions" THEN Watched(KeysOf("executions")') ELSE walk
    PROVE  ReadInv'
<1>1. CASE limits.list = "executions"
    <2>1. KeysOf(limits.list)' = KeysOf("executions")'
        BY <1>1, ListStands
    <2>2. walk' = Watched(KeysOf(limits.list)')
        BY <1>1, <2>1
    <2> QED BY <2>2, WalkStands, Zenon DEF ReadInv, CashInv
<1>2. CASE limits.list # "executions"
    <2> PICK m : m = limits.list
        OBVIOUS
    <2>1. KeysOf(limits.list)' = KeysOf(m)' /\ KeysOf(m)' = KeysOf(m)
        BY <1>2, ListStands, KeysStand
    <2>2. walk' = walk /\ KeysOf(limits.list)' = KeysOf(limits.list)
        BY <1>2, <2>1
    <2> QED BY <2>2, WalkStands, Zenon DEF ReadInv, CashInv
<1> QED BY <1>1, <1>2

\* A line is written.
LEMMA CashWalks ==
    ASSUME ExecutionInv, ReadInv, NEW l \in Lines, ImportCash(l)
    PROVE  ReadInv'
<1>1. /\ UNCHANGED <<raw, cast>>
      /\ walk' = IF limits.list = "transactions" THEN Watched(KeysOf("transactions")') ELSE walk
    BY Zenon DEF ImportCash, others
<1>2. CashInv'
    <2> DEFINE known == {i \in DOMAIN cash : IF l.tx # 0 THEN cash[i].tx = l.tx
                                             ELSE cash[i].ts = l.ts /\ cash[i].amount = l.amount}
               id == IF known # {} THEN CHOOSE i \in known : TRUE ELSE Cardinality(DOMAIN cash) + 1
               row == IF l.tx = 0 /\ known # {} THEN cash[id] ELSE l
    <2>1. cash' = [i \in DOMAIN cash \cup {id} |-> IF i = id THEN row ELSE cash[i]]
        BY Zenon DEF ImportCash
    <2>2. IsFiniteSet(DOMAIN cash) /\ DOMAIN cash \subseteq Nat /\ Cardinality(DOMAIN cash) \in Nat
        BY FS_CardinalityType DEF ReadInv, CashInv
    <2>3. id \in Nat
        <3>1. known # {} => id \in DOMAIN cash
            OBVIOUS
        <3>2. known = {} => id = Cardinality(DOMAIN cash) + 1
            OBVIOUS
        <3> HIDE DEF known, id
        <3> QED BY <2>2, <3>1, <3>2
    <2> HIDE DEF known, id, row
    <2>4. DOMAIN cash' = DOMAIN cash \cup {id}
        BY <2>1
    <2>5. IsFiniteSet(DOMAIN cash \cup {id})
        BY <2>2, FS_AddElement
    <2> QED BY <2>2, <2>3, <2>4, <2>5 DEF CashInv
<1>3. WalkInv'
    <2>1. CASE limits.list = "transactions"
        <3>1. KeysOf(limits.list)' = KeysOf("transactions")'
            BY <1>1, <2>1, ListStands
        <3>2. walk' = Watched(KeysOf(limits.list)')
            BY <1>1, <2>1, <3>1
        <3> QED BY <1>1, <3>2, WalkStands, Zenon DEF ReadInv
    <2>2. CASE limits.list = "executions"
        <3>1. KeysOf(limits.list)' = KeysOf("executions")' /\ KeysOf("executions")' = KeysOf("executions")
            BY <1>1, <2>2, ListStands, KeysStand
        <3>2. walk' = walk /\ KeysOf(limits.list)' = KeysOf(limits.list)
            BY <1>1, <2>2, <3>1
        <3> QED BY <1>1, <3>2, WalkStands, Zenon DEF ReadInv
    <2>3. CASE limits.list \notin {"executions", "transactions"}
        BY <1>1, <2>3, Zenon DEF ReadInv, WalkInv
    <2> QED BY <2>1, <2>2, <2>3
<1> QED BY <1>2, <1>3 DEF ReadInv

LEMMA ReadInvStep == ExecutionInv /\ ReadInv /\ [SharedNext]_bookVars => ReadInv'
<1> SUFFICES ASSUME ExecutionInv, ReadInv, [SharedNext]_bookVars PROVE ReadInv'
    OBVIOUS
<1>1. ASSUME NEW s \in limits.shapes, Execute(s) PROVE ReadInv'
    BY <1>1, NoWriteWalks, Zenon DEF Execute, others
<1>2. ASSUME NEW f \in Fills, ImportTws(f) PROVE ReadInv'
    BY <1>2, RowsWalk, Zenon DEF ImportTws, Written, others
<1>3. ASSUME NEW f \in Fills, ImportJournal(f) PROVE ReadInv'
    BY <1>3, RowsWalk, Zenon DEF ImportJournal, Written, others
<1>4. ASSUME NEW f \in Fills, NEW t \in Trades \cup {NoTrade}, InsertByHand(f, t) PROVE ReadInv'
    BY <1>4, RowsWalk, Zenon DEF InsertByHand, Written, others
<1>5. ASSUME NEW a \in Accounts, NEW d, ImportFlex(a, d) PROVE ReadInv'
    BY <1>5, RowsWalk, Zenon DEF ImportFlex, Written, others
<1>6. ASSUME NEW i \in DOMAIN raw, NEW t \in Trades \cup {NoTrade}, AttributeWhole(i, t) PROVE ReadInv'
    BY <1>6, NoWriteWalks, Zenon DEF AttributeWhole, others
<1>7. ASSUME NEW i \in DOMAIN raw, NEW splits, SplitFill(i, splits) PROVE ReadInv'
    BY <1>7, NoWriteWalks, Zenon DEF SplitFill, others
<1>8. ASSUME NEW i \in DOMAIN raw, NEW q, CorrectQuantity(i, q) PROVE ReadInv'
    BY <1>8, RowsWalk, Zenon DEF CorrectQuantity, Written, others
<1>9. ASSUME NEW i \in DOMAIN raw, DeleteRow(i) PROVE ReadInv'
    BY <1>9, RowsWalk, Zenon DEF DeleteRow, RowDeleted, others
<1>10. ASSUME NEW l \in Lines, ImportCash(l) PROVE ReadInv'
    BY <1>10, CashWalks
<1>11. ASSUME NEW works \in BOOLEAN, ReadPage(works) PROVE ReadInv'
    <2>1. WalkInv'
        BY <1>11, PageWalks
    <2>2. cash' = cash
        BY <1>11, Zenon DEF ReadPage
    <2> QED BY <2>1, <2>2, Zenon DEF ReadInv, CashInv
<1>12. CASE UNCHANGED bookVars
    BY <1>12, NoWriteWalks, Zenon DEF bookVars
<1>13. CASE \E i \in IF edits < limits.edits THEN DOMAIN raw ELSE {} :
                \/ \E t \in Trades \cup {NoTrade} : AttributeWhole(i, t)
                \/ \E T \in SUBSET Trades : \E splits \in [T -> Parts] : SplitFill(i, splits)
                \/ \E q \in Parts \cap Nat : CorrectQuantity(i, q)
                \/ DeleteRow(i)
    <2>1. PICK i \in DOMAIN raw :
                \/ \E t \in Trades \cup {NoTrade} : AttributeWhole(i, t)
                \/ \E T \in SUBSET Trades : \E splits \in [T -> Parts] : SplitFill(i, splits)
                \/ \E q \in Parts \cap Nat : CorrectQuantity(i, q)
                \/ DeleteRow(i)
        BY <1>13, Zenon
    <2> QED BY <2>1, <1>6, <1>7, <1>8, <1>9, Zenon
<1>14. ASSUME NEW i \in DOMAIN raw, StrictDelete(i) PROVE ReadInv'
    BY <1>14, RowsWalk, Zenon DEF StrictDelete, RowDeleted, others
<1>15. CASE LinkEdit
    BY <1>15, NoWriteWalks, Zenon DEF LinkEdit, others
<1> QED BY <1>1, <1>2, <1>3, <1>4, <1>5, <1>10, <1>11, <1>12, <1>13, <1>14, <1>15,
          Zenon DEF SharedNext, Next

LEMMA ReadInvInit == Init => ReadInv
<1> SUFFICES ASSUME Init PROVE ReadInv
    OBVIOUS
<1>1. DOMAIN cash = {} /\ walk.at = "idle"
    BY DEF Init, IdleWalk
<1>2. CashInv
    BY <1>1, FS_EmptySet DEF CashInv
<1> QED BY <1>1, <1>2 DEF ReadInv, WalkInv

LEMMA ReadInvariant == SharedSpec => []ReadInv
BY ExecutionInvariant, ReadInvInit, ReadInvStep, PTL DEF SharedSpec

\* A reader that pages to the end has every row that stood, in order and none twice, for any
\* page size and any writes between its pages (keyset.py).
THEOREM ExecutionPages == SharedSpec => []PagesAreTheBook
<1>1. ReadInv => PagesAreTheBook
    <2> SUFFICES ASSUME ReadInv, walk.at = "done"
                 PROVE  /\ \A m, n \in DOMAIN walk.got : m < n => Precedes(walk.got[m], walk.got[n])
                        /\ ~walk.failed => walk.stood \subseteq Range(walk.got)
        BY Zenon DEF PagesAreTheBook
    <2>1. InOrder(walk.got) /\ (~walk.failed => \A k \in walk.stood : \E m \in DOMAIN walk.got : walk.got[m] = k)
        BY DEF ReadInv, WalkInv
    <2> QED BY <2>1, Zenon DEF InOrder, Range
<1> QED BY <1>1, ReadInvariant, PTL

-----------------------------------------------------------------------------
(* Sums.                                                                   *)

\* Only the values on the set count.
LEMMA TotalSame ==
    ASSUME NEW S, IsFiniteSet(S), NEW f, NEW g, Numbers(f, S), \A x \in S : g[x] = f[x]
    PROVE  Total(g, S) = Total(f, S) /\ Total(g, S) \in Int
<1>1. Numbers(g, S)
  BY DEF Numbers
<1>2. \A x \in S : g[x] = IF x \in S THEN f[x] ELSE 0
  OBVIOUS
<1>3. S \in SUBSET S
  OBVIOUS
<1>4. Total(g, S) = Total(f, S)
  BY <1>1, <1>2, <1>3, TotalWithin
<1> QED BY <1>1, <1>4, TotalStep, Zenon

\* The sums of the model.
LEMMA SumIs ==
    ASSUME NEW S, NEW f, S = DOMAIN f
    PROVE  SumFunction(f) = Total(f, S)
BY SumOfSplits, Zenon

\* What is not counted is not missed, and what is counted twice is not there.
LEMMA TotalSplits ==
    ASSUME NEW S, IsFiniteSet(S), NEW f, Numbers(f, S), NEW A, NEW B, A \cup B = S, A \cap B = {}
    PROVE  Total(f, S) = Total(f, A) + Total(f, B) /\ Total(f, A) \in Int /\ Total(f, B) \in Int
<1> DEFINE g == [x \in S |-> IF x \in A THEN f[x] ELSE 0]
           h == [x \in S |-> IF x \in B THEN f[x] ELSE 0]
<1>1. Numbers(g, S) /\ Numbers(h, S) /\ \A x \in S : f[x] = g[x] + h[x]
  BY DEF Numbers
<1>2. A \in SUBSET S /\ B \in SUBSET S /\ Numbers(f, A) /\ Numbers(f, B)
  BY DEF Numbers
<1>3. /\ \A x \in S : g[x] = IF x \in A THEN f[x] ELSE 0
      /\ \A x \in S : h[x] = IF x \in B THEN f[x] ELSE 0
  OBVIOUS
<1> HIDE DEF g, h
<1>4. Total(f, S) = Total(g, S) + Total(h, S)
  BY <1>1, TotalAdds
<1>5. Total(g, S) = Total(f, A) /\ Total(h, S) = Total(f, B)
  BY <1>1, <1>2, <1>3, TotalWithin
<1>6. IsFiniteSet(A) /\ IsFiniteSet(B)
  BY <1>2, FS_Subset
<1> QED BY <1>2, <1>4, <1>5, <1>6, TotalStep, Zenon

\* A sum of natural numbers is one, and is zero only if they all are.
LEMMA TotalNat ==
    ASSUME NEW S, IsFiniteSet(S), NEW f, \A x \in S : f[x] \in Nat
    PROVE  /\ Total(f, S) \in Nat
           /\ \A x \in S : f[x] <= Total(f, S)
           /\ \A R \in SUBSET S : Total(f, R) <= Total(f, S)
<1> DEFINE Bad == {s \in SUBSET S : ~(Total(f, s) >= 0)}
<1>1. ASSUME NEW s \in SUBSET S PROVE IsFiniteSet(s) /\ Numbers(f, s) /\ Total(f, s) \in Int
  <2>1. IsFiniteSet(s) /\ Numbers(f, s)
    BY FS_Subset DEF Numbers
  <2> QED BY <2>1, TotalStep, Zenon
<1>2. ASSUME NEW s \in SUBSET S, \A x \in s : s \ {x} \notin Bad PROVE s \notin Bad
  <2>1. CASE s = {}
    BY <2>1, TotalNone
  <2>2. CASE s # {}
    <3>1. PICK x \in s : TRUE
      BY <2>2
    <3>2. Total(f, s) = f[x] + Total(f, s \ {x})
      BY <1>1, TotalStep, Zenon
    <3>3. Total(f, s \ {x}) >= 0 /\ f[x] \in Nat
      BY <1>2
    <3>4. s \ {x} \in SUBSET S
      OBVIOUS
    <3>5. Total(f, s \ {x}) \in Int
      BY <1>1, <3>4, Zenon
    <3>6. Total(f, s) >= 0
      BY <3>2, <3>3, <3>5, SMT
    <3> QED BY <3>6
  <2> QED BY <2>1, <2>2
<1>3. Bad = {}
  <2>1. Bad \subseteq SUBSET S
    OBVIOUS
  <2> HIDE DEF Bad
  <2> QED BY <1>2, <2>1, OneByOne, Zenon
<1>4. \A s \in SUBSET S : Total(f, s) \in Int /\ Total(f, s) >= 0
  BY <1>1, <1>3
<1>5. S \in SUBSET S /\ Numbers(f, S)
  BY DEF Numbers
<1>6. ASSUME NEW x \in S PROVE f[x] <= Total(f, S)
  <2>1. Total(f, S) = f[x] + Total(f, S \ {x})
    BY <1>5, TotalStep, Zenon
  <2>2. S \ {x} \in SUBSET S
    OBVIOUS
  <2>3. Total(f, S \ {x}) \in Int /\ Total(f, S \ {x}) >= 0 /\ f[x] \in Nat
    BY <1>4, <2>2
  <2> QED BY <2>1, <2>3, SMT
<1>7. ASSUME NEW R \in SUBSET S PROVE Total(f, R) <= Total(f, S)
  <2>1. R \cup (S \ R) = S /\ R \cap (S \ R) = {} /\ S \ R \in SUBSET S
    OBVIOUS
  <2>2. Total(f, S) = Total(f, R) + Total(f, S \ R)
    BY <1>5, <2>1, TotalSplits
  <2>3. Total(f, R) \in Int /\ Total(f, S \ R) \in Int /\ Total(f, S \ R) >= 0
    BY <1>4, <2>1
  <2> QED BY <2>2, <2>3, SMT
<1> QED BY <1>4, <1>5, <1>6, <1>7, SMT

\* A multiple of each value is a multiple of the sum.
LEMMA TotalTimes ==
    ASSUME NEW S, IsFiniteSet(S), NEW f, Numbers(f, S), NEW n \in Int, NEW g, \A x \in S : g[x] = n * f[x]
    PROVE  Total(g, S) = n * Total(f, S)
<1> DEFINE Bad == {s \in SUBSET S : Total(g, s) # n * Total(f, s)}
<1>1. ASSUME NEW s \in SUBSET S
      PROVE  IsFiniteSet(s) /\ Numbers(f, s) /\ Numbers(g, s) /\ Total(f, s) \in Int
  <2>1. IsFiniteSet(s) /\ Numbers(f, s)
    BY FS_Subset DEF Numbers
  <2>2. \A x \in S : n * f[x] \in Int
    BY SMT DEF Numbers
  <2>3. Numbers(g, s)
    BY <2>2 DEF Numbers
  <2> QED BY <2>1, <2>3, TotalStep, Zenon
<1>2. ASSUME NEW s \in SUBSET S, \A x \in s : s \ {x} \notin Bad PROVE s \notin Bad
  <2>1. CASE s = {}
    BY <2>1, TotalNone
  <2>2. CASE s # {}
    <3>1. PICK x \in s : TRUE
      BY <2>2
    <3>2. Total(f, s) = f[x] + Total(f, s \ {x}) /\ Total(g, s) = g[x] + Total(g, s \ {x})
      BY <1>1, TotalStep, Zenon
    <3>3. Total(g, s \ {x}) = n * Total(f, s \ {x})
      BY <1>2
    <3>4. s \ {x} \in SUBSET S
      OBVIOUS
    <3>5. Total(f, s \ {x}) \in Int /\ f[x] \in Int /\ g[x] = n * f[x]
      BY <1>1, <3>4 DEF Numbers
    <3>6. n * (f[x] + Total(f, s \ {x})) = n * f[x] + n * Total(f, s \ {x})
      BY <3>5, SMT
    <3>7. Total(g, s) = n * Total(f, s)
      BY <3>2, <3>3, <3>5, <3>6, Zenon
    <3> QED BY <3>7
  <2> QED BY <2>1, <2>2
<1>3. Bad = {}
  <2>1. Bad \subseteq SUBSET S
    OBVIOUS
  <2> HIDE DEF Bad
  <2> QED BY <1>2, <2>1, OneByOne, Zenon
<1>4. S \notin Bad
  BY <1>3
<1> QED BY <1>4

\* The sum of the one value of a set.
LEMMA TotalOne ==
    ASSUME NEW x, NEW f, f[x] \in Int
    PROVE  Total(f, {x}) = f[x]
<1>1. IsFiniteSet({x}) /\ Numbers(f, {x}) /\ x \in {x}
  BY FS_Singleton DEF Numbers
<1>2. Total(f, {x}) = f[x] + Total(f, {x} \ {x})
  BY <1>1, TotalStep, Zenon
<1>3. {x} \ {x} = {}
  OBVIOUS
<1>4. Total(f, {x} \ {x}) = 0
  BY <1>3, TotalNone, Zenon
<1> QED BY <1>2, <1>4

\* A sum taken by the keys of its terms. parts tells the sum of each key.
PartsOf(key, f, S, K, parts) == \A k \in K : parts[k] = Total(f, {x \in S : key[x] = k})
LEMMA TotalByKey ==
    ASSUME NEW S, IsFiniteSet(S), NEW f, Numbers(f, S), NEW K, IsFiniteSet(K), NEW key, \A x \in S : key[x] \in K,
           NEW parts, PartsOf(key, f, S, K, parts)
    PROVE  Total(parts, K) = Total(f, S) /\ Numbers(parts, K)
<1> DEFINE M == [x \in S |-> [k \in K |-> IF key[x] = k THEN f[x] ELSE 0]]
           rows == [x \in S |-> f[x]]
           in(k) == {x \in S : key[x] = k}
<1>1. Cells(M, S, K)
  BY DEF Cells, Numbers
<1>2. ASSUME NEW x \in S PROVE Total(M[x], K) = f[x]
  <2> DEFINE k == key[x]
             one == [j \in {k} |-> f[x]]
  <2>1. /\ {k} \in SUBSET K /\ Numbers(M[x], K) /\ Numbers(one, {k}) /\ one[k] \in Int /\ one[k] = f[x]
        /\ \A j \in K : M[x][j] = IF j \in {k} THEN one[j] ELSE 0
    BY DEF Numbers
  <2> HIDE DEF M, one
  <2>2. Total(M[x], K) = Total(one, {k})
    BY <2>1, TotalWithin
  <2>3. Total(one, {k}) = one[k]
    BY <2>1, TotalOne, Zenon
  <2> QED BY <2>1, <2>2, <2>3, Zenon
<1>3. ByRows(M, S, K, rows)
  BY <1>2 DEF ByRows
<1>4. ASSUME NEW k \in K PROVE parts[k] = Total([x \in S |-> M[x][k]], S) /\ parts[k] \in Int
  <2> DEFINE c == [x \in S |-> M[x][k]]
  <2>1. /\ in(k) \in SUBSET S /\ Numbers(c, S) /\ Numbers(f, in(k))
        /\ \A x \in S : c[x] = IF x \in in(k) THEN f[x] ELSE 0
    BY DEF Numbers
  <2>2. IsFiniteSet(in(k))
    BY <2>1, FS_Subset, Zenon
  <2>3. parts[k] = Total(f, in(k))
    BY Zenon DEF PartsOf
  <2> HIDE DEF M, c, in
  <2>4. Total(c, S) = Total(f, in(k))
    BY <2>1, TotalWithin
  <2>5. Total(f, in(k)) \in Int
    BY <2>1, <2>2, TotalStep, Zenon
  <2> QED BY <2>3, <2>4, <2>5, Zenon DEF c
<1>5. ByColumns(M, S, K, parts)
  BY <1>4 DEF ByColumns
<1>6. \A x \in S : rows[x] = f[x]
  OBVIOUS
<1> HIDE DEF M, rows
<1>7. Total(parts, K) = Total(rows, S)
  BY <1>1, <1>3, <1>5, TotalBothWays
<1>8. Total(rows, S) = Total(f, S)
  BY <1>6, TotalSame
<1> QED BY <1>4, <1>7, <1>8, Zenon DEF Numbers

\* The least and the greatest number of a finite set.
LEMMA Extremes ==
    ASSUME NEW S, IsFiniteSet(S), S \in SUBSET Int, S # {}
    PROVE  /\ Min(S) \in S /\ \A x \in S : Min(S) <= x
           /\ Max(S) \in S /\ \A x \in S : x <= Max(S)
<1> DEFINE Bad == {s \in SUBSET S : s # {} /\ ~\E lo, hi \in s : \A x \in s : lo <= x /\ x <= hi}
<1>1. ASSUME NEW s \in SUBSET S, \A x \in s : s \ {x} \notin Bad PROVE s \notin Bad
  <2> SUFFICES ASSUME s # {} PROVE \E lo, hi \in s : \A x \in s : lo <= x /\ x <= hi
    OBVIOUS
  <2>1. PICK x \in s : TRUE
    BY Zenon
  <2>2. CASE s \ {x} = {}
    <3>1. \A y \in s : y = x
      BY <2>2
    <3> QED BY <2>1, <3>1
  <2>3. CASE s \ {x} # {}
    <3>1. PICK lo \in s \ {x}, hi \in s \ {x} : \A y \in s \ {x} : lo <= y /\ y <= hi
      BY <1>1, <2>1, <2>3
    <3>2. x \in Int /\ lo \in Int /\ hi \in Int /\ \A y \in s : y \in Int
      BY <2>1, <3>1
    <3> DEFINE l == IF x < lo THEN x ELSE lo
               h == IF x > hi THEN x ELSE hi
    <3>3. \A y \in s : l <= y /\ y <= h
      BY <3>1, <3>2
    <3>4. l \in s /\ h \in s
      BY <2>1, <3>1
    <3> QED BY <3>3, <3>4, Zenon
  <2> QED BY <2>2, <2>3
<1>2. Bad = {}
  <2>1. Bad \subseteq SUBSET S
    OBVIOUS
  <2> HIDE DEF Bad
  <2> QED BY <1>1, <2>1, OneByOne, Zenon
<1>3. PICK lo \in S, hi \in S : \A x \in S : lo <= x /\ x <= hi
  BY <1>2
<1>4. \A x \in S : hi >= x
  BY <1>3, SMT
<1>5. Min(S) \in S /\ \A x \in S : Min(S) <= x
  BY <1>3, Zenon DEF Min
<1>6. Max(S) \in S /\ \A x \in S : Max(S) >= x
  BY <1>4, Zenon DEF Max
<1> DEFINE m == Max(S)
<1>7. m \in S /\ \A x \in S : m >= x
  BY <1>6
<1> HIDE DEF m
<1>8. \A x \in S : x <= m
  BY <1>7, SMT
<1> QED BY <1>5, <1>7, <1>8, Zenon DEF m

\* The smaller of two numbers.
LEMMA Smaller ==
    ASSUME NEW m \in Int, NEW n \in Int
    PROVE  Min({m, n}) = IF m <= n THEN m ELSE n
<1>1. IsFiniteSet({m, n}) /\ {m, n} \in SUBSET Int /\ {m, n} # {}
  <2>1. IsFiniteSet({m}) /\ {m, n} = {m} \cup {n}
    BY FS_Singleton
  <2>2. IsFiniteSet({m} \cup {n})
    BY <2>1, FS_AddElement
  <2> QED BY <2>1, <2>2
<1>2. Min({m, n}) \in {m, n} /\ Min({m, n}) <= m /\ Min({m, n}) <= n
  BY <1>1, Extremes
<1> QED BY <1>2

-----------------------------------------------------------------------------
(* Legs in FIFO order.                                                     *)

\* Legs as rows have them.
Legs(S) ==
    /\ IsFiniteSet(S) /\ S \subseteq DOMAIN raw
    /\ \A i \in S : /\ i \in Int /\ raw[i].qty \in Nat \ {0} /\ raw[i].buy \in BOOLEAN
                    /\ raw[i].day \in Nat /\ raw[i].time \in Nat

LEMMA SomeLegs ==
    ASSUME NEW S, Legs(S), NEW T \in SUBSET S
    PROVE  Legs(T)
BY FS_Subset DEF Legs

\* Any two legs are in one order.
Ordered(S) ==
    /\ \A i, j \in S : FifoBefore(i, j) => ~FifoBefore(j, i) /\ i # j
    /\ \A i, j \in S : i # j => FifoBefore(i, j) \/ FifoBefore(j, i)
    /\ \A i, j, k \in S : FifoBefore(i, j) /\ FifoBefore(j, k) => FifoBefore(i, k)
LEMMA FifoOrders ==
    ASSUME NEW S, Legs(S)
    PROVE  Ordered(S) /\ \A i, j \in S : FifoDay(i) \in Nat /\ (FifoBefore(i, j) => FifoDay(i) <= FifoDay(j))
<1>1. ASSUME NEW i \in S PROVE i \in Int /\ FifoDay(i) \in Nat /\ raw[i].time \in Nat
  <2>1. raw[i].day \in Nat /\ raw[i].time \in Nat /\ i \in Int
    BY DEF Legs
  <2>2. raw[i].time # 0 => SessionDay(raw[i].time) \in Nat
    BY <2>1, DayFacts
  <2> QED BY <2>1, <2>2, Zenon DEF FifoDay
<1>2. ASSUME NEW i \in S, NEW j \in S
      PROVE  /\ FifoBefore(i, j) => ~FifoBefore(j, i) /\ i # j /\ FifoDay(i) <= FifoDay(j)
             /\ i # j => FifoBefore(i, j) \/ FifoBefore(j, i)
  BY <1>1, SMT DEF FifoBefore
<1>3. ASSUME NEW i \in S, NEW j \in S, NEW k \in S, FifoBefore(i, j), FifoBefore(j, k) PROVE FifoBefore(i, k)
  BY <1>1, <1>3, SMT DEF FifoBefore
<1> QED BY <1>1, <1>2, <1>3 DEF Ordered

\* A finite set that is in order has a first element.
LEMMA Foremost ==
    ASSUME NEW S, IsFiniteSet(S), NEW R, \A i, j \in S : i # j => <<i, j>> \in R \/ <<j, i>> \in R,
           \A i, j, k \in S : <<i, j>> \in R /\ <<j, k>> \in R => <<i, k>> \in R, S # {}
    PROVE  \E i \in S : \A j \in S \ {i} : <<i, j>> \in R
<1> DEFINE Bad == {s \in SUBSET S : s # {} /\ ~\E i \in s : \A j \in s \ {i} : <<i, j>> \in R}
<1>1. ASSUME NEW s \in SUBSET S, \A x \in s : s \ {x} \notin Bad PROVE s \notin Bad
  <2> SUFFICES ASSUME s # {} PROVE \E i \in s : \A j \in s \ {i} : <<i, j>> \in R
    OBVIOUS
  <2>1. PICK x \in s : TRUE
    OBVIOUS
  <2>2. CASE s \ {x} = {}
    BY <2>1, <2>2
  <2>3. CASE s \ {x} # {}
    <3>1. PICK i \in s \ {x} : \A j \in (s \ {x}) \ {i} : <<i, j>> \in R
      BY <1>1, <2>1, <2>3, Zenon
    <3>2. CASE <<i, x>> \in R
      BY <2>1, <3>1, <3>2
    <3>3. CASE <<x, i>> \in R
      <4>1. \A j \in s \ {x} : <<x, j>> \in R
        BY <2>1, <3>1, <3>3, Zenon
      <4> QED BY <2>1, <4>1
    <3> QED BY <2>1, <3>1, <3>2, <3>3
  <2> QED BY <2>2, <2>3
<1>2. Bad = {}
  <2>1. Bad \subseteq SUBSET S
    OBVIOUS
  <2> HIDE DEF Bad
  <2> QED BY <1>1, <2>1, OneByOne, Zenon
<1> QED BY <1>2

LEMMA FirstAndLast ==
    ASSUME NEW S, Legs(S), NEW T \in SUBSET S, T # {}
    PROVE  /\ Oldest(T) \in T /\ \A j \in T \ {Oldest(T)} : FifoBefore(Oldest(T), j)
           /\ \E i \in T : \A j \in T \ {i} : FifoBefore(j, i)
<1>1. Ordered(T) /\ IsFiniteSet(T)
  BY SomeLegs, FifoOrders DEF Legs
<1>2. \E i \in T : \A j \in T \ {i} : FifoBefore(i, j)
  <2> DEFINE R == {x \in T \X T : FifoBefore(x[1], x[2])}
  <2>1. \A i, j \in T : <<i, j>> \in R <=> FifoBefore(i, j)
    OBVIOUS
  <2> HIDE DEF R
  <2>2. /\ \A i, j \in T : i # j => <<i, j>> \in R \/ <<j, i>> \in R
        /\ \A i, j, k \in T : <<i, j>> \in R /\ <<j, k>> \in R => <<i, k>> \in R
    BY <1>1, <2>1, Zenon DEF Ordered
  <2>3. \E i \in T : \A j \in T \ {i} : <<i, j>> \in R
    BY <1>1, <2>2, Foremost, Zenon
  <2> QED BY <2>1, <2>3, Zenon
<1>3. \E i \in T : \A j \in T \ {i} : FifoBefore(j, i)
  <2> DEFINE R == {x \in T \X T : FifoBefore(x[2], x[1])}
  <2>1. \A i, j \in T : <<i, j>> \in R <=> FifoBefore(j, i)
    OBVIOUS
  <2> HIDE DEF R
  <2>2. /\ \A i, j \in T : i # j => <<i, j>> \in R \/ <<j, i>> \in R
        /\ \A i, j, k \in T : <<i, j>> \in R /\ <<j, k>> \in R => <<i, k>> \in R
    BY <1>1, <2>1, Zenon DEF Ordered
  <2>3. \E i \in T : \A j \in T \ {i} : <<i, j>> \in R
    BY <1>1, <2>2, Foremost, Zenon
  <2> QED BY <2>1, <2>3, Zenon
<1> QED BY <1>2, <1>3, Zenon DEF Oldest

-----------------------------------------------------------------------------
(* The units of a leg.                                                     *)

Quantity == [j \in DOMAIN raw |-> raw[j].qty]
Ahead(i, S) == {k \in S : raw[k].buy = raw[i].buy /\ FifoBefore(k, i)}
Start(i, S) == Total(Quantity, Ahead(i, S))
End(i, S) == Start(i, S) + raw[i].qty

\* What is ahead of a leg ends before it, and something ends where it starts.
Placed(i, S) ==
    /\ Start(i, S) \in Nat /\ End(i, S) \in Nat /\ Start(i, S) < End(i, S)
    /\ End(i, S) = Start(i, S) + raw[i].qty
    /\ \A j \in S : raw[j].buy = raw[i].buy /\ FifoBefore(j, i) => End(j, S) <= Start(i, S)
    /\ Start(i, S) = 0 \/ \E j \in S : raw[j].buy = raw[i].buy /\ FifoBefore(j, i) /\ End(j, S) = Start(i, S)
LEMMA LegsPlaced ==
    ASSUME NEW S, Legs(S)
    PROVE  \A i \in S : Placed(i, S)
<1>1. ASSUME NEW T \in SUBSET S
      PROVE  IsFiniteSet(T) /\ Numbers(Quantity, T) /\ (\A x \in T : Quantity[x] \in Nat /\ Quantity[x] = raw[x].qty)
             /\ Total(Quantity, T) \in Nat /\ \A R \in SUBSET T : Total(Quantity, R) <= Total(Quantity, T)
  <2>1. IsFiniteSet(T) /\ (\A x \in T : Quantity[x] \in Nat /\ Quantity[x] = raw[x].qty)
    BY FS_Subset DEF Legs, Quantity
  <2> QED BY <2>1, TotalNat DEF Numbers
<1>2. Ordered(S)
  BY FifoOrders
<1>3. ASSUME NEW i \in S
      PROVE  Ahead(i, S) \in SUBSET S /\ i \notin Ahead(i, S) /\ Start(i, S) \in Nat /\ raw[i].qty \in Nat \ {0}
  <2>1. Ahead(i, S) \in SUBSET S /\ i \notin Ahead(i, S)
    BY <1>2 DEF Ahead, Ordered
  <2> QED BY <1>1, <2>1 DEF Legs, Start
<1>4. ASSUME NEW j \in S
      PROVE  /\ Ahead(j, S) \cup {j} \in SUBSET S
             /\ Total(Quantity, Ahead(j, S) \cup {j}) = End(j, S)
  <2> DEFINE U == Ahead(j, S) \cup {j}
  <2>1. U \in SUBSET S /\ U \ {j} = Ahead(j, S) /\ j \in U
    BY <1>3
  <2>2. Total(Quantity, U) = Quantity[j] + Total(Quantity, U \ {j})
    BY <1>1, <2>1, TotalStep, Zenon
  <2>3. Quantity[j] = raw[j].qty /\ Total(Quantity, U \ {j}) = Start(j, S)
    BY <1>1, <2>1, Zenon DEF Start
  <2> HIDE DEF U
  <2>4. Total(Quantity, U) = End(j, S)
    BY <1>3, <2>2, <2>3, SMT DEF End
  <2> QED BY <2>1, <2>4 DEF U
<1>5. ASSUME NEW i \in S, NEW j \in S, raw[j].buy = raw[i].buy, FifoBefore(j, i)
      PROVE  End(j, S) <= Start(i, S)
  <2>1. Ahead(j, S) \cup {j} \in SUBSET Ahead(i, S)
    BY <1>2, <1>5 DEF Ahead, Ordered
  <2> QED BY <1>1, <1>3, <1>4, <2>1, Zenon DEF Start
<1>6. ASSUME NEW i \in S, Start(i, S) # 0
      PROVE  \E j \in S : raw[j].buy = raw[i].buy /\ FifoBefore(j, i) /\ End(j, S) = Start(i, S)
  <2>1. Ahead(i, S) # {}
    BY <1>6, TotalNone, Zenon DEF Start
  <2>2. PICK j \in Ahead(i, S) : \A k \in Ahead(i, S) \ {j} : FifoBefore(k, j)
    BY <1>3, <2>1, FirstAndLast, ZenonT(30)
  <2>3. Ahead(i, S) = Ahead(j, S) \cup {j}
    BY <1>2, <2>2 DEF Ahead, Ordered
  <2>4. j \in S /\ raw[j].buy = raw[i].buy /\ FifoBefore(j, i)
    BY <2>2 DEF Ahead
  <2>5. End(j, S) = Start(i, S)
    BY <1>4, <2>3, <2>4, Zenon DEF Start
  <2> QED BY <2>4, <2>5
<1>7. \A i \in S : End(i, S) \in Nat /\ Start(i, S) < End(i, S)
  BY <1>3, SMT DEF End
<1> QED BY <1>3, <1>5, <1>6, <1>7, Zenon DEF Placed, End

-----------------------------------------------------------------------------
(* Rounds.                                                                 *)

\* The units an opening and a closing leg have in common, and the pair they make.
Low(o, c, S) == IF Start(o, S) >= Start(c, S) THEN Start(o, S) ELSE Start(c, S)
High(o, c, S) == IF End(o, S) <= End(c, S) THEN End(o, S) ELSE End(c, S)
Meet(o, c, S) == FifoBefore(o, c) /\ raw[o].buy # raw[c].buy /\ Low(o, c, S) < High(o, c, S)
PairOf(o, c, S) == [open |-> o, close |-> c, qty |-> High(o, c, S) - Low(o, c, S)]

\* What is left of a leg when m units of its side are matched.
Left(i, S, m) == IF m <= Start(i, S) THEN raw[i].qty ELSE IF m >= End(i, S) THEN 0 ELSE End(i, S) - m

\* Between rounds as many units are matched of one side as of the other, the first ones of
\* each, and up to there every pair is made.
Matched(w, S, m) ==
    /\ DOMAIN w.rem = S /\ \A i \in S : w.rem[i] = Left(i, S, m)
    /\ m \in Nat /\ (m = 0 \/ \E i \in S : m = End(i, S))
    /\ \A p : p \in w.pairs <=> \E o, c \in S : Meet(o, c, S) /\ High(o, c, S) <= m /\ p = PairOf(o, c, S)
    /\ IsFiniteSet(w.pairs)

Closers(rem) == {c \in DOMAIN rem : \E o \in DOMAIN rem : Opposite(rem, o, c)}
Paired(w, o, c, q) ==
    [rem |-> [w.rem EXCEPT ![o] = @ - q, ![c] = @ - q],
     pairs |-> w.pairs \cup {[open |-> o, close |-> c, qty |-> q]}]

\* The legs a round takes are the first that are left on their sides.
Heads(o, c, S, m) ==
    /\ o \in S /\ c \in S /\ o # c /\ FifoBefore(o, c) /\ raw[o].buy # raw[c].buy
    /\ Start(o, S) <= m /\ m < End(o, S) /\ Start(c, S) <= m /\ m < End(c, S)
    /\ \A j \in S : raw[j].buy = raw[o].buy /\ FifoBefore(j, o) => End(j, S) <= m
    /\ \A j \in S : raw[j].buy = raw[c].buy /\ FifoBefore(j, c) => End(j, S) <= m
    /\ m = Low(o, c, S)
LEMMA RoundTakes ==
    ASSUME NEW S, Legs(S), NEW w, NEW m, Matched(w, S, m), Closers(w.rem) # {}
    PROVE  \E o, c \in S : Heads(o, c, S, m) /\ Round(w) = Paired(w, o, c, High(o, c, S) - m)
<1> DEFINE closers == {c \in S : \E o \in S : Opposite(w.rem, o, c)}
           c == Oldest(closers)
           openers == {i \in S : Opposite(w.rem, i, c)}
           o == Oldest(openers)
           q == Min({w.rem[o], w.rem[c]})
<1>1. DOMAIN w.rem = S /\ m \in Nat /\ closers # {} /\ Ordered(S)
  BY FifoOrders DEF Matched, Closers
<1>2. \A i \in S : Placed(i, S) /\ raw[i].buy \in BOOLEAN
  BY LegsPlaced DEF Legs
<1>3. ASSUME NEW i \in S PROVE w.rem[i] > 0 <=> m < End(i, S)
  <2>1. w.rem[i] = Left(i, S, m) /\ raw[i].qty \in Nat \ {0}
    BY DEF Matched, Legs
  <2>2. Start(i, S) \in Nat /\ End(i, S) = Start(i, S) + raw[i].qty
    BY <1>2 DEF Placed
  <2> QED BY <1>1, <2>1, <2>2, SMT DEF Left
<1>4. Round(w) = Paired(w, o, c, q)
  BY <1>1 DEF Round, Paired
<1>5. c \in closers /\ \A j \in closers \ {c} : FifoBefore(c, j)
  <2>1. closers \in SUBSET S
    OBVIOUS
  <2> HIDE DEF closers
  <2> QED BY <1>1, <2>1, FirstAndLast
<1>6. c \in S /\ openers # {}
  BY <1>5
<1> HIDE DEF c
<1>7. o \in openers /\ \A j \in openers \ {o} : FifoBefore(o, j)
  <2>1. openers \in SUBSET S
    OBVIOUS
  <2> HIDE DEF openers
  <2> QED BY <1>6, <2>1, FirstAndLast
<1>8. o \in S /\ FifoBefore(o, c) /\ raw[o].buy # raw[c].buy /\ m < End(o, S) /\ m < End(c, S) /\ o # c
  <2>1. o \in S /\ Opposite(w.rem, o, c)
    BY <1>7
  <2> QED BY <1>3, <1>6, <2>1, Zenon DEF Opposite
<1>9. ASSUME NEW j \in S, NEW k \in S, FifoBefore(j, k), raw[j].buy # raw[k].buy, m < End(j, S), m < End(k, S)
      PROVE  Opposite(w.rem, j, k)
  BY <1>3, <1>9 DEF Opposite
<1>10. ASSUME NEW j \in S, raw[j].buy = raw[o].buy, FifoBefore(j, o), m < End(j, S) PROVE FALSE
  <2>1. FifoBefore(j, c) /\ j # o
    BY <1>1, <1>6, <1>8, <1>10 DEF Ordered
  <2>2. j \in openers
    BY <1>6, <1>8, <1>9, <1>10, <2>1
  <2> HIDE DEF o, openers
  <2> QED BY <1>1, <1>7, <1>8, <1>10, <2>1, <2>2 DEF Ordered
<1>11. ASSUME NEW j \in S, raw[j].buy = raw[c].buy, FifoBefore(j, c), m < End(j, S) PROVE FALSE
  <2> HIDE DEF o, openers
  <2>1. j # o /\ j # c
    BY <1>1, <1>6, <1>8, <1>11 DEF Ordered
  <2>2. CASE FifoBefore(o, j)
    <3>1. j \in closers
      BY <1>8, <1>9, <1>11, <2>2
    <3> HIDE DEF closers
    <3> QED BY <1>1, <1>5, <1>6, <1>11, <2>1, <3>1 DEF Ordered
  <2>3. CASE FifoBefore(j, o)
    <3>1. o \in closers
      BY <1>8, <1>9, <1>11, <2>3
    <3> HIDE DEF closers
    <3> QED BY <1>1, <1>5, <1>6, <1>8, <3>1 DEF Ordered
  <2> QED BY <1>1, <1>8, <2>1, <2>2, <2>3 DEF Ordered
<1> HIDE DEF o, openers, closers
<1>12. /\ \A j \in S : raw[j].buy = raw[o].buy /\ FifoBefore(j, o) => End(j, S) <= m
       /\ \A j \in S : raw[j].buy = raw[c].buy /\ FifoBefore(j, c) => End(j, S) <= m
  <2>1. ASSUME NEW j \in S, ~(m < End(j, S)) PROVE End(j, S) <= m
    <3>1. End(j, S) \in Nat
      BY <1>2 DEF Placed
    <3> QED BY <1>1, <2>1, <3>1, SMT
  <2> QED BY <1>10, <1>11, <2>1
<1>13. Start(o, S) <= m /\ Start(c, S) <= m
  <2>1. Placed(o, S) /\ Placed(c, S)
    BY <1>2, <1>6, <1>8
  <2>2. Start(o, S) = 0 \/ Start(o, S) <= m
    BY <1>12, <2>1, Zenon DEF Placed
  <2>3. Start(c, S) = 0 \/ Start(c, S) <= m
    BY <1>12, <2>1, Zenon DEF Placed
  <2> QED BY <1>1, <2>2, <2>3, SMT
<1>14. ASSUME NEW x \in S, m = End(x, S), NEW i \in S, raw[x].buy = raw[i].buy, m < End(i, S) PROVE m <= Start(i, S)
  <2>1. x # i
    BY <1>14, <1>1, SMT
  <2>2. CASE FifoBefore(x, i)
    BY <1>2, <1>14, <2>2 DEF Placed
  <2>3. CASE FifoBefore(i, x)
    <3>1. End(i, S) <= Start(x, S) /\ Start(x, S) < End(x, S) /\ Start(x, S) \in Nat /\ End(i, S) \in Nat
      BY <1>2, <1>14, <2>3, Zenon DEF Placed
    <3> QED BY <1>1, <1>14, <3>1, SMT
  <2> QED BY <1>1, <2>1, <2>2, <2>3 DEF Ordered
<1>15. m = 0 \/ m <= Start(o, S) \/ m <= Start(c, S)
  <2>1. m = 0 \/ \E x \in S : m = End(x, S)
    BY DEF Matched
  <2>2. ASSUME NEW x \in S PROVE raw[x].buy = raw[o].buy \/ raw[x].buy = raw[c].buy
    BY <1>2, <1>6, <1>8
  <2> QED BY <1>6, <1>8, <1>14, <2>1, <2>2
<1>16. m = Low(o, c, S)
  <2>1. Start(o, S) \in Nat /\ Start(c, S) \in Nat
    BY <1>2, <1>6, <1>8 DEF Placed
  <2> QED BY <1>1, <1>13, <1>15, <2>1, SMT DEF Low
<1>17. q = High(o, c, S) - m
  <2>1. w.rem[o] = Left(o, S, m) /\ w.rem[c] = Left(c, S, m)
    BY <1>6, <1>8 DEF Matched
  <2>2. /\ Start(o, S) \in Nat /\ End(o, S) = Start(o, S) + raw[o].qty /\ raw[o].qty \in Nat
        /\ Start(c, S) \in Nat /\ End(c, S) = Start(c, S) + raw[c].qty /\ raw[c].qty \in Nat
    BY <1>2, <1>6, <1>8 DEF Placed, Legs
  <2>3. w.rem[o] = End(o, S) - m /\ w.rem[c] = End(c, S) - m
    BY <1>1, <1>8, <1>13, <2>1, <2>2, SMT DEF Left
  <2>4. w.rem[o] \in Int /\ w.rem[c] \in Int /\ End(o, S) \in Nat /\ End(c, S) \in Nat
    BY <1>1, <2>2, <2>3, SMT
  <2>5. q = IF w.rem[o] <= w.rem[c] THEN w.rem[o] ELSE w.rem[c]
    BY <2>4, Smaller
  <2> HIDE DEF q
  <2> QED BY <1>1, <2>3, <2>4, <2>5, SMT DEF High
<1>18. Heads(o, c, S, m)
  BY <1>6, <1>8, <1>12, <1>13, <1>16, Zenon DEF Heads
<1> HIDE DEF q
<1> QED BY <1>4, <1>6, <1>8, <1>17, <1>18, Zenon

\* After a round what holds between rounds holds, and fewer legs are left.
Open(rem) == {i \in DOMAIN rem : rem[i] > 0}
LEMMA RoundMatches ==
    ASSUME NEW S, Legs(S), NEW w, NEW m, Matched(w, S, m), NEW o, NEW c, Heads(o, c, S, m)
    PROVE  LET h == High(o, c, S) x == Paired(w, o, c, h - m) IN
           /\ Matched(x, S, h) /\ Open(x.rem) \subseteq Open(w.rem)
           /\ Open(x.rem) # Open(w.rem) /\ h > m /\ h \in Nat
           /\ [open |-> o, close |-> c, qty |-> h - m] = PairOf(o, c, S) /\ PairOf(o, c, S) \notin w.pairs
<1> DEFINE h == High(o, c, S)
           x == Paired(w, o, c, h - m)
           p0 == [open |-> o, close |-> c, qty |-> h - m]
<1>1. /\ o \in S /\ c \in S /\ o # c /\ FifoBefore(o, c) /\ raw[o].buy # raw[c].buy
      /\ Start(o, S) <= m /\ m < End(o, S) /\ Start(c, S) <= m /\ m < End(c, S) /\ m = Low(o, c, S)
      /\ \A j \in S : raw[j].buy = raw[o].buy /\ FifoBefore(j, o) => End(j, S) <= m
      /\ \A j \in S : raw[j].buy = raw[c].buy /\ FifoBefore(j, c) => End(j, S) <= m
  BY DEF Heads
<1>2. DOMAIN w.rem = S /\ m \in Nat /\ (\A i \in S : w.rem[i] = Left(i, S, m)) /\ IsFiniteSet(w.pairs)
  BY DEF Matched
<1>3. \A i \in S : /\ Placed(i, S) /\ raw[i].buy \in BOOLEAN /\ raw[i].qty \in Nat \ {0}
                   /\ Start(i, S) \in Nat /\ End(i, S) \in Nat /\ Start(i, S) < End(i, S)
                   /\ End(i, S) = Start(i, S) + raw[i].qty
  BY LegsPlaced DEF Legs, Placed
<1>4. Ordered(S)
  BY FifoOrders
<1>5. h \in Nat /\ h > m /\ h <= End(o, S) /\ h <= End(c, S) /\ (h = End(o, S) \/ h = End(c, S))
  BY <1>1, <1>2, <1>3, SMT DEF High
<1>6. /\ x.rem = [w.rem EXCEPT ![o] = @ - (h - m), ![c] = @ - (h - m)] /\ x.pairs = w.pairs \cup {p0}
  BY DEF Paired
<1>7. /\ DOMAIN x.rem = S /\ x.rem[o] = w.rem[o] - (h - m) /\ x.rem[c] = w.rem[c] - (h - m)
      /\ \A i \in S \ {o, c} : x.rem[i] = w.rem[i]
  BY <1>1, <1>2, <1>6
<1>8. p0 = PairOf(o, c, S)
  BY <1>1 DEF PairOf
<1> HIDE DEF h, x, p0
<1>9. ASSUME NEW i \in S, raw[i].buy = raw[o].buy, i # o
      PROVE  (FifoBefore(i, o) /\ End(i, S) <= m) \/ End(o, S) <= Start(i, S)
  <2>1. CASE FifoBefore(i, o)
    BY <1>1, <1>9, <2>1
  <2>2. CASE FifoBefore(o, i)
    BY <1>1, <1>3, <1>9, <2>2, Zenon DEF Placed
  <2> QED BY <1>1, <1>4, <1>9, <2>1, <2>2 DEF Ordered
<1>10. ASSUME NEW i \in S, raw[i].buy = raw[c].buy, i # c
       PROVE  (FifoBefore(i, c) /\ End(i, S) <= m) \/ End(c, S) <= Start(i, S)
  <2>1. CASE FifoBefore(i, c)
    BY <1>1, <1>10, <2>1
  <2>2. CASE FifoBefore(c, i)
    BY <1>1, <1>3, <1>10, <2>2, Zenon DEF Placed
  <2> QED BY <1>1, <1>4, <1>10, <2>1, <2>2 DEF Ordered
<1>11. \A i \in S : raw[i].buy = raw[o].buy \/ raw[i].buy = raw[c].buy
  BY <1>1, <1>3
<1>12. ASSUME NEW i \in S \ {o, c} PROVE End(i, S) <= m \/ h <= Start(i, S)
  <2>1. i \in S /\ i # o /\ i # c /\ Start(i, S) \in Nat /\ End(o, S) \in Nat /\ End(c, S) \in Nat
    BY <1>1, <1>3
  <2>2. End(i, S) <= m \/ End(o, S) <= Start(i, S) \/ End(c, S) <= Start(i, S)
    BY <1>9, <1>10, <1>11, <2>1
  <2> QED BY <1>5, <2>1, <2>2, SMT
<1>13. ASSUME NEW i \in S PROVE x.rem[i] = Left(i, S, h)
  <2>0. /\ raw[i].qty \in Nat /\ Start(i, S) \in Nat /\ End(i, S) \in Nat /\ Start(i, S) < End(i, S)
        /\ End(i, S) = Start(i, S) + raw[i].qty /\ w.rem[i] = Left(i, S, m)
    BY <1>2, <1>3
  <2>1. CASE i \in {o, c}
    <3>1. x.rem[i] = w.rem[i] - (h - m) /\ Start(i, S) <= m /\ m < End(i, S) /\ h <= End(i, S)
      BY <1>1, <1>5, <1>7, <2>1
    <3> QED BY <1>2, <1>5, <2>0, <3>1, SMT DEF Left
  <2>2. CASE i \notin {o, c}
    <3>1. x.rem[i] = w.rem[i] /\ (End(i, S) <= m \/ h <= Start(i, S))
      BY <1>7, <1>12, <2>2
    <3> QED BY <1>2, <1>5, <2>0, <3>1, SMT DEF Left
  <2> QED BY <2>1, <2>2
<1>14. ASSUME NEW p, p \in x.pairs
       PROVE  \E a, b \in S : Meet(a, b, S) /\ High(a, b, S) <= h /\ p = PairOf(a, b, S)
  <2>1. CASE p \in w.pairs
    <3>1. PICK a \in S, b \in S : Meet(a, b, S) /\ High(a, b, S) <= m /\ p = PairOf(a, b, S)
      BY <2>1 DEF Matched
    <3>2. End(a, S) \in Nat /\ End(b, S) \in Nat
      BY <1>3
    <3>3. High(a, b, S) <= h
      BY <1>2, <1>5, <3>1, <3>2, SMT DEF High
    <3> QED BY <3>1, <3>3
  <2>2. CASE p = p0
    <3>1. Meet(o, c, S) /\ High(o, c, S) <= h
      <4>1. Low(o, c, S) < High(o, c, S) /\ High(o, c, S) <= h
        BY <1>1, <1>2, <1>5, SMT DEF h
      <4> QED BY <1>1, <4>1 DEF Meet
    <3> QED BY <1>1, <1>8, <2>2, <3>1
  <2> QED BY <1>6, <1>14, <2>1, <2>2
<1>15. ASSUME NEW a \in S, NEW b \in S, Meet(a, b, S), High(a, b, S) <= h, ~(High(a, b, S) <= m)
       PROVE  a = o /\ b = c
  <2>1. /\ Start(a, S) \in Nat /\ End(a, S) \in Nat /\ Start(b, S) \in Nat /\ End(b, S) \in Nat
        /\ Low(a, b, S) < High(a, b, S) /\ raw[a].buy # raw[b].buy /\ FifoBefore(a, b)
    BY <1>3, <1>15 DEF Meet
  <2>2. m < End(a, S) /\ m < End(b, S) /\ Start(a, S) < h /\ Start(b, S) < h
    BY <1>2, <1>5, <1>15, <2>1, SMT DEF High, Low
  <2>3. ASSUME NEW k \in S, m < End(k, S), Start(k, S) < h PROVE k \in {o, c}
    <3>1. CASE k \notin {o, c}
      <4>1. End(k, S) <= m \/ h <= Start(k, S)
        BY <1>12, <3>1
      <4>2. Start(k, S) \in Nat /\ End(k, S) \in Nat
        BY <1>3
      <4> QED BY <1>2, <1>5, <2>3, <4>1, <4>2, SMT
    <3> QED BY <3>1
  <2>4. a \in {o, c} /\ b \in {o, c}
    BY <2>2, <2>3
  <2> QED BY <1>1, <1>4, <2>1, <2>4 DEF Ordered
<1>16. ASSUME NEW p, NEW a \in S, NEW b \in S, Meet(a, b, S), High(a, b, S) <= h, p = PairOf(a, b, S)
       PROVE  p \in x.pairs
  <2>1. CASE High(a, b, S) <= m
    <3>1. p \in w.pairs
      BY <1>16, <2>1, Zenon DEF Matched
    <3> QED BY <1>6, <3>1
  <2>2. CASE ~(High(a, b, S) <= m)
    BY <1>6, <1>8, <1>15, <1>16, <2>2
  <2> QED BY <2>1, <2>2
<1>17. IsFiniteSet(x.pairs)
  BY <1>2, <1>6, FS_AddElement
<1>18. Matched(x, S, h)
  <2>1. \E i \in S : h = End(i, S)
    BY <1>1, <1>5
  <2>2. \A p : p \in x.pairs <=> \E a, b \in S : Meet(a, b, S) /\ High(a, b, S) <= h /\ p = PairOf(a, b, S)
    BY <1>14, <1>16, Zenon
  <2> QED BY <1>5, <1>7, <1>13, <1>17, <2>1, <2>2, Zenon DEF Matched
<1>19. p0 \notin w.pairs
  <2> SUFFICES ASSUME p0 \in w.pairs PROVE FALSE
    OBVIOUS
  <2>1. PICK a \in S, b \in S : Meet(a, b, S) /\ High(a, b, S) <= m /\ p0 = PairOf(a, b, S)
    BY DEF Matched
  <2>2. a = o /\ b = c
    BY <2>1 DEF p0, PairOf
  <2>3. h <= m
    BY <2>1, <2>2 DEF h
  <2> QED BY <1>2, <1>5, <2>3, SMT
<1>20. Open(x.rem) \subseteq Open(w.rem)
  <2>1. ASSUME NEW i \in S, x.rem[i] > 0 PROVE w.rem[i] > 0
    <3>1. x.rem[i] = Left(i, S, h) /\ w.rem[i] = Left(i, S, m) /\ raw[i].qty \in Nat \ {0}
          /\ Start(i, S) \in Nat /\ End(i, S) \in Nat
      BY <1>2, <1>3, <1>13
    <3> QED BY <1>2, <1>5, <2>1, <3>1, SMT DEF Left
  <2> QED BY <1>2, <1>7, <2>1 DEF Open
<1>21. Open(x.rem) # Open(w.rem)
  <2>1. PICK i \in {o, c} : h = End(i, S)
    BY <1>5
  <2>2. i \in S /\ Start(i, S) \in Nat /\ Start(i, S) <= m /\ m < End(i, S) /\ End(i, S) \in Nat /\ raw[i].qty \in Nat \ {0}
    BY <1>1, <1>3, <2>1
  <2>3. x.rem[i] = Left(i, S, h) /\ w.rem[i] = Left(i, S, m)
    BY <1>2, <1>13, <2>2
  <2>4. ~(x.rem[i] > 0) /\ w.rem[i] > 0
    BY <1>2, <1>5, <2>1, <2>2, <2>3, SMT DEF Left
  <2> QED BY <1>2, <2>2, <2>4 DEF Open
<1> QED BY <1>5, <1>8, <1>18, <1>19, <1>20, <1>21, Zenon DEF h, x, p0

\* What a round moves from the legs goes to its pair, whatever a unit of each leg is worth.
Worth(v, pairs) == Total([p \in pairs |-> p.qty * (v[p.open] + v[p.close])], pairs)
Used(v, rem, S) == Total([i \in S |-> (raw[i].qty - rem[i]) * v[i]], S)
Balanced(w, S, v) == Worth(v, w.pairs) = Used(v, w.rem, S)
Counts(w, S) ==
    /\ DOMAIN w.rem = S /\ \A i \in S : w.rem[i] \in Int
    /\ IsFiniteSet(w.pairs) /\ \A p \in w.pairs : p.open \in S /\ p.close \in S /\ p.qty \in Int
LEMMA RoundBalances ==
    ASSUME NEW S, Legs(S), NEW v \in [S -> Int], NEW w, Counts(w, S), Balanced(w, S, v),
           NEW o \in S, NEW c \in S, o # c, NEW q \in Int, [open |-> o, close |-> c, qty |-> q] \notin w.pairs
    PROVE  Balanced(Paired(w, o, c, q), S, v)
<1> DEFINE p0 == [open |-> o, close |-> c, qty |-> q]
           x == Paired(w, o, c, q)
           pw(p) == p.qty * (v[p.open] + v[p.close])
           f == [p \in x.pairs |-> pw(p)]
           g == [i \in S |-> (raw[i].qty - w.rem[i]) * v[i]]
           k == [i \in S |-> (raw[i].qty - x.rem[i]) * v[i]]
<1>1. /\ x.pairs = w.pairs \cup {p0} /\ x.pairs \ {p0} = w.pairs /\ p0 \in x.pairs /\ IsFiniteSet(x.pairs)
      /\ IsFiniteSet(w.pairs)
  BY FS_AddElement DEF Paired, Counts
<1>2. /\ x.rem[o] = w.rem[o] - q /\ x.rem[c] = w.rem[c] - q /\ \A i \in S \ {o, c} : x.rem[i] = w.rem[i]
  BY DEF Paired, Counts
<1>3. IsFiniteSet(S) /\ \A i \in S : raw[i].qty \in Int /\ w.rem[i] \in Int /\ v[i] \in Int
  BY DEF Legs, Counts
<1>4. \A p \in x.pairs : pw(p) \in Int
  <2> TAKE p \in x.pairs
  <2>1. p.qty \in Int /\ p.open \in S /\ p.close \in S
    BY <1>1 DEF Counts
  <2>2. v[p.open] \in Int /\ v[p.close] \in Int
    BY <2>1
  <2> QED BY <2>1, <2>2
<1>5. pw(p0) = q * (v[o] + v[c])
  OBVIOUS
<1>6. \A i \in S : g[i] \in Int /\ k[i] \in Int
  <2> TAKE i \in S
  <2>1. x.rem[i] \in Int
    BY <1>2, <1>3
  <2> QED BY <1>3, <2>1
<1>7. k[o] = g[o] + q * v[o] /\ k[c] = g[c] + q * v[c] /\ \A i \in S \ {o, c} : k[i] = g[i]
  <2>1. \A i \in {o, c} : (raw[i].qty - (w.rem[i] - q)) * v[i] = (raw[i].qty - w.rem[i]) * v[i] + q * v[i]
    BY <1>3
  <2> QED BY <1>2, <2>1
<1> DEFINE e == [p \in w.pairs |-> pw(p)]
<1>8. Worth(v, x.pairs) = Total(f, x.pairs) /\ Worth(v, w.pairs) = Total(e, w.pairs)
      /\ Used(v, w.rem, S) = Total(g, S) /\ Used(v, x.rem, S) = Total(k, S)
  BY DEF Worth, Used
<1>9. /\ Numbers(f, x.pairs) /\ Numbers(f, w.pairs) /\ f[p0] = pw(p0) /\ \A p \in w.pairs : e[p] = f[p]
  BY <1>1, <1>4 DEF Numbers
<1> HIDE DEF p0, x, pw, f, g, k, e
<1>10. Total(f, x.pairs) = f[p0] + Total(f, w.pairs)
  <2>1. Total(f, x.pairs) = f[p0] + Total(f, x.pairs \ {p0})
    BY <1>1, <1>9, TotalStep, ZenonT(30)
  <2> QED BY <1>1, <2>1, Zenon
<1>11. Total(e, w.pairs) = Total(f, w.pairs) /\ Total(f, w.pairs) \in Int
  BY <1>1, <1>9, TotalSame, TotalStep, Zenon
<1>12. /\ IsFiniteSet(S) /\ Numbers(k, S) /\ IsFiniteSet(S \ {o}) /\ Numbers(k, S \ {o}) /\ c \in S \ {o}
       /\ Numbers(g, S) /\ Numbers(g, S \ {o}) /\ IsFiniteSet((S \ {o}) \ {c})
  BY <1>3, <1>6, FS_RemoveElement, Zenon DEF Numbers
<1>13. Total(k, S) = k[o] + Total(k, S \ {o}) /\ Total(k, S \ {o}) = k[c] + Total(k, (S \ {o}) \ {c})
  BY <1>12, TotalStep, Zenon
<1>14. Total(g, S) = g[o] + Total(g, S \ {o}) /\ Total(g, S \ {o}) = g[c] + Total(g, (S \ {o}) \ {c})
  BY <1>12, TotalStep, Zenon
<1>15. Total(k, (S \ {o}) \ {c}) = Total(g, (S \ {o}) \ {c}) /\ Total(g, (S \ {o}) \ {c}) \in Int
  <2> DEFINE R == (S \ {o}) \ {c}
  <2>1. IsFiniteSet(R) /\ Numbers(g, R) /\ \A i \in R : k[i] = g[i]
    BY <1>6, <1>7, <1>12 DEF Numbers
  <2> HIDE DEF R
  <2>2. Total(k, R) = Total(g, R) /\ Total(k, R) \in Int
    BY <2>1, TotalSame
  <2> QED BY <2>2 DEF R
<1>16. Total(k, S) = Total(g, S) + (q * v[o] + q * v[c])
  <2>1. q * v[o] \in Int /\ q * v[c] \in Int /\ g[o] \in Int /\ g[c] \in Int
    BY <1>3, <1>6, SMT
  <2> QED BY <1>7, <1>13, <1>14, <1>15, <2>1, SMT
<1>17. f[p0] = q * v[o] + q * v[c]
  <2>1. v[o] \in Int /\ v[c] \in Int
    BY <1>3
  <2>2. q * (v[o] + v[c]) = q * v[o] + q * v[c]
    BY <2>1, SMT
  <2> QED BY <1>5, <1>9, <2>2
<1>18. Total(g, S) \in Int /\ Total(e, w.pairs) = Total(g, S)
  BY <1>8, <1>12, TotalStep, Zenon DEF Balanced
<1>19. Total(f, x.pairs) = Total(k, S)
  <2>1. q * v[o] + q * v[c] \in Int
    BY <1>3, SMT
  <2> QED BY <1>10, <1>11, <1>16, <1>17, <1>18, <2>1, SMT
<1> QED BY <1>8, <1>19, Zenon DEF Balanced, x

-----------------------------------------------------------------------------
(* The end of the rounds.                                                  *)

\* The rounds one after the other, n of them.
Unmatched(S) == [rem |-> [i \in S |-> raw[i].qty], pairs |-> {}]
Run(A, S, n) == [k \in 0 .. n |-> IF k = 0 THEN Unmatched(S) ELSE Round(A[k - 1])]

LEMMA RunExists ==
    ASSUME NEW S, NEW n \in Nat
    PROVE  \E A : A = Run(A, S, n)
<1> DEFINE Bad == {k \in Nat : ~\E A : A = Run(A, S, k)}
<1>1. 0 \notin Bad
  <2> DEFINE A == [k \in 0 .. 0 |-> Unmatched(S)]
  <2>1. A = Run(A, S, 0)
    BY DEF Run
  <2> QED BY <2>1
<1>2. ASSUME NEW k \in Nat, k \notin Bad PROVE k + 1 \notin Bad
  <2>1. PICK A : A = Run(A, S, k)
    BY <1>2
  <2> DEFINE U == Run(A, S, k + 1)
  <2>2. \A j \in 0 .. k : U[j] = A[j]
    <3> TAKE j \in 0 .. k
    <3>1. A[j] = Run(A, S, k)[j]
      BY <2>1, Zenon
    <3>2. Run(A, S, k)[j] = IF j = 0 THEN Unmatched(S) ELSE Round(A[j - 1])
      BY Zenon DEF Run
    <3>3. j \in 0 .. k + 1
      OBVIOUS
    <3>4. Run(A, S, k + 1)[j] = IF j = 0 THEN Unmatched(S) ELSE Round(A[j - 1])
      BY <3>3, Zenon DEF Run
    <3> QED BY <3>1, <3>2, <3>4, Zenon
  <2>3. \A j \in 0 .. k + 1 : j # 0 => j - 1 \in 0 .. k
    OBVIOUS
  <2> HIDE DEF U
  <2>4. \A j \in 0 .. k + 1 : j # 0 => U[j - 1] = A[j - 1]
    BY <2>2, <2>3
  <2>5. \A j \in 0 .. k + 1 : j # 0 => Round(U[j - 1]) = Round(A[j - 1])
    BY <2>4, Zenon
  <2>6. U = Run(U, S, k + 1)
    BY <2>5, Zenon DEF Run, U
  <2> QED BY <2>6
<1>3. Bad = {}
  <2>1. Bad \subseteq Nat
    OBVIOUS
  <2> HIDE DEF Bad
  <2>2. SUFFICES ASSUME Bad # {} PROVE FALSE
    OBVIOUS
  <2>3. PICK k \in Bad : \A j \in Bad : k <= j
    BY <2>1, <2>2, LeastOf, Zenon
  <2>4. k \in Nat /\ k # 0
    BY <1>1, <2>1
  <2>5. k - 1 \in Nat /\ k - 1 \notin Bad /\ k = (k - 1) + 1
    BY <2>3, <2>4
  <2> QED BY <1>2, <2>5
<1> QED BY <1>3

\* What Rounds gives is where a run ends.
LEMMA RoundsRun ==
    ASSUME NEW S, IsFiniteSet(S)
    PROVE  \E A : A = Run(A, S, Cardinality(S)) /\ Rounds(S) = A[Cardinality(S)].pairs
<1> DEFINE N == Cardinality(S)
           C == CHOOSE A : A = [k \in 0 .. N |-> IF k = 0 THEN [rem |-> [i \in S |-> raw[i].qty], pairs |-> {}]
                                                ELSE Round(A[k - 1])]
<1>1. Rounds(S) = C[N].pairs
  BY DEF Rounds
<1>2. N \in Nat
  BY FS_CardinalityType
<1>3. PICK A : A = Run(A, S, N)
  BY <1>2, RunExists, Zenon
<1>4. \A B : B = Run(B, S, N) <=> B = [k \in 0 .. N |-> IF k = 0 THEN [rem |-> [i \in S |-> raw[i].qty], pairs |-> {}]
                                                ELSE Round(B[k - 1])]
  BY Zenon DEF Run, Unmatched
<1>5. C = Run(C, S, N)
  <2>1. A = [k \in 0 .. N |-> IF k = 0 THEN [rem |-> [i \in S |-> raw[i].qty], pairs |-> {}]
                                                ELSE Round(A[k - 1])]
    BY <1>3, <1>4, Zenon
  <2>2. C = [k \in 0 .. N |-> IF k = 0 THEN [rem |-> [i \in S |-> raw[i].qty], pairs |-> {}]
                                                ELSE Round(C[k - 1])]
    BY <2>1, Zenon
  <2> QED BY <1>4, <2>2, Zenon
<1> QED BY <1>1, <1>5, Zenon

\* After k rounds what holds between rounds holds, and k legs at least are used up unless
\* no two can be paired.
Progress(w, S, k) ==
    /\ \E m : Matched(w, S, m)
    /\ \A v \in [S -> Int] : Balanced(w, S, v)
    /\ Closers(w.rem) = {} \/ Cardinality(Open(w.rem)) + k <= Cardinality(S)
LEMMA ProgressStart ==
    ASSUME NEW S, Legs(S)
    PROVE  Progress(Unmatched(S), S, 0)
<1> DEFINE w == Unmatched(S)
<1>1. w.pairs = {} /\ DOMAIN w.rem = S /\ (\A i \in S : w.rem[i] = raw[i].qty) /\ IsFiniteSet(w.pairs)
  BY FS_EmptySet DEF Unmatched
<1>2. \A i \in S : Start(i, S) \in Nat /\ End(i, S) \in Nat /\ raw[i].qty \in Nat \ {0}
  BY LegsPlaced DEF Legs, Placed
<1> HIDE DEF w
<1>3. \A i \in S : w.rem[i] = Left(i, S, 0)
  BY <1>1, <1>2 DEF Left
<1>4. ASSUME NEW o \in S, NEW c \in S, Meet(o, c, S), High(o, c, S) <= 0 PROVE FALSE
  <2>1. Low(o, c, S) \in Nat /\ High(o, c, S) \in Nat /\ Low(o, c, S) < High(o, c, S)
    BY <1>2, <1>4 DEF Low, High, Meet
  <2> QED BY <1>4, <2>1
<1>5. Matched(w, S, 0)
  BY <1>1, <1>3, <1>4 DEF Matched
<1>6. ASSUME NEW v \in [S -> Int] PROVE Balanced(w, S, v)
  <2> DEFINE f == [p \in w.pairs |-> p.qty * (v[p.open] + v[p.close])]
             g == [i \in S |-> (raw[i].qty - w.rem[i]) * v[i]]
  <2>1. Total(f, w.pairs) = 0
    BY <1>1, TotalNone, Zenon
  <2>2. \A i \in S : g[i] = 0 * v[i] /\ v[i] \in Int
    BY <1>1, <1>2
  <2>3. Numbers(v, S) /\ IsFiniteSet(S) /\ 0 \in Int
    BY DEF Numbers, Legs
  <2> HIDE DEF g
  <2>4. Total(g, S) = 0 * Total(v, S) /\ Total(v, S) \in Int
    BY <2>2, <2>3, TotalTimes, TotalStep, Zenon
  <2>5. Total(g, S) = 0
    BY <2>4, SMT
  <2> QED BY <2>1, <2>5, Zenon DEF Balanced, Worth, Used, g
<1>7. Cardinality(Open(w.rem)) + 0 <= Cardinality(S)
  <2>1. Open(w.rem) \subseteq S /\ IsFiniteSet(S)
    BY <1>1 DEF Open, Legs
  <2>2. Cardinality(Open(w.rem)) <= Cardinality(S) /\ Cardinality(Open(w.rem)) \in Nat
    BY <2>1, FS_Subset, FS_CardinalityType
  <2> QED BY <2>2
<1> QED BY <1>5, <1>6, <1>7, Zenon DEF Progress, w

LEMMA MatchedCounts ==
    ASSUME NEW S, Legs(S), NEW w, NEW m, Matched(w, S, m)
    PROVE  Counts(w, S)
<1>1. \A i \in S : Start(i, S) \in Nat /\ End(i, S) \in Nat /\ raw[i].qty \in Nat \ {0}
  BY LegsPlaced DEF Legs, Placed
<1>2. DOMAIN w.rem = S /\ (\A i \in S : w.rem[i] = Left(i, S, m)) /\ m \in Nat /\ IsFiniteSet(w.pairs)
  BY DEF Matched
<1>3. \A i \in S : w.rem[i] \in Int
  BY <1>1, <1>2, SMT DEF Left
<1>4. ASSUME NEW p \in w.pairs PROVE p.open \in S /\ p.close \in S /\ p.qty \in Int
  <2>1. PICK o \in S, c \in S : p = PairOf(o, c, S)
    BY DEF Matched
  <2>2. Low(o, c, S) \in Int /\ High(o, c, S) \in Int
    BY <1>1 DEF Low, High
  <2> QED BY <2>1, <2>2 DEF PairOf
<1> QED BY <1>2, <1>3, <1>4 DEF Counts

LEMMA ProgressStep ==
    ASSUME NEW S, Legs(S), NEW w, NEW k \in Nat, Progress(w, S, k)
    PROVE  Progress(Round(w), S, k + 1)
<1>1. PICK m : Matched(w, S, m)
  BY DEF Progress
<1>2. CASE Closers(w.rem) = {}
  <2>1. Round(w) = w
    BY <1>2 DEF Round, Closers
  <2> QED BY <1>2, <2>1, Zenon DEF Progress
<1>3. CASE Closers(w.rem) # {}
  <2>1. PICK o \in S, c \in S : Heads(o, c, S, m) /\ Round(w) = Paired(w, o, c, High(o, c, S) - m)
    BY <1>1, <1>3, RoundTakes
  <2> DEFINE h == High(o, c, S)
             x == Paired(w, o, c, h - m)
             p0 == [open |-> o, close |-> c, qty |-> h - m]
  <2>2. /\ Matched(x, S, h) /\ Open(x.rem) \subseteq Open(w.rem) /\ Open(x.rem) # Open(w.rem)
        /\ h \in Nat /\ p0 = PairOf(o, c, S) /\ PairOf(o, c, S) \notin w.pairs
    BY <1>1, <2>1, RoundMatches
  <2>3. m \in Nat /\ o # c /\ Counts(w, S)
    BY <1>1, <2>1, MatchedCounts DEF Matched, Heads
  <2> HIDE DEF h
  <2>4. h - m \in Int /\ p0 \notin w.pairs
    BY <2>2, <2>3
  <2>5. ASSUME NEW v \in [S -> Int] PROVE Balanced(x, S, v)
    <3>1. Balanced(w, S, v)
      BY DEF Progress
    <3> QED BY <2>1, <2>3, <2>4, <3>1, RoundBalances
  <2>6. Cardinality(Open(x.rem)) + (k + 1) <= Cardinality(S)
    <3>1. Cardinality(Open(w.rem)) + k <= Cardinality(S)
      BY <1>3 DEF Progress
    <3>2. IsFiniteSet(S) /\ Open(w.rem) \subseteq S
      BY <1>1 DEF Legs, Open, Matched
    <3>3. IsFiniteSet(Open(w.rem)) /\ IsFiniteSet(Open(x.rem)) /\ Cardinality(S) \in Nat
      BY <2>2, <3>2, FS_Subset, FS_CardinalityType
    <3>4. /\ Cardinality(Open(x.rem)) \in Nat /\ Cardinality(Open(w.rem)) \in Nat
          /\ Cardinality(Open(x.rem)) < Cardinality(Open(w.rem))
      <4> HIDE DEF x
      <4>1. /\ Cardinality(Open(x.rem)) <= Cardinality(Open(w.rem))
            /\ Cardinality(Open(x.rem)) = Cardinality(Open(w.rem)) => Open(x.rem) = Open(w.rem)
        BY <2>2, <3>3, FS_Subset, Zenon
      <4>2. Cardinality(Open(x.rem)) \in Nat /\ Cardinality(Open(w.rem)) \in Nat
        BY <3>3, FS_CardinalityType
      <4> QED BY <2>2, <4>1, <4>2
    <3> QED BY <3>1, <3>3, <3>4
  <2>7. Round(w) = x
    BY <2>1 DEF h
  <2> HIDE DEF x
  <2> QED BY <2>2, <2>5, <2>6, <2>7, Zenon DEF Progress
<1> QED BY <1>2, <1>3

\* Rounds ends where no two legs can be paired, every unit up to there in a pair.
Ended(S, w, m) ==
    /\ Rounds(S) = w.pairs /\ Matched(w, S, m) /\ Closers(w.rem) = {}
    /\ \A v \in [S -> Int] : Balanced(w, S, v)
LEMMA RoundsEnded ==
    ASSUME NEW S, Legs(S)
    PROVE  \E w, m : Ended(S, w, m)
<1> DEFINE N == Cardinality(S)
<1>1. IsFiniteSet(S) /\ N \in Nat
  BY FS_CardinalityType DEF Legs
<1>2. PICK A : A = Run(A, S, N) /\ Rounds(S) = A[N].pairs
  BY <1>1, RoundsRun
<1> HIDE DEF N
<1>3. \A k \in 0 .. N : A[k] = IF k = 0 THEN Unmatched(S) ELSE Round(A[k - 1])
  BY <1>2, Zenon DEF Run
<1> DEFINE Bad == {k \in 0 .. N : ~Progress(A[k], S, k)}
<1>4. Bad = {}
  <2>1. Bad \subseteq Nat
    OBVIOUS
  <2>2. SUFFICES ASSUME Bad # {} PROVE FALSE
    OBVIOUS
  <2>3. PICK k \in Bad : \A j \in Bad : k <= j
    <3> HIDE DEF Bad
    <3> QED BY <2>1, <2>2, LeastOf, Zenon
  <2>4. k # 0
    <3>1. 0 \in 0 .. N
      BY <1>1
    <3>2. Progress(A[0], S, 0)
      BY <1>3, <3>1, ProgressStart, Zenon
    <3> QED BY <3>2
  <2>5. k - 1 \in 0 .. N /\ k - 1 \in Nat /\ k \in 0 .. N /\ k = (k - 1) + 1 /\ k - 1 \notin Bad
    BY <1>1, <2>3, <2>4
  <2>6. Progress(A[k - 1], S, k - 1)
    BY <2>5
  <2>7. Progress(Round(A[k - 1]), S, (k - 1) + 1)
    BY <2>5, <2>6, ProgressStep
  <2>8. A[k] = Round(A[k - 1])
    BY <1>3, <2>4, <2>5, Zenon
  <2>9. Progress(A[k], S, k)
    BY <2>5, <2>7, <2>8, Zenon
  <2> QED BY <2>9
<1>5. Progress(A[N], S, N)
  BY <1>1, <1>4
<1> DEFINE w == A[N]
<1>6. PICK m : Matched(w, S, m)
  BY <1>5 DEF Progress
<1>7. Closers(w.rem) = {}
  <2>1. SUFFICES ASSUME Cardinality(Open(w.rem)) + N <= Cardinality(S) PROVE Closers(w.rem) = {}
    BY <1>5 DEF Progress
  <2>2. IsFiniteSet(Open(w.rem))
    BY <1>1, <1>6, FS_Subset DEF Open, Matched
  <2>3. Cardinality(Open(w.rem)) = 0
    BY <1>1, <2>1, <2>2, FS_CardinalityType DEF N
  <2>4. Open(w.rem) = {}
    BY <2>2, <2>3, FS_EmptySet
  <2> QED BY <2>4 DEF Open, Closers, Opposite
<1> QED BY <1>2, <1>5, <1>6, <1>7 DEF Progress, Ended

\* The pairs of a set of legs: those whose units meet.
LEMMA RoundsMeet ==
    ASSUME NEW S, Legs(S)
    PROVE  /\ IsFiniteSet(Rounds(S))
           /\ \A p : p \in Rounds(S) <=> \E o, c \in S : Meet(o, c, S) /\ p = PairOf(o, c, S)
<1>1. PICK w, m : Ended(S, w, m)
  BY RoundsEnded
<1>2. Rounds(S) = w.pairs /\ Matched(w, S, m) /\ Closers(w.rem) = {}
  BY <1>1 DEF Ended
<1>3. DOMAIN w.rem = S /\ (\A i \in S : w.rem[i] = Left(i, S, m)) /\ m \in Nat
  BY <1>2 DEF Matched
<1>4. \A i \in S : Placed(i, S) /\ raw[i].qty \in Nat \ {0}
  BY LegsPlaced DEF Legs
<1>5. ASSUME NEW o \in S, NEW c \in S, Meet(o, c, S) PROVE High(o, c, S) <= m
  <2> SUFFICES ASSUME ~(High(o, c, S) <= m) PROVE FALSE
    OBVIOUS
  <2>1. End(o, S) > m /\ End(c, S) > m
    BY <1>3, <1>4 DEF High, Placed
  <2>2. w.rem[o] > 0 /\ w.rem[c] > 0
    BY <1>3, <1>4, <2>1 DEF Left, Placed
  <2>3. Opposite(w.rem, o, c)
    BY <1>5, <2>2 DEF Opposite, Meet
  <2> QED BY <1>2, <1>3, <2>3 DEF Closers
<1>6. /\ IsFiniteSet(w.pairs)
      /\ \A p : p \in w.pairs <=> \E o, c \in S : Meet(o, c, S) /\ High(o, c, S) <= m /\ p = PairOf(o, c, S)
  BY <1>2 DEF Matched
<1>7. \A p : p \in w.pairs <=> \E o, c \in S : Meet(o, c, S) /\ p = PairOf(o, c, S)
  BY <1>5, <1>6, Zenon
<1> QED BY <1>2, <1>6, <1>7, Zenon

\* The legs of one side, and the last of them.
OfSide(b, S) == {i \in S : raw[i].buy = b}
LEMMA SideEnds ==
    ASSUME NEW S, Legs(S), NEW b, OfSide(b, S) # {}
    PROVE  /\ Total(Quantity, OfSide(b, S)) \in Nat
           /\ \A i \in OfSide(b, S) : End(i, S) <= Total(Quantity, OfSide(b, S))
           /\ \E i \in OfSide(b, S) : End(i, S) = Total(Quantity, OfSide(b, S))
<1> DEFINE T == OfSide(b, S)
<1>1. T \in SUBSET S
  BY DEF OfSide
<1>2. /\ IsFiniteSet(T) /\ Numbers(Quantity, T) /\ \A i \in T : Quantity[i] \in Nat /\ Quantity[i] = raw[i].qty
  <2>1. IsFiniteSet(T)
    BY <1>1, FS_Subset DEF Legs
  <2> QED BY <1>1, <2>1 DEF Legs, Quantity, Numbers
<1>3. Total(Quantity, T) \in Nat
  BY <1>2, TotalNat
<1>4. PICK i \in T : \A j \in T \ {i} : FifoBefore(j, i)
  BY <1>1, FirstAndLast, Zenon
<1>5. Ordered(S) /\ Placed(i, S) /\ \A j \in S : End(j, S) \in Nat
  BY <1>1, <1>4, FifoOrders, LegsPlaced DEF Placed
<1>6. Ahead(i, S) = T \ {i}
  BY <1>1, <1>4, <1>5 DEF Ahead, Ordered, OfSide
<1>7. End(i, S) = Total(Quantity, T)
  <2>1. Total(Quantity, T) = Quantity[i] + Total(Quantity, T \ {i})
    BY <1>2, TotalStep, Zenon
  <2>2. Total(Quantity, T) = raw[i].qty + Start(i, S)
    BY <1>2, <1>6, <2>1, Zenon DEF Start
  <2>3. Start(i, S) \in Nat /\ End(i, S) = Start(i, S) + raw[i].qty /\ raw[i].qty \in Nat
    BY <1>1, <1>4, <1>5 DEF Placed, Legs
  <2> QED BY <2>2, <2>3
<1>8. ASSUME NEW j \in T PROVE End(j, S) <= End(i, S)
  <2>1. CASE j = i
    BY <1>5, <2>1 DEF Placed
  <2>2. CASE j # i
    <3>1. FifoBefore(j, i) /\ raw[j].buy = raw[i].buy /\ j \in S
      BY <1>4, <2>2 DEF OfSide
    <3>2. End(j, S) <= Start(i, S) /\ Start(i, S) < End(i, S) /\ Start(i, S) \in Nat /\ End(i, S) \in Nat /\ End(j, S) \in Nat
      BY <1>5, <3>1, Zenon DEF Placed
    <3> QED BY <3>2, SMT
  <2> QED BY <2>1, <2>2
<1> QED BY <1>3, <1>7, <1>8

\* What was bought is sold: then every unit is in a pair.
Flat(S) == Total(Quantity, OfSide(TRUE, S)) = Total(Quantity, OfSide(FALSE, S))
LEMMA FlatEnds ==
    ASSUME NEW S, Legs(S), Flat(S), NEW w, NEW m, Matched(w, S, m), Closers(w.rem) = {}
    PROVE  \A i \in S : w.rem[i] = 0
<1>1. DOMAIN w.rem = S /\ (\A i \in S : w.rem[i] = Left(i, S, m)) /\ m \in Nat
  BY DEF Matched
<1>2. \A i \in S : Placed(i, S) /\ raw[i].qty \in Nat \ {0} /\ raw[i].buy \in BOOLEAN
  BY LegsPlaced DEF Legs
<1>3. ASSUME NEW i \in S PROVE (w.rem[i] > 0 <=> End(i, S) > m) /\ (w.rem[i] = 0 <=> ~(End(i, S) > m))
  BY <1>1, <1>2 DEF Left, Placed
<1>4. ASSUME NEW i \in S, End(i, S) > m PROVE FALSE
  <2> DEFINE b == raw[i].buy
             T == Total(Quantity, OfSide(b, S))
             U == Total(Quantity, OfSide(~b, S))
  <2>1. b \in BOOLEAN /\ i \in OfSide(b, S)
    BY <1>2 DEF OfSide
  <2>2. T = U
    BY <2>1, Zenon DEF Flat
  <2>3. T \in Nat /\ End(i, S) <= T /\ End(i, S) \in Nat
    BY <1>2, <2>1, SideEnds DEF Placed
  <2>4. OfSide(~b, S) # {}
    <3>1. T # 0
      BY <1>1, <1>4, <2>3
    <3>2. OfSide(~b, S) = {} => U = 0
      BY TotalNone, Zenon
    <3> QED BY <2>2, <3>1, <3>2
  <2>5. PICK j \in OfSide(~b, S) : End(j, S) = U
    BY <2>4, SideEnds
  <2>6. j \in S /\ raw[j].buy # raw[i].buy /\ End(j, S) > m
    BY <1>1, <1>4, <2>1, <2>2, <2>3, <2>5 DEF OfSide
  <2>7. w.rem[i] > 0 /\ w.rem[j] > 0
    BY <1>3, <1>4, <2>6
  <2>8. FifoBefore(i, j) \/ FifoBefore(j, i)
    BY <2>6, FifoOrders DEF Ordered
  <2>9. Opposite(w.rem, i, j) \/ Opposite(w.rem, j, i)
    BY <2>6, <2>7, <2>8 DEF Opposite
  <2> QED BY <1>1, <2>6, <2>9 DEF Closers
<1> QED BY <1>3, <1>4

LEMMA FlatPairs ==
    ASSUME NEW S, Legs(S), Flat(S)
    PROVE  /\ \A v \in [S -> Int] : Worth(v, Rounds(S)) = Total([i \in S |-> raw[i].qty * v[i]], S)
           /\ \A i \in S : \E p \in Rounds(S) : i \in {p.open, p.close}
<1>1. PICK w, m : Ended(S, w, m)
  BY RoundsEnded
<1>2. Rounds(S) = w.pairs /\ Matched(w, S, m) /\ Closers(w.rem) = {} /\ \A v \in [S -> Int] : Balanced(w, S, v)
  BY <1>1 DEF Ended
<1>3. \A i \in S : w.rem[i] = 0
  BY <1>2, FlatEnds
<1>4. IsFiniteSet(S) /\ \A i \in S : raw[i].qty \in Nat \ {0}
  BY DEF Legs
<1>5. ASSUME NEW v \in [S -> Int] PROVE Worth(v, Rounds(S)) = Total([i \in S |-> raw[i].qty * v[i]], S)
  <2> DEFINE g == [i \in S |-> (raw[i].qty - w.rem[i]) * v[i]]
             h == [i \in S |-> raw[i].qty * v[i]]
  <2>1. \A i \in S : h[i] \in Int /\ g[i] = h[i]
    BY <1>3, <1>4
  <2>2. Worth(v, w.pairs) = Total(g, S)
    BY <1>2, Zenon DEF Balanced, Used
  <2>3. Numbers(h, S)
    BY <2>1 DEF Numbers
  <2> HIDE DEF g, h
  <2>4. Total(g, S) = Total(h, S)
    BY <1>4, <2>1, <2>3, TotalSame
  <2> QED BY <1>2, <2>2, <2>4, Zenon DEF h
<1>6. ASSUME NEW i \in S PROVE \E p \in Rounds(S) : i \in {p.open, p.close}
  <2> SUFFICES ASSUME \A p \in w.pairs : i \notin {p.open, p.close} PROVE FALSE
    BY <1>2
  <2> DEFINE v == [j \in S |-> IF j = i THEN 1 ELSE 0]
             f == [p \in w.pairs |-> p.qty * (v[p.open] + v[p.close])]
             h == [j \in S |-> raw[j].qty * v[j]]
             one == [j \in {i} |-> raw[i].qty]
  <2>1. v \in [S -> Int]
    OBVIOUS
  <2>2. Counts(w, S)
    BY <1>2, MatchedCounts
  <2>3. \A p \in w.pairs : f[p] = 0 * f[p] /\ f[p] = 0 /\ f[p] \in Int
    <3> TAKE p \in w.pairs
    <3>1. p.open \in S /\ p.close \in S /\ p.qty \in Int /\ p.open # i /\ p.close # i
      BY <2>2 DEF Counts
    <3>2. f[p] = p.qty * (0 + 0)
      BY <3>1
    <3> QED BY <3>1, <3>2
  <2>4. \A j \in S : h[j] = IF j \in {i} THEN one[j] ELSE 0
    BY <1>4
  <2>5. Numbers(h, S) /\ Numbers(one, {i}) /\ one[i] = raw[i].qty /\ one[i] \in Int /\ raw[i].qty # 0
    BY <1>4 DEF Numbers
  <2>6. Worth(v, w.pairs) = Total(f, w.pairs) /\ Worth(v, w.pairs) = Total(h, S)
    BY <1>2, <1>5, <2>1, Zenon DEF Worth
  <2>7. Numbers(f, w.pairs) /\ IsFiniteSet(w.pairs)
    BY <2>2, <2>3 DEF Numbers, Counts
  <2> HIDE DEF v, f, h, one
  <2>8. Total(f, w.pairs) = 0
    <3>1. 0 \in Int /\ \A p \in w.pairs : f[p] = 0 * f[p]
      BY <2>3
    <3>2. Total(f, w.pairs) = 0 * Total(f, w.pairs) /\ Total(f, w.pairs) \in Int
      BY <2>7, <3>1, TotalTimes, TotalStep, Zenon
    <3> QED BY <3>2, SMT
  <2>9. Total(h, S) = Total(one, {i})
    <3>1. {i} \in SUBSET S
      OBVIOUS
    <3> QED BY <1>4, <2>4, <2>5, <3>1, TotalWithin
  <2>10. Total(one, {i}) = raw[i].qty
    BY <2>5, TotalOne, Zenon
  <2> QED BY <2>5, <2>6, <2>8, <2>9, <2>10, Zenon
<1> QED BY <1>5, <1>6, Zenon

-----------------------------------------------------------------------------
(* Amounts that can be shared out.                                         *)

LEMMA Exactly ==
    ASSUME NEW x \in Int, NEW d \in Nat \ {0}, x % d = 0
    PROVE  x = d * (x \div d) /\ x \div d \in Int
OBVIOUS

LEMMA Multiples ==
    ASSUME NEW k \in Int, NEW d \in Nat \ {0}
    PROVE  (d * k) % d = 0 /\ (d * k) \div d = k
OBVIOUS

LEMMA DividesOn ==
    ASSUME NEW x \in Int, NEW u \in Nat \ {0}, NEW q \in Nat \ {0}, x % u = 0, u % q = 0
    PROVE  x % q = 0
<1>1. x = u * (x \div u) /\ u = q * (u \div q) /\ x \div u \in Int /\ u \div q \in Int
  BY Exactly, SMT
<1>2. x = q * ((u \div q) * (x \div u))
  BY <1>1
<1>3. (u \div q) * (x \div u) \in Int
  BY <1>1
<1> QED BY <1>2, <1>3, Multiples, Zenon

LEMMA DividesBoth ==
    ASSUME NEW x \in Int, NEW y \in Int, NEW u \in Nat \ {0}, x % u = 0, y % u = 0, NEW n \in Int
    PROVE  (x + y) % u = 0 /\ (x - y) % u = 0 /\ (n * x) % u = 0
<1>1. x = u * (x \div u) /\ y = u * (y \div u) /\ x \div u \in Int /\ y \div u \in Int
  BY Exactly, SMT
<1>2. x + y = u * (x \div u + y \div u) /\ x - y = u * (x \div u - y \div u) /\ n * x = u * (n * (x \div u))
  BY <1>1
<1>3. x \div u + y \div u \in Int /\ x \div u - y \div u \in Int /\ n * (x \div u) \in Int
  BY <1>1
<1> QED BY <1>2, <1>3, Multiples, Zenon

\* What is multiplied by a part of what divides it and divided by that is exact.
LEMMA ShareExact ==
    ASSUME NEW x \in Int, NEW d \in Nat \ {0}, x % d = 0, NEW n \in Int
    PROVE  (n * x) \div d = n * (x \div d) /\ (x * n) \div d = n * (x \div d) /\ x \div d \in Int
<1>1. x = d * (x \div d) /\ x \div d \in Int
  BY Exactly
<1>2. n * x = d * (n * (x \div d)) /\ x * n = d * (n * (x \div d)) /\ n * (x \div d) \in Int
  BY <1>1
<1> QED BY <1>1, <1>2, Multiples, Zenon

LEMMA ShapeAmounts ==
    ASSUME NEW s \in Shapes
    PROVE  /\ Unit \in Nat \ {0} /\ Unit % s.qty = 0 /\ s.con.strike \in Nat /\ s.con.expiry \in Nat
           /\ s.price % Unit = 0 /\ s.close % Unit = 0 /\ s.rp % Unit = 0 /\ s.fee % Unit = 0
           /\ s.con.strike % Unit = 0 /\ s.con.right \in {"C", "P", "-"}
           /\ (s.sec = "OPT" <=> s.con.right # "-") /\ (s.sec = "OPT" => s.con.strike > 0)
<1>1. s \in [via : {"ib", "journal"}, acct : STRING, sec : {"OPT", "STK", "BAG"},
             con : [sym : STRING, strike : Nat, right : {"C", "P", "-"}, expiry : Nat],
             buy : BOOLEAN, qty : Nat \ {0}, price : Nat, close : Nat, rp : Int, fee : Nat,
             time : Nat \ {0}, timed : BOOLEAN, dated : BOOLEAN, alias : BOOLEAN]
  BY BookAssumption, Zenon
<1>2. s.con.strike \in Nat /\ s.con.expiry \in Nat /\ s.con.right \in {"C", "P", "-"}
  BY <1>1
<1>3. Unit \in Nat \ {0} /\ (\A m \in {s.price, s.close, s.rp, s.fee, s.con.strike} : m % Unit = 0)
      /\ (s.sec = "OPT" <=> s.con.right # "-") /\ (s.sec = "OPT" => s.con.strike > 0)
  BY BookAssumption, Zenon
<1>4. Unit % s.qty = 0
  <2>1. s.qty \in {r.qty : r \in Shapes} \cup (Parts \cap Nat)
    OBVIOUS
  <2> QED BY <2>1, ShareAssumption, Zenon
<1>5. s.price % Unit = 0 /\ s.close % Unit = 0 /\ s.rp % Unit = 0 /\ s.fee % Unit = 0 /\ s.con.strike % Unit = 0
  BY <1>3, Zenon
<1> QED BY <1>2, <1>3, <1>4, <1>5

\* A row is of its fill's contract and side, says whether TWS wrote it, and its amounts can be
\* shared out by its quantity.
Whole(r) ==
    r.price % Unit = 0 /\ r.close % Unit = 0 /\ r.rp % Unit = 0 /\ r.comm % Unit = 0 /\ Unit % r.qty = 0
OfItsKind(i) ==
    /\ raw[i].con = broker[FillOf(i)].con /\ raw[i].buy = broker[FillOf(i)].buy
    /\ (raw[i].tws <=> i < 0 /\ i > -JournalBase) /\ Whole(raw[i])
AmountsInv == \A i \in DOMAIN raw : OfItsKind(i)

LEMMA RowAmounts ==
    ASSUME BrokerInv, NEW f \in Fills, NEW source
    PROVE  LET r == RawRow(f, source) IN
           /\ Whole(r) /\ r.con = broker[f].con /\ r.buy = broker[f].buy /\ r.tws = (source = "tws")
           /\ Whole([r EXCEPT !.day = 0]) /\ [r EXCEPT !.day = 0].con = broker[f].con
           /\ [r EXCEPT !.day = 0].buy = broker[f].buy /\ [r EXCEPT !.day = 0].tws = (source = "tws")
<1> DEFINE s == broker[f]
           r == RawRow(f, source)
<1>1. s \in Shapes
  BY FillFacts
<1>2. /\ r.price = s.price /\ r.close = s.close /\ r.rp = s.rp /\ r.comm = s.qty * s.fee /\ r.qty = s.qty
      /\ r.con = s.con /\ r.buy = s.buy /\ r.tws = (source = "tws")
  BY DEF RawRow
<1>3. /\ s.price % Unit = 0 /\ s.close % Unit = 0 /\ s.rp % Unit = 0 /\ s.fee % Unit = 0 /\ Unit % s.qty = 0
      /\ Unit \in Nat \ {0} /\ s.fee \in Nat /\ s.qty \in Nat
  BY <1>1, ShapeAmounts, ShapeFacts
<1>4. (s.qty * s.fee) % Unit = 0
  BY <1>3, DividesBoth
<1>5. Whole(r)
  BY <1>2, <1>3, <1>4, Zenon DEF Whole
<1> DEFINE z == [r EXCEPT !.day = 0]
<1>6. /\ z.price = r.price /\ z.close = r.close /\ z.rp = r.rp /\ z.comm = r.comm /\ z.qty = r.qty
      /\ z.con = r.con /\ z.buy = r.buy /\ z.tws = r.tws
  BY DEF RawRow
<1> HIDE DEF r, s, z
<1>7. Whole(z)
  BY <1>5, <1>6, Zenon DEF Whole
<1> QED BY <1>2, <1>5, <1>6, <1>7, Zenon DEF r, s, z

\* A write of rows of their kind.
LEMMA WrittenAmounts ==
    ASSUME ExecutionInv, AmountsInv, NEW rows, Written(rows), UNCHANGED broker,
           \A i \in DOMAIN rows : /\ rows[i].con = broker[FillOf(i)].con /\ Whole(rows[i])
                                  /\ rows[i].buy = broker[FillOf(i)].buy
                                  /\ rows[i].tws <=> i < 0 /\ i > -JournalBase
    PROVE  AmountsInv'
<1>1. \A i \in DOMAIN raw' : /\ i \in DOMAIN rows => raw'[i] = rows[i]
                             /\ i \notin DOMAIN rows => i \in DOMAIN raw /\ raw'[i] = raw[i]
  BY Zenon DEF Written
<1>2. ASSUME NEW i \in DOMAIN raw' PROVE OfItsKind(i)'
  <2>1. CASE i \in DOMAIN rows
    BY <1>1, <2>1, Zenon DEF OfItsKind, Whole
  <2>2. CASE i \notin DOMAIN rows
    <3>1. i \in DOMAIN raw /\ raw'[i] = raw[i]
      BY <1>1, <2>2, Zenon
    <3>2. OfItsKind(i)
      BY <3>1, Zenon DEF AmountsInv
    <3> QED BY <3>1, <3>2, Zenon DEF OfItsKind, Whole
  <2> QED BY <2>1, <2>2
<1> QED BY <1>2, Zenon DEF AmountsInv

LEMMA OneRowAmounts ==
    ASSUME ExecutionInv, AmountsInv, NEW i, NEW r, Written([j \in {i} |-> r]), UNCHANGED broker,
           r.con = broker[FillOf(i)].con, r.buy = broker[FillOf(i)].buy, Whole(r), r.tws <=> i < 0 /\ i > -JournalBase
    PROVE  AmountsInv'
<1> DEFINE rows == [j \in {i} |-> r]
<1>1. DOMAIN rows = {i} /\ rows[i] = r /\ Written(rows)
  OBVIOUS
<1> HIDE DEF rows
<1> QED BY <1>1, WrittenAmounts

\* Rows that stay are of their kind while the fills they are of stay.
LEMMA AmountsStand ==
    ASSUME ExecutionInv, AmountsInv, \A i \in DOMAIN raw' : i \in DOMAIN raw /\ raw'[i] = raw[i],
           \A f \in Fills : broker'[f] = broker[f]
    PROVE  AmountsInv'
<1>1. \A i \in DOMAIN raw : FillOf(i) \in Fills
  BY Zenon DEF ExecutionInv, RowsInv, OfItsFill
<1>2. ASSUME NEW i \in DOMAIN raw' PROVE OfItsKind(i)'
  <2>1. OfItsKind(i) /\ raw'[i] = raw[i] /\ broker'[FillOf(i)] = broker[FillOf(i)]
    BY <1>1, Zenon DEF AmountsInv
  <2> QED BY <2>1, Zenon DEF OfItsKind, Whole
<1> QED BY <1>2, Zenon DEF AmountsInv

LEMMA AmountsStep == ExecutionInv /\ AmountsInv /\ [SharedNext]_bookVars => AmountsInv'
<1> SUFFICES ASSUME ExecutionInv, AmountsInv, [SharedNext]_bookVars PROVE AmountsInv'
  OBVIOUS
<1>1. ASSUME NEW s \in limits.shapes, Execute(s) PROVE AmountsInv'
  <2>1. broker' = Append(broker, s) /\ UNCHANGED raw
    BY <1>1, Zenon DEF Execute
  <2>2. s \in Shapes /\ broker \in Seq(Shapes)
    BY Zenon DEF ExecutionInv, BrokerInv
  <2>3. \A f \in Fills : broker'[f] = broker[f]
    BY <2>1, <2>2, SMT DEF Fills
  <2> QED BY <2>1, <2>3, AmountsStand, Zenon
<1>2. ASSUME NEW f \in Fills PROVE f \in Nat /\ f > 0 /\ f < JournalBase /\ BrokerInv
  BY FillFacts, SMT DEF ExecutionInv, JournalBase
<1>3. ASSUME NEW f \in Fills, ImportTws(f) PROVE AmountsInv'
  <2> DEFINE r == RawRow(f, "tws")
  <2>1. Written([j \in {-f} |-> r]) /\ UNCHANGED broker
    BY <1>3, Zenon DEF ImportTws
  <2>2. FillOf(-f) = f /\ -f < 0 /\ -f > -JournalBase
    BY <1>2, Ids
  <2>3. Whole(r) /\ r.con = broker[f].con /\ r.buy = broker[f].buy /\ r.tws = TRUE
    BY <1>2, RowAmounts, Zenon
  <2> HIDE DEF r
  <2> QED BY <2>1, <2>2, <2>3, OneRowAmounts, Zenon
<1>4. ASSUME NEW f \in Fills, NEW r, Written([j \in {-(JournalBase + f)} |-> r]), UNCHANGED broker,
             Whole(r), r.con = broker[f].con, r.buy = broker[f].buy, r.tws = FALSE
      PROVE  AmountsInv'
  <2>1. FillOf(-(JournalBase + f)) = f /\ -(JournalBase + f) < -JournalBase
    BY <1>2, Ids
  <2>2. ~(-(JournalBase + f) > -JournalBase)
    BY <1>2, <2>1, SMT DEF JournalBase
  <2> QED BY <1>4, <2>1, <2>2, OneRowAmounts, Zenon
<1>5. ASSUME NEW f \in Fills, ImportJournal(f) PROVE AmountsInv'
  <2> DEFINE r == RawRow(f, "journal")
  <2>1. Written([j \in {-(JournalBase + f)} |-> r]) /\ UNCHANGED broker
    BY <1>5, Zenon DEF ImportJournal
  <2>2. Whole(r) /\ r.con = broker[f].con /\ r.buy = broker[f].buy /\ r.tws = FALSE
    BY <1>2, RowAmounts, Zenon
  <2> HIDE DEF r
  <2> QED BY <1>4, <2>1, <2>2, Zenon
<1>6. ASSUME NEW f \in Fills, NEW t \in Trades \cup {NoTrade}, InsertByHand(f, t) PROVE AmountsInv'
  <2> DEFINE r == [RawRow(f, "journal") EXCEPT !.day = 0]
  <2>1. Written([j \in {-(JournalBase + f)} |-> r]) /\ UNCHANGED broker
    BY <1>6, Zenon DEF InsertByHand
  <2>2. Whole(r) /\ r.con = broker[f].con /\ r.buy = broker[f].buy /\ r.tws = FALSE
    BY <1>2, RowAmounts, Zenon
  <2> HIDE DEF r
  <2> QED BY <1>4, <2>1, <2>2, Zenon
<1>7. ASSUME NEW a \in Accounts, NEW d \in {SessionDay(s.time) : s \in limits.shapes}, ImportFlex(a, d)
      PROVE  AmountsInv'
  <2> DEFINE told == {f \in Fills : broker[f].acct = a /\ broker[f].via = "ib" /\ broker[f].sec # "BAG"
                                    /\ SessionDay(broker[f].time) <= d}
             rows == [f \in told |-> RawRow(f, "flex")]
  <2>1. Written(rows) /\ UNCHANGED broker
    BY <1>7, Zenon DEF ImportFlex
  <2>2. ASSUME NEW f \in DOMAIN rows
        PROVE  /\ rows[f].con = broker[FillOf(f)].con /\ Whole(rows[f])
               /\ rows[f].buy = broker[FillOf(f)].buy
               /\ rows[f].tws <=> f < 0 /\ f > -JournalBase
    <3>1. f \in Fills /\ rows[f] = RawRow(f, "flex")
      BY <2>2
    <3>2. FillOf(f) = f /\ ~(f < 0)
      BY <1>2, <3>1, Ids
    <3>3. /\ Whole(RawRow(f, "flex")) /\ RawRow(f, "flex").con = broker[f].con
          /\ RawRow(f, "flex").buy = broker[f].buy /\ RawRow(f, "flex").tws = FALSE
      BY <1>2, <3>1, RowAmounts, ZenonT(30)
    <3> QED BY <3>1, <3>2, <3>3
  <2> HIDE DEF rows
  <2> QED BY <2>1, <2>2, WrittenAmounts
<1>8. ASSUME UNCHANGED <<broker, raw>> PROVE AmountsInv'
  BY <1>8, AmountsStand, Zenon
<1>9. ASSUME NEW i \in DOMAIN raw, NEW q \in Parts \cap Nat, CorrectQuantity(i, q) PROVE AmountsInv'
  <2> DEFINE r == [raw[i] EXCEPT !.qty = q]
  <2>1. Written([j \in {i} |-> r]) /\ UNCHANGED broker
    BY <1>9, Zenon DEF CorrectQuantity
  <2>2. raw[i] \in RawRows /\ OfItsKind(i)
    BY Zenon DEF ExecutionInv, RowsInv, OfItsFill, AmountsInv
  <2>3. /\ r.con = raw[i].con /\ r.buy = raw[i].buy /\ r.tws = raw[i].tws /\ r.price = raw[i].price /\ r.close = raw[i].close
        /\ r.rp = raw[i].rp /\ r.comm = raw[i].comm /\ r.qty = q
    BY <2>2 DEF RawRows
  <2>4. Unit % q = 0
    <3>1. q \in {s.qty : s \in Shapes} \cup (Parts \cap Nat)
      OBVIOUS
    <3> QED BY <3>1, ShareAssumption, Zenon
  <2> HIDE DEF r
  <2>5. Whole(r)
    BY <2>2, <2>3, <2>4, Zenon DEF Whole, OfItsKind
  <2>6. r.con = broker[FillOf(i)].con /\ r.buy = broker[FillOf(i)].buy /\ (r.tws <=> i < 0 /\ i > -JournalBase)
    BY <2>2, <2>3, Zenon DEF OfItsKind
  <2> QED BY <2>1, <2>5, <2>6, OneRowAmounts, Zenon
<1>10. ASSUME NEW i \in DOMAIN raw, RowDeleted(i) PROVE AmountsInv'
  <2>1. raw' = [j \in DOMAIN raw \ {i} |-> raw[j]] /\ UNCHANGED broker
    BY <1>10, Zenon DEF RowDeleted, Restrict
  <2> QED BY <2>1, AmountsStand, Zenon
<1>11. ASSUME NEW i \in DOMAIN raw, NEW t \in Trades \cup {NoTrade}, AttributeWhole(i, t) PROVE AmountsInv'
  BY <1>8, <1>11, Zenon DEF AttributeWhole
<1>12. ASSUME NEW i \in DOMAIN raw, NEW T \in SUBSET Trades, NEW splits \in [T -> Parts], SplitFill(i, splits)
       PROVE  AmountsInv'
  BY <1>8, <1>12, Zenon DEF SplitFill
<1>13. ASSUME NEW l \in Lines, ImportCash(l) PROVE AmountsInv'
  BY <1>8, <1>13, Zenon DEF ImportCash
<1>14. ASSUME NEW works \in BOOLEAN, ReadPage(works) PROVE AmountsInv'
  BY <1>8, <1>14, Zenon DEF ReadPage
<1>15. CASE UNCHANGED bookVars \/ LinkEdit
  BY <1>8, <1>15, Zenon DEF bookVars, LinkEdit
<1>16. CASE \E i \in IF edits < limits.edits THEN DOMAIN raw ELSE {} :
                \/ \E t \in Trades \cup {NoTrade} : AttributeWhole(i, t)
                \/ \E T \in SUBSET Trades : \E splits \in [T -> Parts] : SplitFill(i, splits)
                \/ \E q \in Parts \cap Nat : CorrectQuantity(i, q)
                \/ DeleteRow(i)
  <2>1. PICK i \in DOMAIN raw :
                \/ \E t \in Trades \cup {NoTrade} : AttributeWhole(i, t)
                \/ \E T \in SUBSET Trades : \E splits \in [T -> Parts] : SplitFill(i, splits)
                \/ \E q \in Parts \cap Nat : CorrectQuantity(i, q)
                \/ DeleteRow(i)
    BY <1>16, Zenon
  <2> QED BY <2>1, <1>9, <1>10, <1>11, <1>12, Zenon DEF DeleteRow
<1> QED BY <1>1, <1>3, <1>5, <1>6, <1>7, <1>10, <1>13, <1>14, <1>15, <1>16,
          Zenon DEF SharedNext, Next, StrictDelete

LEMMA AmountsInit == Init => AmountsInv
<1> SUFFICES ASSUME Init PROVE AmountsInv
  OBVIOUS
<1>1. DOMAIN raw = {}
  BY DEF Init
<1> QED BY <1>1, Zenon DEF AmountsInv

LEMMA AmountsInvariant == SharedSpec => [](ExecutionInv /\ AmountsInv)
<1>1. Init => ExecutionInv /\ AmountsInv
  BY ExecutionInvInit, AmountsInit
<1>2. ExecutionInv /\ AmountsInv /\ [SharedNext]_bookVars => (ExecutionInv /\ AmountsInv)'
  BY ExecutionInvStep, AmountsStep
<1> QED BY <1>1, <1>2, PTL DEF SharedSpec

-----------------------------------------------------------------------------
(* The pairs of the book.                                                  *)

\* The values of a function on a finite set.
LEMMA ImageFinite ==
    ASSUME NEW S, IsFiniteSet(S), NEW f
    PROVE  IsFiniteSet({f[x] : x \in S})
<1> DEFINE T == {f[x] : x \in S}
           g == [x \in S |-> f[x]]
<1>1. g \in Surjection(S, T)
  BY DEF Surjection
<1> HIDE DEF g, T
<1>2. IsFiniteSet(T)
  BY <1>1, FS_Surjection, Zenon
<1> QED BY <1>2 DEF T

\* The option legs of a group.
GroupOf(g, S) == {i \in S : raw[i].sec = "OPT" /\ Group(i) = g}
Mates(o, c, S) == raw[o].sec = "OPT" /\ raw[c].sec = "OPT" /\ Group(o) = Group(c)
LEMMA PairsMeet ==
    ASSUME NEW S, Legs(S)
    PROVE  /\ IsFiniteSet(PairsOf(S))
           /\ \A p : p \in PairsOf(S) <=>
                  \E o, c \in S : /\ Mates(o, c, S) /\ Meet(o, c, GroupOf(Group(o), S))
                                  /\ p = PairOf(o, c, GroupOf(Group(o), S))
           /\ \A p : p \in PairsOf(S) <=> \E i \in S : raw[i].sec = "OPT" /\ p \in Rounds(GroupOf(Group(i), S))
<1> DEFINE opt == {i \in S : raw[i].sec = "OPT"}
           key == [i \in opt |-> Group(i)]
           groups == {key[i] : i \in opt}
           sets == {Rounds(GroupOf(g, S)) : g \in groups}
<1>1. PairsOf(S) = UNION sets
  <2>1. \A g : {i \in opt : Group(i) = g} = GroupOf(g, S)
    BY DEF GroupOf
  <2>2. PairsOf(S) = UNION {Rounds({i \in opt : Group(i) = g}) : g \in {Group(i) : i \in opt}}
    BY DEF PairsOf
  <2>3. groups = {Group(i) : i \in opt}
    BY Zenon
  <2> DEFINE alone(g) == {i \in opt : Group(i) = g}
  <2>4. PairsOf(S) = UNION {Rounds(alone(g)) : g \in groups}
    BY <2>2, <2>3, Zenon
  <2>5. \A g : alone(g) = GroupOf(g, S)
    BY <2>1
  <2> HIDE DEF alone, groups
  <2>6. {Rounds(alone(g)) : g \in groups} = sets
    BY <2>5
  <2> QED BY <2>4, <2>6, Zenon
<1>2. \A g : GroupOf(g, S) \in SUBSET S /\ Legs(GroupOf(g, S))
  BY SomeLegs DEF GroupOf
<1>3. IsFiniteSet(UNION sets)
  <2>1. IsFiniteSet(opt)
    BY FS_Subset DEF Legs
  <2>2. IsFiniteSet(groups)
    <3> HIDE DEF key, opt
    <3> QED BY <2>1, ImageFinite, Zenon
  <2> DEFINE f == [g \in groups |-> Rounds(GroupOf(g, S))]
  <2>3. IsFiniteSet({f[g] : g \in groups})
    <3> HIDE DEF f, groups
    <3> QED BY <2>2, ImageFinite, Zenon
  <2>4. {f[g] : g \in groups} = sets
    BY Zenon
  <2>5. \A T \in sets : IsFiniteSet(T)
    BY <1>2, RoundsMeet
  <2> HIDE DEF sets
  <2> QED BY <2>3, <2>4, <2>5, FS_UNION, Zenon
<1>4. \A p : p \in PairsOf(S) <=> \E i \in S : raw[i].sec = "OPT" /\ p \in Rounds(GroupOf(Group(i), S))
  BY <1>1, Zenon
<1>5. ASSUME NEW p, NEW i \in S, raw[i].sec = "OPT", p \in Rounds(GroupOf(Group(i), S))
      PROVE  \E o, c \in S : /\ Mates(o, c, S) /\ Meet(o, c, GroupOf(Group(o), S))
                             /\ p = PairOf(o, c, GroupOf(Group(o), S))
  <2> DEFINE R == GroupOf(Group(i), S)
  <2>1. Legs(R)
    BY <1>2
  <2>2. PICK o \in R, c \in R : Meet(o, c, R) /\ p = PairOf(o, c, R)
    <3> HIDE DEF R
    <3> QED BY <1>5, <2>1, RoundsMeet DEF R
  <2>3. o \in S /\ c \in S /\ raw[o].sec = "OPT" /\ raw[c].sec = "OPT" /\ Group(o) = Group(i) /\ Group(c) = Group(i)
    BY DEF GroupOf
  <2> QED BY <2>2, <2>3, Zenon DEF Mates
<1>6. ASSUME NEW p, NEW o \in S, NEW c \in S, Mates(o, c, S), Meet(o, c, GroupOf(Group(o), S)),
             p = PairOf(o, c, GroupOf(Group(o), S))
      PROVE  raw[o].sec = "OPT" /\ p \in Rounds(GroupOf(Group(o), S))
  <2> DEFINE R == GroupOf(Group(o), S)
  <2>1. Legs(R) /\ o \in R /\ c \in R /\ raw[o].sec = "OPT"
    BY <1>2, <1>6, Zenon DEF Mates, GroupOf
  <2> HIDE DEF R
  <2>2. p \in Rounds(R)
    BY <1>6, <2>1, RoundsMeet DEF R
  <2> QED BY <2>1, <2>2 DEF R
<1> QED BY <1>1, <1>3, <1>4, <1>5, <1>6, Zenon

\* The pairs of one group.
LEMMA OneGroup ==
    ASSUME NEW S, Legs(S), NEW g, \A i \in S : raw[i].sec = "OPT" /\ Group(i) = g
    PROVE  PairsOf(S) = Rounds(S)
<1>1. \A p : p \in PairsOf(S) <=> \E i \in S : raw[i].sec = "OPT" /\ p \in Rounds(GroupOf(Group(i), S))
  BY PairsMeet, Zenon
<1>2. \A i \in S : GroupOf(Group(i), S) = S
  BY DEF GroupOf
<1>3. \A p : p \in Rounds(S) => \E i \in S : TRUE
  BY RoundsMeet, Zenon
<1> QED BY <1>1, <1>2, <1>3

-----------------------------------------------------------------------------
(* The rows, and the pages of positions over them.                         *)

\* What the rows of the book are.
LEMMA RowIs ==
    ASSUME ExecutionInv, AmountsInv, NEW i \in DOMAIN raw
    PROVE  /\ i \in Int /\ raw[i].buy \in BOOLEAN /\ raw[i].tws \in BOOLEAN /\ raw[i].qty \in Nat \ {0}
           /\ raw[i].price \in Nat /\ raw[i].close \in Nat /\ raw[i].rp \in Int /\ raw[i].comm \in Nat
           /\ raw[i].day \in Nat /\ raw[i].time \in Nat /\ raw[i].sec \in {"OPT", "STK", "BAG"}
           /\ raw[i].acct \in STRING /\ raw[i].exec \in Nat
           /\ FillOf(i) \in Fills /\ broker[FillOf(i)] \in Shapes /\ raw[i].con = broker[FillOf(i)].con
           /\ raw[i].buy = broker[FillOf(i)].buy
           /\ raw[i].sec = broker[FillOf(i)].sec /\ raw[i].acct = broker[FillOf(i)].acct
           /\ Whole(raw[i]) /\ (raw[i].tws <=> i < 0 /\ i > -JournalBase)
           /\ Unit \in Nat \ {0} /\ raw[i].comm % raw[i].qty = 0
<1>1. OfItsFill(i) /\ OfItsKind(i)
  BY Zenon DEF ExecutionInv, RowsInv, AmountsInv
<1>2. raw[i] \in RawRows
  BY <1>1, Zenon DEF OfItsFill
<1>3. /\ raw[i].buy \in BOOLEAN /\ raw[i].tws \in BOOLEAN /\ raw[i].qty \in Nat \ {0}
      /\ raw[i].price \in Nat /\ raw[i].close \in Nat /\ raw[i].rp \in Int /\ raw[i].comm \in Nat
      /\ raw[i].day \in Nat /\ raw[i].time \in Nat /\ raw[i].sec \in {"OPT", "STK", "BAG"}
      /\ raw[i].acct \in STRING /\ raw[i].exec \in Nat
  BY <1>2 DEF RawRows
<1>4. i \in Int /\ FillOf(i) \in Fills /\ raw[i].sec = broker[FillOf(i)].sec /\ raw[i].acct = broker[FillOf(i)].acct
  BY <1>1, Zenon DEF OfItsFill
<1>5. broker[FillOf(i)] \in Shapes
  BY <1>4, FillFacts DEF ExecutionInv
<1>6. raw[i].con = broker[FillOf(i)].con /\ raw[i].buy = broker[FillOf(i)].buy /\ Whole(raw[i])
      /\ (raw[i].tws <=> i < 0 /\ i > -JournalBase)
  BY <1>1, Zenon DEF OfItsKind
<1>7. Unit \in Nat \ {0}
  BY BookAssumption
<1>8. raw[i].comm % raw[i].qty = 0
  <2>1. raw[i].comm % Unit = 0 /\ Unit % raw[i].qty = 0
    BY <1>6, Zenon DEF Whole
  <2> QED BY <1>3, <1>7, <2>1, DividesOn
<1> QED BY <1>3, <1>4, <1>5, <1>6, <1>7, <1>8

\* A position without fills is one row, of its whole quantity.
LEMMA PageOfNone ==
    ASSUME NEW a, NEW c, NEW q \in Int, q # 0, Counted(a, c) = {}
    PROVE  /\ Quantities(RowsOf(a, c, q)) = q
           /\ \A r \in RowsOf(a, c, q) :
                  RowsOf(a, c, q) = {r} /\ r.qty = q /\ r.fills = Cardinality(Counted(a, c))
<1> DEFINE p == [acct |-> a, con |-> c, qty |-> q]
           z == [trade |-> NoTrade, qty |-> q, fills |-> 0, mixed |-> FALSE, unassigned |-> TRUE]
           f == [r \in {z} |-> r.qty]
<1>1. RowsOf(a, c, q) = {z}
  <2>1. p.acct = a /\ p.con = c /\ p.qty = q /\ RowsOf(a, c, q) = AttributionRows(p)
    BY DEF RowsOf
  <2> HIDE DEF p
  <2> QED BY <2>1, Zenon DEF AttributionRows
<1>2. z.qty = q /\ z.fills = 0 /\ f[z] = q
  OBVIOUS
<1>3. Quantities({z}) = Total(f, {z})
  <2>1. \A r \in {z} : r.qty \in Int
    BY <1>2
  <2>2. IsFiniteSet({z}) /\ f = [r \in {z} |-> r.qty]
    BY FS_Singleton
  <2> HIDE DEF z, f
  <2> QED BY <2>1, <2>2, SumOfQuantities
<1>4. Total(f, {z}) = q
  <2> HIDE DEF z, f
  <2> QED BY <1>2, TotalOne
<1>5. Cardinality(Counted(a, c)) = 0
  BY FS_EmptySet
<1> HIDE DEF z, f
<1> QED BY <1>1, <1>2, <1>3, <1>4, <1>5

\* Once a position counts the fills of its contract and no other, with their quantities,
\* they add up to what the broker holds.
LEMMA BrokerHoldsIt ==
    ASSUME ExecutionInv, AmountsInv, NEW a, NEW c, \A i \in Counted(a, c) : raw[i].con = c,
           \A f \in Executed(a, c) : \E i \in Counted(a, c) : FillOf(i) = f /\ raw[i].qty = broker[f].qty
    PROVE  SignedSum(Counted(a, c)) = BrokerHolds(a, c)
<1> DEFINE S == Counted(a, c)
           E == Executed(a, c)
           signed == [i \in S |-> Signed(i)]
           held == [f \in E |-> IF broker[f].buy THEN broker[f].qty ELSE -broker[f].qty]
           fill == [i \in S |-> FillOf(i)]
<1>1. S \in SUBSET DOMAIN raw /\ IsFiniteSet(S) /\ \A i \in S : OnPosition(i, a, c)
  <2>1. S \in SUBSET DOMAIN raw /\ \A i \in S : OnPosition(i, a, c)
    BY DEF Counted, Final, FlexRows, TwsRows, JournalRows
  <2> QED BY <2>1, RowsAreFinite, FS_Subset
<1>2. ASSUME NEW i \in S PROVE FillOf(i) \in E /\ Signed(i) \in Int /\ held[FillOf(i)] = Signed(i)
  <2>1. /\ raw[i].acct = a /\ raw[i].con = c /\ raw[i].sec # "BAG" /\ i \in DOMAIN raw
    <3>1. raw[i].acct = a /\ (raw[i].sec = "OPT" \/ raw[i].sec = "STK")
      BY <1>1 DEF OnPosition
    <3> QED BY <1>1, <3>1
  <2>2. /\ FillOf(i) \in Fills /\ raw[i].con = broker[FillOf(i)].con /\ raw[i].sec = broker[FillOf(i)].sec
        /\ raw[i].acct = broker[FillOf(i)].acct /\ raw[i].buy = broker[FillOf(i)].buy
        /\ raw[i].qty \in Nat
    BY <2>1, RowIs
  <2>3. FillOf(i) \in E
    BY <2>1, <2>2 DEF Executed
  <2>4. PICK j \in S : FillOf(j) = FillOf(i) /\ raw[j].qty = broker[FillOf(i)].qty
    BY <2>3
  <2>5. j = i
    BY <2>4, OneRowEach
  <2>6. held[FillOf(i)] = IF raw[i].buy THEN raw[i].qty ELSE -raw[i].qty
    BY <2>2, <2>3, <2>4, <2>5
  <2>7. Signed(i) = IF raw[i].buy THEN raw[i].qty ELSE -raw[i].qty
    BY DEF Signed
  <2> HIDE DEF held
  <2> QED BY <2>2, <2>3, <2>6, <2>7
<1>3. E = {fill[i] : i \in S}
  <2>1. \A f \in E : \E i \in S : FillOf(i) = f
    OBVIOUS
  <2> HIDE DEF E
  <2> QED BY <1>2, <2>1
<1>4. \A i, j \in S : fill[i] = fill[j] => i = j
  BY OneRowEach
<1>5. /\ Numbers(signed, S) /\ \A i \in S : held[fill[i]] = signed[i]
      /\ fill = [i \in S |-> FillOf(i)] /\ signed = [i \in S |-> Signed(i)]
  BY <1>2 DEF Numbers
<1>6. SumFunction(held) = Total(held, E)
  BY SumIs
<1>7. BrokerHolds(a, c) = SumFunction(held)
  BY Zenon DEF BrokerHolds
<1>8. SignedSum(S) = Total(signed, S)
  BY <1>1, <1>2, SumOfSigned, Zenon
<1> HIDE DEF S, E, signed, held, fill
<1>9. Total(held, E) = Total(signed, S)
  BY <1>1, <1>3, <1>4, <1>5, TotalAlong
<1> QED BY <1>6, <1>7, <1>8, <1>9, Zenon DEF S

\* The rows of a position the broker lists add up to the fills it counts, each once, whatever
\* underlyings they are of, or to the position, and to what the broker holds once just the
\* fills of its contract are told; for any quantity, trades, splits and statements
\* (executions.get_position_instance_attribution).
THEOREM ExecutionCountsOnce == SharedSpec => []FillsCountOnce
<1>1. ASSUME ExecutionInv, AmountsInv, NEW a \in Accounts, NEW c \in Contracts
      PROVE  LET on == Counted(a, c)
                 told == \A f \in Executed(a, c) : \E i \in on : FillOf(i) = f /\ raw[i].qty = broker[f].qty
                 signed == MapThenSumSet(LAMBDA i : Signed(i), on)
             IN /\ \A i, j \in on : FillOf(i) = FillOf(j) => i = j
                /\ on # {} /\ told /\ (\A i \in on : raw[i].con = c) => signed = BrokerHolds(a, c)
                /\ (\A i \in on : IsSplit(i) => SumFunction(Splits(i)) = Signed(i)) =>
                       \A q \in Parts :
                           LET rows == AttributionRows([acct |-> a, con |-> c, qty |-> q])
                               total == IF on = {} THEN q ELSE signed
                           IN /\ MapThenSumSet(LAMBDA r : r.qty, rows) = total
                              /\ \A r \in rows : ~r.mixed => rows = {r} /\ r.qty = total /\ r.fills = Cardinality(on)
  <2> DEFINE on == Counted(a, c)
             rows(q) == RowsOf(a, c, q)
             total(q) == IF on = {} THEN q ELSE SignedSum(on)
             told == \A f \in Executed(a, c) : \E i \in on : FillOf(i) = f /\ raw[i].qty = broker[f].qty
             exact == \A i \in on : IsSplit(i) => SumFunction(Splits(i)) = Signed(i)
  <2>1. \A i, j \in on : FillOf(i) = FillOf(j) => i = j
    BY <1>1, OneRowEach
  <2>2. ASSUME told, \A i \in on : raw[i].con = c PROVE SignedSum(on) = BrokerHolds(a, c)
    BY <1>1, <2>2, BrokerHoldsIt
  <2>3. ASSUME exact, NEW q \in Parts
        PROVE  /\ Quantities(rows(q)) = total(q)
               /\ \A r \in rows(q) : ~r.mixed => rows(q) = {r} /\ r.qty = total(q) /\ r.fills = Cardinality(on)
    <3>1. q \in Int /\ q # 0
      BY BookAssumption
    <3>2. CASE on = {}
      <4>1. total(q) = q
        BY <3>2
      <4>2. Counted(a, c) = {}
        BY <3>2
      <4>3. /\ Quantities(RowsOf(a, c, q)) = q
            /\ \A r \in RowsOf(a, c, q) :
                   RowsOf(a, c, q) = {r} /\ r.qty = q /\ r.fills = Cardinality(Counted(a, c))
        BY <3>1, <4>2, PageOfNone
      <4> HIDE DEF total
      <4> QED BY <4>1, <4>3
    <3>3. CASE on # {}
      <4>1. total(q) = SignedSum(on)
        BY <3>3
      <4> HIDE DEF total
      <4> QED BY <1>1, <2>3, <3>1, <3>3, <4>1, PageAdds
    <3> QED BY <3>2, <3>3
  <2>4. /\ \A q : rows(q) = AttributionRows([acct |-> a, con |-> c, qty |-> q])
        /\ \A q : Quantities(rows(q)) = MapThenSumSet(LAMBDA r : r.qty, rows(q))
        /\ SignedSum(on) = MapThenSumSet(LAMBDA i : Signed(i), on)
    BY Zenon DEF RowsOf, Quantities, SignedSum
  <2> HIDE DEF rows, exact
  <2> QED BY <2>1, <2>2, <2>3, <2>4, Zenon DEF exact
<1>2. ExecutionInv /\ AmountsInv => FillsCountOnce
    BY <1>1, Zenon DEF FillsCountOnce
<1> QED BY <1>2, AmountsInvariant, PTL

-----------------------------------------------------------------------------
(* What a pair has in it.                                                  *)

LEMMA AllLegs ==
    ASSUME ExecutionInv, AmountsInv, NEW S \in SUBSET DOMAIN raw
    PROVE  Legs(S)
<1>1. IsFiniteSet(S)
  BY RowsAreFinite, FS_Subset
<1> QED BY <1>1, RowIs DEF Legs

LEMMA UnitsAre ==
    ASSUME NEW S, Legs(S), NEW i \in S
    PROVE  Units(i, S) = Start(i, S) + 1 .. End(i, S)
<1> DEFINE f == [j \in Ahead(i, S) |-> raw[j].qty]
<1>1. Ahead(i, S) \in SUBSET S /\ IsFiniteSet(Ahead(i, S))
  BY FS_Subset DEF Ahead, Legs
<1>2. Numbers(Quantity, Ahead(i, S)) /\ \A j \in Ahead(i, S) : f[j] = Quantity[j]
  BY <1>1 DEF Numbers, Quantity, Legs
<1>3. SumFunction(f) = Start(i, S)
  <2>1. Ahead(i, S) = DOMAIN f
    OBVIOUS
  <2> HIDE DEF f
  <2>2. SumFunction(f) = Total(f, Ahead(i, S))
    BY <2>1, SumIs
  <2>3. Total(f, Ahead(i, S)) = Total(Quantity, Ahead(i, S))
    BY <1>1, <1>2, TotalSame
  <2> QED BY <2>2, <2>3 DEF Start
<1>4. Units(i, S) = SumFunction(f) + 1 .. SumFunction(f) + raw[i].qty
  BY Zenon DEF Units, Ahead
<1> QED BY <1>3, <1>4, Zenon DEF End

\* The units two legs of different sides have in common are those of their pair.
LEMMA UnitsCommon ==
    ASSUME NEW S, Legs(S), NEW b \in S, NEW s \in S
    PROVE  LET n == High(b, s, S) - Low(b, s, S) IN
           /\ n \in Int /\ High(s, b, S) - Low(s, b, S) = n /\ (Low(b, s, S) < High(b, s, S) <=> n > 0)
           /\ Cardinality(Units(b, S) \cap Units(s, S)) = IF n > 0 THEN n ELSE 0
<1>1. \A i \in S : Start(i, S) \in Nat /\ End(i, S) \in Nat
  BY LegsPlaced DEF Placed
<1>2. Low(b, s, S) \in Nat /\ High(b, s, S) \in Nat /\ Low(b, s, S) = Low(s, b, S) /\ High(b, s, S) = High(s, b, S)
  BY <1>1, SMT DEF Low, High
<1>3. Units(b, S) \cap Units(s, S) = Low(b, s, S) + 1 .. High(b, s, S)
  BY <1>1, UnitsAre, SMT DEF Low, High
<1>4. Cardinality(Units(b, S) \cap Units(s, S)) =
      IF Low(b, s, S) + 1 > High(b, s, S) THEN 0 ELSE High(b, s, S) - (Low(b, s, S) + 1) + 1
  <2> DEFINE l == Low(b, s, S) + 1
             h == High(b, s, S)
  <2>1. l \in Int /\ h \in Int
    BY <1>2
  <2> HIDE DEF l, h
  <2>2. Cardinality(l .. h) = IF l > h THEN 0 ELSE h - l + 1
    BY <2>1, FS_Interval
  <2> QED BY <1>3, <2>2, Zenon DEF l, h
<1> QED BY <1>2, <1>4

Between(b, s, pairs) == SumFunction([p \in {q \in pairs : {q.open, q.close} = {b, s}} |-> p.qty])
Common(b, s, S) == IF raw[b].buy # raw[s].buy THEN Cardinality(Units(b, S) \cap Units(s, S)) ELSE 0
LEMMA PairsCount ==
    ASSUME NEW S, Legs(S), NEW b \in S, NEW s \in S
    PROVE  Between(b, s, Rounds(S)) = Common(b, s, S)
<1> DEFINE P == {q \in Rounds(S) : {q.open, q.close} = {b, s}}
           f == [p \in P |-> p.qty]
           n == High(b, s, S) - Low(b, s, S)
<1>1. /\ n \in Int /\ High(s, b, S) - Low(s, b, S) = n /\ (Low(b, s, S) < High(b, s, S) <=> n > 0)
      /\ Cardinality(Units(b, S) \cap Units(s, S)) = IF n > 0 THEN n ELSE 0
      /\ (Low(s, b, S) < High(s, b, S) <=> High(s, b, S) - Low(s, b, S) > 0)
  BY UnitsCommon
<1>2. Ordered(S)
  BY FifoOrders
<1>3. SumFunction(f) = Total(f, P)
  <2>1. P = DOMAIN f
    OBVIOUS
  <2> HIDE DEF P, f
  <2> QED BY <2>1, SumIs
<1>4. \A p \in P : \E o, c \in S : /\ FifoBefore(o, c) /\ raw[o].buy # raw[c].buy /\ Low(o, c, S) < High(o, c, S)
                                   /\ p = PairOf(o, c, S) /\ {o, c} = {b, s}
  <2> TAKE p \in P
  <2>1. p \in Rounds(S) /\ {p.open, p.close} = {b, s}
    OBVIOUS
  <2>2. PICK o \in S, c \in S : Meet(o, c, S) /\ p = PairOf(o, c, S)
    BY <2>1, RoundsMeet
  <2>3. p.open = o /\ p.close = c
    BY <2>2 DEF PairOf
  <2> QED BY <2>1, <2>2, <2>3, Zenon DEF Meet
<1> DEFINE units == IF raw[b].buy # raw[s].buy THEN Cardinality(Units(b, S) \cap Units(s, S)) ELSE 0
<1>5. ASSUME raw[b].buy = raw[s].buy \/ ~(n > 0) PROVE Total(f, P) = units
  <2>1. P = {}
    <3> SUFFICES ASSUME NEW p \in P PROVE FALSE
      OBVIOUS
    <3>1. PICK o \in S, c \in S : /\ FifoBefore(o, c) /\ raw[o].buy # raw[c].buy /\ Low(o, c, S) < High(o, c, S)
                                  /\ {o, c} = {b, s}
      BY <1>4
    <3>2. (o = b /\ c = s) \/ (o = s /\ c = b)
      BY <3>1
    <3> HIDE DEF n, P
    <3> QED BY <1>1, <1>5, <3>1, <3>2
  <2>2. Total(f, P) = 0
    <3> HIDE DEF f
    <3> QED BY <2>1, TotalNone, Zenon
  <2> HIDE DEF f, P, n
  <2> QED BY <1>1, <1>5, <2>2
<1>6. ASSUME raw[b].buy # raw[s].buy, n > 0 PROVE Total(f, P) = units
  <2>1. PICK o \in S, c \in S : {o, c} = {b, s} /\ FifoBefore(o, c)
    <3>1. b # s
      BY <1>6
    <3>2. FifoBefore(b, s) \/ FifoBefore(s, b)
      BY <1>2, <3>1 DEF Ordered
    <3>3. {s, b} = {b, s}
      OBVIOUS
    <3> QED BY <3>2, <3>3
  <2>2. (o = b /\ c = s) \/ (o = s /\ c = b)
    BY <2>1
  <2>3. raw[o].buy # raw[c].buy /\ Low(o, c, S) < High(o, c, S) /\ High(o, c, S) - Low(o, c, S) = n
    <3> HIDE DEF n
    <3> QED BY <1>1, <1>6, <2>2 DEF n
  <2> DEFINE p0 == PairOf(o, c, S)
  <2>4. p0.open = o /\ p0.close = c /\ p0.qty = n
    BY <2>3 DEF PairOf
  <2>5. p0 \in P
    <3>1. p0 \in Rounds(S)
      BY <2>1, <2>3, RoundsMeet, Zenon DEF Meet
    <3> QED BY <2>1, <2>4, <3>1
  <2>6. \A p \in P : p = p0
    <3> TAKE p \in P
    <3>1. PICK x \in S, y \in S : FifoBefore(x, y) /\ p = PairOf(x, y, S) /\ {x, y} = {b, s}
      BY <1>4
    <3>2. x = o /\ y = c
      BY <1>2, <2>1, <3>1 DEF Ordered
    <3> QED BY <3>1, <3>2
  <2>7. P = {p0} /\ f[p0] = n
    BY <2>4, <2>5, <2>6, Zenon
  <2> HIDE DEF P, f, p0, n
  <2>8. Total(f, P) = n
    BY <1>1, <2>7, TotalOne, Zenon
  <2> QED BY <1>1, <1>6, <2>8
<1>7. Total(f, P) = units
  BY <1>5, <1>6
<1> QED BY <1>3, <1>7, Zenon DEF Between, Common

\* Legs with what they cost.
Priced(S) ==
    Legs(S) /\ \A i \in S : raw[i].price \in Nat /\ raw[i].comm \in Nat /\ raw[i].comm % raw[i].qty = 0
LEMMA AllPriced ==
    ASSUME ExecutionInv, AmountsInv, NEW S \in SUBSET DOMAIN raw
    PROVE  Priced(S)
BY AllLegs, RowIs DEF Priced

\* What a unit of a leg brings in.
UnitNet(i) == (IF raw[i].buy THEN -raw[i].price ELSE raw[i].price) * Multiplier - raw[i].comm \div raw[i].qty
LEMMA UnitNetIs ==
    ASSUME NEW S, Priced(S), NEW i \in S
    PROVE  /\ UnitNet(i) \in Int
           /\ raw[i].qty * UnitNet(i) = -Signed(i) * raw[i].price * Multiplier - raw[i].comm
           /\ \A n \in Int : (n * raw[i].comm) \div raw[i].qty = n * (raw[i].comm \div raw[i].qty)
<1> DEFINE k == raw[i].comm \div raw[i].qty
           p == raw[i].price
           n == raw[i].qty
<1>1. n \in Nat \ {0} /\ p \in Nat /\ raw[i].comm \in Nat /\ raw[i].comm % n = 0 /\ raw[i].buy \in BOOLEAN
  BY DEF Priced, Legs
<1>2. raw[i].comm = n * k /\ k \in Int /\ \A m \in Int : (m * raw[i].comm) \div n = m * k
  <2>1. raw[i].comm = n * k /\ k \in Int
    <3>1. k = raw[i].comm \div n
      OBVIOUS
    <3> HIDE DEF k, n
    <3>2. raw[i].comm \in Int /\ n \in Nat \ {0} /\ raw[i].comm % n = 0
      BY <1>1
    <3> QED BY <3>1, <3>2, Exactly, Zenon
  <2>2. ASSUME NEW m \in Int PROVE (m * raw[i].comm) \div n = m * k
    <3> HIDE DEF n, k
    <3>1. raw[i].comm \in Int
      BY <1>1
    <3>2. (m * raw[i].comm) \div n = m * (raw[i].comm \div n)
      BY <1>1, <3>1, ShareExact, Zenon
    <3> QED BY <3>2, Zenon DEF k, n
  <2> QED BY <2>1, <2>2
<1>3. UnitNet(i) = (IF raw[i].buy THEN -p ELSE p) * 100 - k /\ Signed(i) = IF raw[i].buy THEN n ELSE -n
  BY DEF UnitNet, Signed, Multiplier
<1> HIDE DEF k, p, n
<1>4. UnitNet(i) \in Int
  BY <1>1, <1>2, <1>3
<1>5. n * UnitNet(i) = -Signed(i) * p * 100 - n * k
  <2>1. CASE raw[i].buy
    <3>1. UnitNet(i) = (-p) * 100 - k /\ Signed(i) = n
      BY <1>3, <2>1, Zenon
    <3> QED BY <1>1, <1>2, <3>1
  <2>2. CASE ~raw[i].buy
    <3>1. UnitNet(i) = p * 100 - k /\ Signed(i) = -n
      BY <1>3, <2>2, Zenon
    <3> QED BY <1>1, <1>2, <3>1
  <2> QED BY <2>1, <2>2
<1> QED BY <1>2, <1>4, <1>5, Zenon DEF k, p, n, Multiplier

LEMMA PairNetIs ==
    ASSUME NEW S, Priced(S), NEW o \in S, NEW c \in S, raw[o].buy # raw[c].buy,
           NEW p, p.open = o, p.close = c, p.qty \in Int
    PROVE  PairNet(p) = p.qty * (UnitNet(o) + UnitNet(c)) /\ PairNet(p) \in Int
<1> DEFINE q == p.qty
           a == raw[o].comm \div raw[o].qty
           b == raw[c].comm \div raw[c].qty
<1>1. /\ raw[o].price \in Nat /\ raw[c].price \in Nat /\ raw[o].buy \in BOOLEAN /\ raw[c].buy \in BOOLEAN
      /\ a \in Int /\ b \in Int
  <2>1. \A i \in S : raw[i].qty \in Nat \ {0} /\ raw[i].comm \in Nat /\ raw[i].price \in Nat /\ raw[i].buy \in BOOLEAN
    BY DEF Priced, Legs
  <2> QED BY <2>1
<1>2. (q * raw[o].comm) \div raw[o].qty = q * a /\ (q * raw[c].comm) \div raw[c].qty = q * b
  BY UnitNetIs
<1>3. CASE raw[o].buy
  <2>1. ~raw[c].buy
    BY <1>1, <1>3, Zenon
  <2>2. PairNet(p) = q * (raw[c].price - raw[o].price) * 100 - q * b - q * a
    BY <1>2, <1>3, Zenon DEF PairNet, Multiplier
  <2>3. UnitNet(o) = (-raw[o].price) * 100 - a /\ UnitNet(c) = raw[c].price * 100 - b
    BY <1>3, <2>1, Zenon DEF UnitNet, Multiplier
  <2> HIDE DEF q, a, b
  <2>4. q \in Int
    BY DEF q
  <2>5. PairNet(p) = q * (UnitNet(o) + UnitNet(c)) /\ PairNet(p) \in Int
    BY <1>1, <2>2, <2>3, <2>4
  <2> QED BY <2>5 DEF q
<1>4. CASE ~raw[o].buy
  <2>1. raw[c].buy
    BY <1>1, <1>4
  <2>2. PairNet(p) = q * (raw[o].price - raw[c].price) * 100 - q * a - q * b
    BY <1>2, <1>4, Zenon DEF PairNet, Multiplier
  <2>3. UnitNet(o) = raw[o].price * 100 - a /\ UnitNet(c) = (-raw[c].price) * 100 - b
    BY <1>4, <2>1, Zenon DEF UnitNet, Multiplier
  <2> HIDE DEF q, a, b
  <2>4. q \in Int
    BY DEF q
  <2>5. PairNet(p) = q * (UnitNet(o) + UnitNet(c)) /\ PairNet(p) \in Int
    BY <1>1, <2>2, <2>3, <2>4
  <2> QED BY <2>5 DEF q
<1> QED BY <1>3, <1>4

\* The signed quantities of some legs.
LEMMA SignedSides ==
    ASSUME NEW S, Legs(S)
    PROVE  /\ SumFunction([i \in S |-> Signed(i)]) = Total(Quantity, OfSide(TRUE, S)) - Total(Quantity, OfSide(FALSE, S))
           /\ Total(Quantity, OfSide(TRUE, S)) \in Nat /\ Total(Quantity, OfSide(FALSE, S)) \in Nat
<1> DEFINE f == [i \in S |-> Signed(i)]
           A == OfSide(TRUE, S)
           B == OfSide(FALSE, S)
<1>1. IsFiniteSet(S) /\ \A i \in S : Quantity[i] = raw[i].qty /\ Quantity[i] \in Nat /\ raw[i].buy \in BOOLEAN
  BY DEF Legs, Quantity
<1>2. A \cup B = S /\ A \cap B = {} /\ A \in SUBSET S /\ B \in SUBSET S
  BY <1>1 DEF OfSide
<1>3. IsFiniteSet(A) /\ IsFiniteSet(B)
  BY <1>1, <1>2, FS_Subset, Zenon
<1>4. (\A i \in A : f[i] = Quantity[i]) /\ (\A i \in B : f[i] = (-1) * Quantity[i]) /\ Numbers(f, S)
  BY <1>1 DEF OfSide, Signed, Numbers
<1>5. Numbers(Quantity, A) /\ Numbers(Quantity, B)
  <2> HIDE DEF A, B
  <2> QED BY <1>1, <1>2 DEF Numbers
<1>6. SumFunction(f) = Total(f, S)
  <2>1. S = DOMAIN f
    OBVIOUS
  <2> HIDE DEF f
  <2> QED BY <2>1, SumIs
<1> HIDE DEF f, A, B
<1>7. Total(f, S) = Total(f, A) + Total(f, B)
  BY <1>1, <1>2, <1>4, TotalSplits
<1>8. Total(f, A) = Total(Quantity, A)
  BY <1>3, <1>4, <1>5, TotalSame
<1>9. Total(f, B) = (-1) * Total(Quantity, B)
  <2>1. -1 \in Int
    OBVIOUS
  <2> QED BY <1>3, <1>4, <1>5, <2>1, TotalTimes
<1>10. Total(Quantity, A) \in Nat /\ Total(Quantity, B) \in Nat
  <2>1. (\A i \in A : Quantity[i] \in Nat) /\ \A i \in B : Quantity[i] \in Nat
    BY <1>1, <1>2
  <2> QED BY <1>3, <2>1, TotalNat
<1>11. SumFunction(f) = Total(Quantity, A) - Total(Quantity, B)
  BY <1>6, <1>7, <1>8, <1>9, <1>10, SMT
<1> QED BY <1>10, <1>11, Zenon DEF f, A, B

\* The net of the pairs of legs that are flat is the cash their fills moved.
LEMMA FlatNet ==
    ASSUME NEW S, Priced(S), SumFunction([i \in S |-> Signed(i)]) = 0
    PROVE  SumFunction([p \in Rounds(S) |-> PairNet(p)])
               = SumFunction([i \in S |-> -Signed(i) * raw[i].price * Multiplier - raw[i].comm])
<1> DEFINE P == Rounds(S)
           v == [i \in S |-> UnitNet(i)]
           f == [p \in P |-> PairNet(p)]
           w == [p \in P |-> p.qty * (v[p.open] + v[p.close])]
           g == [i \in S |-> raw[i].qty * v[i]]
           h == [i \in S |-> -Signed(i) * raw[i].price * Multiplier - raw[i].comm]
<1>1. Legs(S) /\ IsFiniteSet(S)
  BY DEF Priced, Legs
<1>2. Flat(S)
  <2> DEFINE x == Total(Quantity, OfSide(TRUE, S))
             y == Total(Quantity, OfSide(FALSE, S))
  <2>1. x \in Nat /\ y \in Nat /\ x - y = 0
    BY <1>1, SignedSides, Zenon
  <2> HIDE DEF x, y
  <2>2. x = y
    BY <2>1
  <2> QED BY <2>2, Zenon DEF Flat, x, y
<1>3. v \in [S -> Int]
  BY UnitNetIs
<1>4. Worth(v, P) = Total(g, S)
  BY <1>1, <1>2, <1>3, FlatPairs, Zenon
<1>5. ASSUME NEW p \in P PROVE f[p] = w[p] /\ w[p] \in Int
  <2>1. PICK o \in S, c \in S : Meet(o, c, S) /\ p = PairOf(o, c, S)
    BY <1>1, RoundsMeet
  <2>2. p.open = o /\ p.close = c /\ raw[o].buy # raw[c].buy /\ p.qty = High(o, c, S) - Low(o, c, S)
    BY <2>1 DEF PairOf, Meet
  <2>3. p.qty \in Int
    BY <1>1, <2>2, UnitsCommon, Zenon
  <2>4. PairNet(p) = p.qty * (UnitNet(o) + UnitNet(c)) /\ PairNet(p) \in Int
    BY <2>2, <2>3, PairNetIs
  <2> QED BY <2>2, <2>4
<1>6. ASSUME NEW i \in S PROVE h[i] = g[i] /\ g[i] \in Int
  <2>1. raw[i].qty * UnitNet(i) = h[i] /\ UnitNet(i) \in Int
    BY UnitNetIs
  <2>2. raw[i].qty \in Int
    BY <1>1 DEF Legs
  <2> QED BY <2>1, <2>2
<1>7. SumFunction(f) = Total(f, P) /\ SumFunction(h) = Total(h, S)
  <2>1. P = DOMAIN f /\ S = DOMAIN h
    OBVIOUS
  <2> HIDE DEF P, f, h
  <2> QED BY <2>1, SumIs
<1>8. IsFiniteSet(P)
  BY <1>1, RoundsMeet
<1>9. Numbers(w, P) /\ Numbers(g, S)
  BY <1>5, <1>6 DEF Numbers
<1>10. Worth(v, P) = Total(w, P)
  BY DEF Worth
<1> HIDE DEF P, v, f, w, g, h
<1>11. Total(f, P) = Total(w, P)
  BY <1>5, <1>8, <1>9, TotalSame
<1>12. Total(h, S) = Total(g, S)
  BY <1>1, <1>6, <1>9, TotalSame
<1>13. SumFunction(f) = SumFunction(h)
  BY <1>4, <1>7, <1>10, <1>11, <1>12, Zenon
<1> QED BY <1>13 DEF P, f, h

-----------------------------------------------------------------------------
(* The pairs.                                                              *)

\* The k-th unit bought of a contract is paired with the k-th unit sold, and the pairs of
\* a flat contract earn the cash its fills moved, for any fills in any order
\* (accounts_helpers._compute_opt_pair_map_and_pairs).
THEOREM PerformancePairs == SharedSpec => []PairsAreFifo
<1>1. ASSUME ExecutionInv, AmountsInv PROVE PairsAreFifo
  <2> SUFFICES ASSUME NEW g \in {Group(i) : i \in {j \in Canonical : raw[j].sec = "OPT"}}
               PROVE  LET S == {i \in Canonical : raw[i].sec = "OPT" /\ Group(i) = g}
                          pairs == PairsOf(S)
                          moved(i) == -Signed(i) * raw[i].price * Multiplier - raw[i].comm
                      IN /\ \A b, s \in S :
                                SumFunction([p \in {q \in pairs : {q.open, q.close} = {b, s}} |-> p.qty])
                                    = IF raw[b].buy # raw[s].buy THEN Cardinality(Units(b, S) \cap Units(s, S))
                                      ELSE 0
                         /\ SumFunction([i \in S |-> Signed(i)]) = 0 =>
                                SumFunction([p \in pairs |-> PairNet(p)]) = SumFunction([i \in S |-> moved(i)])
    BY Zenon DEF PairsAreFifo
  <2> DEFINE S == {i \in Canonical : raw[i].sec = "OPT" /\ Group(i) = g}
  <2>1. S \in SUBSET DOMAIN raw
    BY DEF Canonical, FlexRows, TwsRows, JournalRows
  <2>2. Priced(S) /\ Legs(S)
    BY <1>1, <2>1, AllPriced DEF Priced
  <2>3. PairsOf(S) = Rounds(S)
    <3>1. \A i \in S : raw[i].sec = "OPT" /\ Group(i) = g
      OBVIOUS
    <3> HIDE DEF S
    <3> QED BY <2>2, <3>1, OneGroup
  <2> HIDE DEF S
  <2>4. ASSUME NEW b \in S, NEW s \in S
        PROVE  SumFunction([p \in {q \in PairsOf(S) : {q.open, q.close} = {b, s}} |-> p.qty])
                   = IF raw[b].buy # raw[s].buy THEN Cardinality(Units(b, S) \cap Units(s, S)) ELSE 0
    <3>1. Between(b, s, PairsOf(S)) = Common(b, s, S)
      BY <2>2, <2>3, PairsCount, Zenon
    <3> QED BY <3>1, Zenon DEF Between, Common
  <2>5. SumFunction([i \in S |-> Signed(i)]) = 0 =>
            SumFunction([p \in PairsOf(S) |-> PairNet(p)])
                = SumFunction([i \in S |-> -Signed(i) * raw[i].price * Multiplier - raw[i].comm])
    BY <2>2, <2>3, FlatNet, Zenon
  <2> QED BY <2>4, <2>5, Zenon DEF S
<1> QED BY <1>1, AmountsInvariant, PTL

-----------------------------------------------------------------------------
(* The trades' shares of an amount.                                        *)

\* The splits of a fill, and what they are parts of.
LEMMA SplitIs ==
    ASSUME ExecutionInv, NEW i
    PROVE  /\ DOMAIN Splits(i) \in SUBSET Trades /\ IsFiniteSet(DOMAIN Splits(i)) /\ IsFiniteSet(Trades)
           /\ AttOf(i).whole \in Trades \cup {NoTrade} /\ NoTrade \notin Trades
           /\ \A t \in DOMAIN Splits(i) : Splits(i)[t] \in Int /\ AbsOf(Splits(i)[t]) \in Nat \ {0}
           /\ IsSplit(i) => SplitTotal(i) \in Nat \ {0} /\ Unit % SplitTotal(i) = 0
           /\ SplitTotal(i) = Total([t \in DOMAIN Splits(i) |-> AbsOf(Splits(i)[t])], DOMAIN Splits(i))
<1> DEFINE T == DOMAIN Splits(i)
           f == [t \in T |-> AbsOf(Splits(i)[t])]
<1>1. AttOf(i) \in Attribution
  BY AttOfFacts DEF ExecutionInv
<1>2. AttOf(i).whole \in Trades \cup {NoTrade} /\ AttOf(i).splits \in UNION {[S -> Parts] : S \in SUBSET Trades}
  BY <1>1 DEF Attribution
<1>3. T \in SUBSET Trades /\ Splits(i) \in [T -> Parts]
  <2>1. PICK S \in SUBSET Trades : Splits(i) \in [S -> Parts]
    BY <1>2 DEF Splits
  <2> QED BY <2>1
<1>4. IsFiniteSet(Trades) /\ NoTrade \notin Trades /\ Parts \subseteq Int \ {0}
  BY BookAssumption
<1>5. IsFiniteSet(T)
  BY <1>3, <1>4, FS_Subset
<1>6. ASSUME NEW t \in T PROVE Splits(i)[t] \in Int /\ AbsOf(Splits(i)[t]) \in Nat \ {0}
  <2>1. Splits(i)[t] \in Int /\ Splits(i)[t] # 0
    BY <1>3, <1>4
  <2> QED BY <2>1 DEF AbsOf
<1>7. SplitTotal(i) = Total(f, T)
  <2>1. T = DOMAIN f
    OBVIOUS
  <2>2. SplitTotal(i) = SumFunction(f)
    BY DEF SplitTotal
  <2> HIDE DEF f, T
  <2> QED BY <2>1, <2>2, SumIs
<1>8. ASSUME IsSplit(i) PROVE SplitTotal(i) \in Nat \ {0} /\ Unit % SplitTotal(i) = 0
  <2>1. PICK t \in T : TRUE
    BY <1>8 DEF IsSplit
  <2>2. \A x \in T : f[x] \in Nat /\ f[x] # 0
    BY <1>6
  <2>3. Total(f, T) \in Nat /\ f[t] <= Total(f, T)
    <3> HIDE DEF f, T
    <3> QED BY <1>5, <2>1, <2>2, TotalNat
  <2>4. Total(f, T) # 0
    <3> HIDE DEF f, T
    <3> QED BY <2>1, <2>2, <2>3
  <2>5. Unit % SplitTotal(i) = 0
    <3>1. T \in (SUBSET Trades) \ {{}}
      BY <1>3, <2>1
    <3> DEFINE sp == Splits(i)
    <3>2. sp \in [T -> Parts]
      BY <1>3
    <3>3. Unit % SumFunction([x \in T |-> AbsOf(sp[x])]) = 0
      <4> HIDE DEF T, sp
      <4> QED BY <3>1, <3>2, ShareAssumption, Zenon
    <3> QED BY <3>3, Zenon DEF SplitTotal
  <2> QED BY <1>7, <2>3, <2>4, <2>5, Zenon
<1> QED BY <1>2, <1>3, <1>4, <1>5, <1>6, <1>7, <1>8, Zenon

\* What a trade gets of an amount.
LEMMA WeightIs ==
    ASSUME ExecutionInv, NEW i, NEW t, NEW amount \in Int, amount % Unit = 0
    PROVE  /\ Weighted(i, t, amount) \in Int
           /\ IsSplit(i) /\ t \in DOMAIN Splits(i) =>
                  Weighted(i, t, amount) = (amount \div SplitTotal(i)) * AbsOf(Splits(i)[t])
           /\ IsSplit(i) => amount = SplitTotal(i) * (amount \div SplitTotal(i)) /\ amount \div SplitTotal(i) \in Int
           /\ IsSplit(i) /\ t \notin DOMAIN Splits(i) => Weighted(i, t, amount) = 0
           /\ ~IsSplit(i) => Weighted(i, t, amount) = IF AttOf(i).whole = t THEN amount ELSE 0
<1>1. Unit \in Nat \ {0}
  BY BookAssumption
<1>2. CASE IsSplit(i)
  <2> DEFINE d == SplitTotal(i)
  <2>1. d \in Nat \ {0} /\ Unit % d = 0
    BY <1>2, SplitIs, Zenon
  <2>2. amount % d = 0
    BY <1>1, <2>1, DividesOn
  <2>3. amount = d * (amount \div d) /\ amount \div d \in Int
    BY <2>1, <2>2, Exactly
  <2>4. CASE t \in DOMAIN Splits(i)
    <3> DEFINE n == AbsOf(Splits(i)[t])
    <3>1. n \in Int
      <4>1. n \in Nat \ {0}
        BY <2>4, SplitIs, Zenon
      <4> QED BY <4>1
    <3>2. Weighted(i, t, amount) = (amount * n) \div d
      BY <1>2, <2>4 DEF Weighted
    <3> HIDE DEF n, d
    <3>3. (amount * n) \div d = n * (amount \div d)
      BY <2>1, <2>2, <3>1, ShareExact, Zenon
    <3>4. n * (amount \div d) = (amount \div d) * n /\ n * (amount \div d) \in Int
      BY <2>3, <3>1
    <3> QED BY <1>2, <2>3, <2>4, <3>2, <3>3, <3>4, Zenon DEF n, d
  <2>5. CASE t \notin DOMAIN Splits(i)
    <3>1. Weighted(i, t, amount) = 0
      BY <1>2, <2>5 DEF Weighted
    <3> QED BY <1>2, <2>3, <2>5, <3>1
  <2> QED BY <2>4, <2>5
<1>3. CASE ~IsSplit(i)
  BY <1>3 DEF Weighted
<1> QED BY <1>2, <1>3

\* The trades share out the whole of it, but for a fill of no trade.
OfNone(i) == ~IsSplit(i) /\ AttOf(i).whole = NoTrade
LEMMA WeightsAdd ==
    ASSUME ExecutionInv, NEW i, NEW T \in SUBSET Trades, IF IsSplit(i) THEN DOMAIN Splits(i) \subseteq T
                                                         ELSE AttOf(i).whole \in T \cup {NoTrade},
           NEW amount \in Int, amount % Unit = 0
    PROVE  Total([t \in T |-> Weighted(i, t, amount)], T) = IF OfNone(i) THEN 0 ELSE amount
<1> DEFINE f == [t \in T |-> Weighted(i, t, amount)]
<1>1. IsFiniteSet(T) /\ NoTrade \notin T
  BY SplitIs, FS_Subset, Zenon
<1>2. Numbers(f, T)
  BY WeightIs DEF Numbers
<1>3. CASE IsSplit(i)
  <2> DEFINE D == DOMAIN Splits(i)
             k == amount \div SplitTotal(i)
             g == [t \in D |-> AbsOf(Splits(i)[t])]
             h == [t \in D |-> k * g[t]]
  <2>1. /\ D \in SUBSET T /\ IsFiniteSet(D) /\ (\A t \in D : g[t] \in Int) /\ SplitTotal(i) = Total(g, D)
        /\ k \in Int /\ amount = SplitTotal(i) * k
    <3>1. \A t \in D : AbsOf(Splits(i)[t]) \in Int
      <4>1. \A t \in D : AbsOf(Splits(i)[t]) \in Nat \ {0}
        BY SplitIs, Zenon
      <4> QED BY <4>1
    <3> QED BY <1>3, <3>1, SplitIs, WeightIs, Zenon
  <2>2. \A t \in T : f[t] = IF t \in D THEN h[t] ELSE 0
    BY <1>3, WeightIs
  <2>3. Numbers(g, D) /\ Numbers(h, D)
    <3> HIDE DEF D, k, g
    <3> QED BY <2>1 DEF Numbers
  <2>4. \A t \in D : h[t] = k * g[t]
    OBVIOUS
  <2> HIDE DEF D, k, g, h, f
  <2>5. Total(f, T) = Total(h, D)
    BY <1>1, <1>2, <2>1, <2>2, <2>3, TotalWithin
  <2>6. Total(h, D) = k * Total(g, D) /\ Total(g, D) \in Int
    BY <2>1, <2>3, <2>4, TotalTimes, TotalStep, Zenon
  <2>7. k * Total(g, D) = amount
    BY <2>1, <2>6
  <2> QED BY <1>3, <2>5, <2>6, <2>7, Zenon DEF OfNone, f
<1>4. CASE ~IsSplit(i) /\ AttOf(i).whole = NoTrade
  <2> DEFINE z == [t \in {} |-> 0]
  <2>1. \A t \in T : f[t] = IF t \in {} THEN z[t] ELSE 0
    BY <1>1, <1>4, WeightIs
  <2>2. {} \in SUBSET T /\ Numbers(z, {})
    BY DEF Numbers
  <2> HIDE DEF z, f
  <2>3. Total(f, T) = Total(z, {})
    BY <1>1, <1>2, <2>1, <2>2, TotalWithin
  <2> QED BY <1>4, <2>3, TotalNone, Zenon DEF OfNone, f
<1>5. CASE ~IsSplit(i) /\ AttOf(i).whole # NoTrade
  <2> DEFINE a == AttOf(i).whole
             one == [t \in {a} |-> amount]
  <2>1. a \in T /\ {a} \in SUBSET T /\ Numbers(one, {a}) /\ one[a] = amount
    BY <1>5 DEF Numbers
  <2>2. \A t \in T : f[t] = IF t \in {a} THEN one[t] ELSE 0
    BY <1>5, WeightIs
  <2> HIDE DEF one, f, a
  <2>3. Total(f, T) = Total(one, {a})
    BY <1>1, <1>2, <2>1, <2>2, TotalWithin
  <2>4. Total(one, {a}) = amount
    BY <2>1, TotalOne
  <2> QED BY <1>5, <2>3, <2>4, Zenon DEF OfNone, f
<1> QED BY <1>3, <1>4, <1>5

-----------------------------------------------------------------------------
(* The readers of a trade's net.                                           *)

\* What is read, and that it is all there is of a small book.
LEMMA Reads ==
    ASSUME ExecutionInv, NEW since, NEW until, NEW t, NEW limit \in Nat
    PROVE  LET E == Executions("performance_book", since, until, t, limit)
               M == {i \in Final : InRange(i, since, until) /\ OfTrade(i, t)}
           IN /\ E \in SUBSET M /\ E \in SUBSET Final /\ Timed(E) \in SUBSET E /\ IsFiniteSet(Final)
              /\ Final \in SUBSET DOMAIN raw
              /\ Cardinality(Final) <= limit => E = M
<1> DEFINE M == {i \in Final : InRange(i, since, until) /\ OfTrade(i, t)}
           E == Executions("performance_book", since, until, t, limit)
<1>1. Final \in SUBSET DOMAIN raw
  BY DEF Final, FlexRows, JournalRows
<1>2. IsFiniteSet(Final) /\ IsFiniteSet(M)
  <2>1. IsFiniteSet(Final)
    BY <1>1, RowsAreFinite, FS_Subset
  <2> QED BY <2>1, FS_Subset
<1>3. Matching("performance_book", since, until, t) = M
  BY DEF Matching, View
<1>4. E \in SUBSET M /\ (Cardinality(M) <= limit => E = M)
  BY <1>3 DEF Executions
<1>5. ASSUME Cardinality(Final) <= limit PROVE Cardinality(M) <= limit
  <2>1. Cardinality(M) <= Cardinality(Final) /\ Cardinality(M) \in Nat /\ Cardinality(Final) \in Nat
    <3>1. M \subseteq Final
      OBVIOUS
    <3> HIDE DEF M
    <3> QED BY <1>2, <3>1, FS_Subset, FS_CardinalityType
  <2> HIDE DEF M
  <2> QED BY <1>5, <2>1
<1>6. Timed(E) \in SUBSET E
  BY DEF Timed
<1>7. E \in SUBSET Final
  <2>1. M \in SUBSET Final
    OBVIOUS
  <2> HIDE DEF M, E
  <2> QED BY <1>4, <2>1
<1> HIDE DEF M, E
<1> QED BY <1>1, <1>2, <1>4, <1>5, <1>6, <1>7, Zenon DEF M, E

\* What a fill brings a trade.
LEMMA NetIs ==
    ASSUME ExecutionInv, AmountsInv, NEW i \in DOMAIN raw
    PROVE  /\ Net(i) \in Int /\ Net(i) % Unit = 0 /\ raw[i].rp \in Int /\ raw[i].rp % Unit = 0
           /\ raw[i].comm \in Int /\ raw[i].comm % Unit = 0
<1>1. raw[i].rp \in Int /\ raw[i].comm \in Int /\ Unit \in Nat \ {0} /\ raw[i].rp % Unit = 0 /\ raw[i].comm % Unit = 0
  <2>1. raw[i].rp \in Int /\ raw[i].comm \in Nat /\ Unit \in Nat \ {0} /\ Whole(raw[i])
    BY RowIs
  <2> QED BY <2>1 DEF Whole
<1>2. (raw[i].rp - raw[i].comm) % Unit = 0
  <2>1. 0 \in Int
    OBVIOUS
  <2> QED BY <1>1, <2>1, DividesBoth
<1> QED BY <1>1, <1>2 DEF Net

LEMMA PartIs ==
    ASSUME ExecutionInv, NEW i, NEW t, NEW amount \in Int, amount % Unit = 0
    PROVE  Part(i, t, amount) \in Int /\ (t # NoTrade => Part(i, t, amount) = Weighted(i, t, amount))
BY WeightIs DEF Part

LEMMA NetOfIs ==
    ASSUME ExecutionInv, AmountsInv, NEW S \in SUBSET DOMAIN raw, NEW t
    PROVE  LET f == [i \in S |-> Part(i, t, Net(i))] IN
           NetOf(S, t) = Total(f, S) /\ Numbers(f, S) /\ IsFiniteSet(S) /\ NetOf(S, t) \in Int
<1> DEFINE f == [i \in S |-> Part(i, t, Net(i))]
<1>1. IsFiniteSet(S)
  BY RowsAreFinite, FS_Subset
<1>2. \A i \in S : f[i] \in Int
  BY NetIs, PartIs
<1>3. Numbers(f, S)
  BY <1>2 DEF Numbers
<1>4. NetOf(S, t) = SumFunction(f) /\ S = DOMAIN f
  BY DEF NetOf
<1> HIDE DEF f
<1>5. NetOf(S, t) = Total(f, S)
  BY <1>4, SumIs
<1> QED BY <1>1, <1>3, <1>5, TotalStep, Zenon DEF f

\* A breakdown's rows add up.
LEMMA RowsAdd ==
    ASSUME ExecutionInv, AmountsInv, NEW key, NEW S \in SUBSET DOMAIN raw, S = DOMAIN key, NEW t
    PROVE  LET rows == Rows(key, t) IN SumFunction([k \in DOMAIN rows |-> rows[k].net]) = NetOf(S, t)
<1> DEFINE rows == Rows(key, t)
           K == DOMAIN rows
           parts == [k \in K |-> rows[k].net]
           f == [i \in S |-> Part(i, t, Net(i))]
           in(k) == {i \in S : key[i] = k}
<1>1. K = {key[i] : i \in S} /\ \A k \in K : rows[k].net = NetOf(in(k), t)
  BY DEF Rows, Range
<1>2. NetOf(S, t) = Total(f, S) /\ Numbers(f, S) /\ IsFiniteSet(S)
  BY NetOfIs
<1>3. IsFiniteSet(K) /\ \A i \in S : key[i] \in K
  <2>1. IsFiniteSet({key[i] : i \in S})
    BY <1>2, ImageFinite
  <2> HIDE DEF K
  <2> QED BY <1>1, <2>1
<1>4. ASSUME NEW k \in K PROVE parts[k] = Total(f, in(k))
  <2> DEFINE g == [i \in in(k) |-> Part(i, t, Net(i))]
  <2>1. in(k) \in SUBSET DOMAIN raw /\ in(k) \in SUBSET S
    OBVIOUS
  <2>2. NetOf(in(k), t) = Total(g, in(k)) /\ IsFiniteSet(in(k))
    <3> HIDE DEF in
    <3> QED BY <2>1, NetOfIs
  <2>3. Numbers(f, in(k)) /\ \A i \in in(k) : g[i] = f[i]
    <3>1. \A i \in in(k) : f[i] \in Int
      BY <1>2 DEF Numbers
    <3> QED BY <3>1 DEF Numbers
  <2>4. parts[k] = NetOf(in(k), t)
    BY <1>1
  <2> HIDE DEF in, f, g, parts
  <2>5. Total(g, in(k)) = Total(f, in(k))
    BY <2>2, <2>3, TotalSame
  <2> QED BY <2>2, <2>4, <2>5, Zenon
<1>5. PartsOf(key, f, S, K, parts)
  <2> HIDE DEF parts, f, K
  <2> QED BY <1>4, Zenon DEF PartsOf
<1>6. SumFunction(parts) = Total(parts, K)
  <2>1. K = DOMAIN parts
    OBVIOUS
  <2> HIDE DEF parts, K
  <2> QED BY <2>1, SumIs
<1> HIDE DEF parts, f, K
<1>7. Total(parts, K) = Total(f, S)
  BY <1>2, <1>3, <1>5, TotalByKey
<1>8. SumFunction(parts) = NetOf(S, t)
  BY <1>2, <1>6, <1>7, Zenon
<1> QED BY <1>8, Zenon DEF parts, K

\* The trades that fills name, and what one of them gets of their net.
TradesIn(S) == UNION {IF IsSplit(i) THEN DOMAIN Splits(i) ELSE {AttOf(i).whole} \ {NoTrade} : i \in S}
ShareOf(S, t) == SumFunction([i \in S |-> Weighted(i, t, Net(i))])

LEMMA ShareIs ==
    ASSUME ExecutionInv, AmountsInv, NEW S \in SUBSET DOMAIN raw, NEW t
    PROVE  LET f == [i \in S |-> Weighted(i, t, Net(i))] IN
           /\ ShareOf(S, t) = Total(f, S) /\ Numbers(f, S) /\ IsFiniteSet(S) /\ ShareOf(S, t) \in Int
           /\ t # NoTrade => ShareOf(S, t) = NetOf(S, t)
<1> DEFINE f == [i \in S |-> Weighted(i, t, Net(i))]
<1>1. IsFiniteSet(S)
  BY RowsAreFinite, FS_Subset
<1>2. \A i \in S : f[i] \in Int
  BY NetIs, WeightIs
<1>3. Numbers(f, S)
  BY <1>2 DEF Numbers
<1>4. ShareOf(S, t) = SumFunction(f) /\ S = DOMAIN f
  BY DEF ShareOf
<1>5. ASSUME t # NoTrade PROVE NetOf(S, t) = SumFunction(f)
  <2> DEFINE g == [i \in S |-> Part(i, t, Net(i))]
  <2>1. f = g
    <3>1. \A i \in S : Part(i, t, Net(i)) = Weighted(i, t, Net(i))
      BY <1>5, NetIs, PartIs
    <3> QED BY <3>1
  <2> QED BY <2>1 DEF NetOf
<1> HIDE DEF f
<1>6. ShareOf(S, t) = Total(f, S)
  BY <1>4, SumIs
<1>7. Total(f, S) \in Int
  BY <1>1, <1>3, TotalStep, Zenon
<1> QED BY <1>1, <1>3, <1>4, <1>5, <1>6, <1>7, Zenon DEF f

LEMMA NamedTrades ==
    ASSUME ExecutionInv, NEW S, IsFiniteSet(S)
    PROVE  /\ TradesIn(S) \in SUBSET Trades /\ IsFiniteSet(TradesIn(S))
           /\ \A i \in S : IF IsSplit(i) THEN DOMAIN Splits(i) \subseteq TradesIn(S)
                           ELSE AttOf(i).whole \in TradesIn(S) \cup {NoTrade}
<1>1. \A i \in S : DOMAIN Splits(i) \in SUBSET Trades /\ AttOf(i).whole \in Trades \cup {NoTrade}
  BY SplitIs, Zenon
<1>2. TradesIn(S) \in SUBSET Trades
  BY <1>1 DEF TradesIn
<1>3. IsFiniteSet(TradesIn(S))
  BY <1>2, BookAssumption, FS_Subset
<1>4. \A i \in S : IF IsSplit(i) THEN DOMAIN Splits(i) \subseteq TradesIn(S)
                           ELSE AttOf(i).whole \in TradesIn(S) \cup {NoTrade}
  BY <1>1 DEF TradesIn
<1> QED BY <1>2, <1>3, <1>4

\* What the trades get and the fills of none is all there is.
LEMMA SharesAdd ==
    ASSUME ExecutionInv, AmountsInv, NEW S \in SUBSET DOMAIN raw
    PROVE  NetOf(S, NoTrade) = SumFunction([t \in TradesIn(S) |-> ShareOf(S, t)])
               + SumFunction([i \in {j \in S : OfNone(j)} |-> Net(i)])
<1> DEFINE A == TradesIn(S)
           R == {j \in S : OfNone(j)}
           f == [i \in S |-> Part(i, NoTrade, Net(i))]
           M == [i \in S |-> [t \in A |-> Weighted(i, t, Net(i))]]
           rows == [i \in S |-> IF OfNone(i) THEN 0 ELSE Net(i)]
           columns == [t \in A |-> ShareOf(S, t)]
           none == [i \in R |-> Net(i)]
           out == [i \in S |-> IF i \in R THEN none[i] ELSE 0]
<1>1. NetOf(S, NoTrade) = Total(f, S) /\ Numbers(f, S) /\ IsFiniteSet(S)
  BY NetOfIs
<1>2. /\ A \in SUBSET Trades /\ IsFiniteSet(A)
      /\ \A i \in S : IF IsSplit(i) THEN DOMAIN Splits(i) \subseteq A ELSE AttOf(i).whole \in A \cup {NoTrade}
  BY <1>1, NamedTrades, Zenon
<1>3. \A i \in S : Net(i) \in Int /\ Net(i) % Unit = 0
  BY NetIs
<1>4. \A i \in S, t \in A : Weighted(i, t, Net(i)) \in Int
  BY <1>3, WeightIs
<1>5. Cells(M, S, A)
  BY <1>4 DEF Cells
<1>6. \A i \in S : rows[i] = Total(M[i], A)
  <2> HIDE DEF A
  <2>1. ASSUME NEW i \in S PROVE rows[i] = Total(M[i], A)
    <3>1. Total([t \in A |-> Weighted(i, t, Net(i))], A) = IF OfNone(i) THEN 0 ELSE Net(i)
      BY <1>2, <1>3, WeightsAdd
    <3> QED BY <3>1
  <2> QED BY <2>1
<1>7. \A t \in A : columns[t] = Total([i \in S |-> M[i][t]], S)
  <2> HIDE DEF A
  <2>1. ASSUME NEW t \in A PROVE columns[t] = Total([i \in S |-> M[i][t]], S)
    <3>1. ShareOf(S, t) = Total([i \in S |-> Weighted(i, t, Net(i))], S)
      BY ShareIs
    <3>2. [i \in S |-> Weighted(i, t, Net(i))] = [i \in S |-> M[i][t]]
      OBVIOUS
    <3> QED BY <3>1, <3>2, Zenon
  <2> QED BY <2>1
<1>8. ByRows(M, S, A, rows) /\ ByColumns(M, S, A, columns)
  <2> HIDE DEF M, A, rows, columns
  <2> QED BY <1>6, <1>7, Zenon DEF ByRows, ByColumns
<1>9. /\ Numbers(rows, S) /\ Numbers(out, S) /\ Numbers(none, R) /\ R \in SUBSET S
      /\ \A i \in S : out[i] = IF i \in R THEN none[i] ELSE 0
  BY <1>3 DEF Numbers
<1>10. \A i \in S : f[i] = rows[i] + out[i]
  <2>1. \A i \in S : f[i] = Net(i)
    BY DEF Part
  <2> QED BY <1>3, <2>1
<1>11. SumFunction(columns) = Total(columns, A) /\ SumFunction(none) = Total(none, R)
  <2>1. A = DOMAIN columns /\ R = DOMAIN none
    OBVIOUS
  <2> HIDE DEF columns, none, A, R
  <2> QED BY <2>1, SumIs
<1> HIDE DEF f, M, rows, columns, none, out, A, R
<1>12. Total(f, S) = Total(rows, S) + Total(out, S)
  BY <1>1, <1>9, <1>10, TotalAdds
<1>13. Total(columns, A) = Total(rows, S)
  BY <1>1, <1>2, <1>5, <1>8, TotalBothWays
<1>14. Total(out, S) = Total(none, R)
  BY <1>1, <1>9, TotalWithin
<1>15. NetOf(S, NoTrade) = SumFunction(columns) + SumFunction(none)
  BY <1>1, <1>11, <1>12, <1>13, <1>14, Zenon
<1> QED BY <1>15, Zenon DEF columns, none, A, R

\* A breakdown adds up, and so do the days of the calendar with the options.
RowsTotal(rows) == SumFunction([k \in DOMAIN rows |-> rows[k].net])
StatsAddUp(stats) ==
    /\ \A name \in {"accounts", "types", "both", "days"} : RowsTotal(stats[name]) = stats.summary.net
    /\ stats.summary.net = RowsTotal(stats.typeDays)
          + IF "OPT" \in DOMAIN stats.types THEN stats.types["OPT"].net ELSE 0

\* Two parts that make up a set and share nothing.
Halves(S, A, B) == A \cup B = S /\ A \cap B = {}

LEMMA NetSplits ==
    ASSUME ExecutionInv, AmountsInv, NEW S \in SUBSET DOMAIN raw, NEW t, NEW A, NEW B, Halves(S, A, B)
    PROVE  NetOf(S, t) = NetOf(A, t) + NetOf(B, t) /\ NetOf(A, t) \in Int /\ NetOf(B, t) \in Int
<1> DEFINE f == [i \in S |-> Part(i, t, Net(i))]
           g == [i \in A |-> Part(i, t, Net(i))]
           h == [i \in B |-> Part(i, t, Net(i))]
<1>1. A \in SUBSET DOMAIN raw /\ B \in SUBSET DOMAIN raw /\ A \cup B = S /\ A \cap B = {}
  BY DEF Halves
<1>2. NetOf(S, t) = Total(f, S) /\ Numbers(f, S) /\ IsFiniteSet(S)
  BY NetOfIs
<1>3. NetOf(A, t) = Total(g, A) /\ Numbers(g, A) /\ IsFiniteSet(A) /\ NetOf(A, t) \in Int
  BY <1>1, NetOfIs
<1>4. NetOf(B, t) = Total(h, B) /\ Numbers(h, B) /\ IsFiniteSet(B) /\ NetOf(B, t) \in Int
  BY <1>1, NetOfIs
<1>5. (\A x \in A : g[x] = f[x]) /\ (\A x \in B : h[x] = f[x]) /\ Numbers(f, A) /\ Numbers(f, B)
  <2>1. \A x \in S : f[x] \in Int
    BY <1>2 DEF Numbers
  <2> QED BY <1>1, <2>1 DEF Numbers
<1> HIDE DEF f, g, h
<1>6. Total(f, S) = Total(f, A) + Total(f, B)
  BY <1>1, <1>2, TotalSplits
<1>7. Total(g, A) = Total(f, A) /\ Total(h, B) = Total(f, B)
  BY <1>3, <1>4, <1>5, TotalSame
<1> QED BY <1>2, <1>3, <1>4, <1>6, <1>7, Zenon

LEMMA NetOfNone ==
    ASSUME ExecutionInv, AmountsInv, NEW t
    PROVE  NetOf({}, t) = 0
<1> DEFINE f == [i \in {} |-> Part(i, t, Net(i))]
<1>1. NetOf({}, t) = Total(f, {})
  <2>1. {} \in SUBSET DOMAIN raw
    OBVIOUS
  <2> QED BY <2>1, NetOfIs, Zenon
<1> HIDE DEF f
<1> QED BY <1>1, TotalNone, Zenon

LEMMA StatsAdd ==
    ASSUME ExecutionInv, AmountsInv, NEW since, NEW until, NEW t
    PROVE  StatsAddUp(Stats(since, until, t))
<1> DEFINE S == StatsFills(since, until, t)
           stats == Stats(since, until, t)
           byAccount == [i \in S |-> raw[i].acct]
           byType == [i \in S |-> raw[i].sec]
           byBoth == [i \in S |-> <<raw[i].acct, raw[i].sec>>]
           byDay == [i \in S |-> UtcDay(raw[i].time)]
           rest == {j \in S : raw[j].sec # "OPT"}
           options == {j \in S : raw[j].sec = "OPT"}
           byTypeDay == [i \in rest |-> <<UtcDay(raw[i].time), raw[i].sec>>]
<1>1. S \in SUBSET DOMAIN raw
  <2>1. StatsLimit \in Nat
    BY LimitAssumption
  <2> QED BY <2>1, Reads DEF StatsFills
<1>2. /\ stats.summary.net = NetOf(S, t)
      /\ stats["accounts"] = Rows(byAccount, t) /\ stats["types"] = Rows(byType, t) /\ stats.types = Rows(byType, t)
      /\ stats["both"] = Rows(byBoth, t) /\ stats["days"] = Rows(byDay, t) /\ stats.typeDays = Rows(byTypeDay, t)
  BY DEF Stats, TypeDays, Row
<1>3. S = DOMAIN byAccount /\ S = DOMAIN byType /\ S = DOMAIN byBoth /\ S = DOMAIN byDay /\ rest = DOMAIN byTypeDay
  OBVIOUS
<1>4. /\ rest \in SUBSET DOMAIN raw /\ options \cup rest = S /\ options \cap rest = {}
  BY <1>1
<1>5. options = {i \in S : byType[i] = "OPT"}
  OBVIOUS
<1>6. IF "OPT" \in DOMAIN Rows(byType, t) THEN Rows(byType, t)["OPT"].net = NetOf(options, t) ELSE options = {}
  <2>1. DOMAIN Rows(byType, t) = {byType[i] : i \in S}
    BY <1>3 DEF Rows, Range
  <2>2. CASE "OPT" \in DOMAIN Rows(byType, t)
    BY <2>1, <2>2, <1>5, Zenon DEF Rows, Range
  <2>3. CASE "OPT" \notin DOMAIN Rows(byType, t)
    BY <2>1, <2>3
  <2> QED BY <2>2, <2>3
<1> HIDE DEF S, stats, byAccount, byType, byBoth, byDay, rest, options, byTypeDay
<1>7. /\ RowsTotal(Rows(byAccount, t)) = NetOf(S, t) /\ RowsTotal(Rows(byType, t)) = NetOf(S, t)
      /\ RowsTotal(Rows(byBoth, t)) = NetOf(S, t) /\ RowsTotal(Rows(byDay, t)) = NetOf(S, t)
      /\ RowsTotal(Rows(byTypeDay, t)) = NetOf(rest, t)
  <2>1. ASSUME NEW key, NEW T \in SUBSET DOMAIN raw, T = DOMAIN key PROVE RowsTotal(Rows(key, t)) = NetOf(T, t)
    BY <2>1, RowsAdd DEF RowsTotal
  <2> QED BY <1>1, <1>3, <1>4, <2>1, Zenon
<1>8. NetOf(S, t) = NetOf(options, t) + NetOf(rest, t) /\ NetOf(options, t) \in Int /\ NetOf(rest, t) \in Int
  <2>1. Halves(S, options, rest)
    BY <1>4 DEF Halves
  <2> QED BY <1>1, <2>1, NetSplits, Zenon
<1>9. NetOf(S, t) = NetOf(rest, t) + IF "OPT" \in DOMAIN Rows(byType, t) THEN Rows(byType, t)["OPT"].net ELSE 0
  <2>1. CASE "OPT" \in DOMAIN Rows(byType, t)
    BY <1>6, <1>8, <2>1
  <2>2. CASE "OPT" \notin DOMAIN Rows(byType, t)
    <3>1. NetOf(options, t) = 0
      BY <1>6, <2>2, NetOfNone
    <3> QED BY <1>8, <2>2, <3>1
  <2> QED BY <2>1, <2>2
<1>10. \A name \in {"accounts", "types", "both", "days"} : RowsTotal(stats[name]) = stats.summary.net
  BY <1>2, <1>7
<1>11. stats.summary.net = RowsTotal(stats.typeDays)
          + IF "OPT" \in DOMAIN stats.types THEN stats.types["OPT"].net ELSE 0
  BY <1>2, <1>7, <1>9, Zenon
<1> QED BY <1>10, <1>11, Zenon DEF StatsAddUp, stats

\* A fill that does not name a trade brings it nothing, in any of its rows' columns.
Names(i, t) == IF IsSplit(i) THEN t \in DOMAIN Splits(i) ELSE AttOf(i).whole = t

LEMMA NamesOnly ==
    ASSUME ExecutionInv, AmountsInv, NEW i \in DOMAIN raw, NEW t \in Trades, ~Names(i, t)
    PROVE  /\ Part(i, t, Net(i)) = 0 /\ Part(i, t, raw[i].rp) = 0
           /\ t \notin IF IsSplit(i) THEN DOMAIN Splits(i) ELSE {AttOf(i).whole} \ {NoTrade}
<1>1. t # NoTrade
  BY BookAssumption
<1>2. Net(i) \in Int /\ Net(i) % Unit = 0 /\ raw[i].rp \in Int /\ raw[i].rp % Unit = 0
  BY NetIs
<1>3. Weighted(i, t, Net(i)) = 0 /\ Weighted(i, t, raw[i].rp) = 0
  BY DEF Names, Weighted
<1> QED BY <1>1, <1>2, <1>3, PartIs DEF Names

LEMMA RowWithin ==
    ASSUME ExecutionInv, AmountsInv, NEW S \in SUBSET DOMAIN raw, NEW R \in SUBSET S, NEW t \in Trades,
           \A i \in S \ R : ~Names(i, t)
    PROVE  /\ NetOf(S, t) = NetOf(R, t)
           /\ [Row(S, t) EXCEPT !.fills = 0] = [Row(R, t) EXCEPT !.fills = 0]
<1> DEFINE f == [i \in S |-> Part(i, t, Net(i))]
           g == [i \in R |-> Part(i, t, Net(i))]
<1>1. R \in SUBSET DOMAIN raw /\ \A i \in S \ R : Part(i, t, Net(i)) = 0 /\ Part(i, t, raw[i].rp) = 0
  BY NamesOnly
<1>2. NetOf(S, t) = Total(f, S) /\ Numbers(f, S) /\ IsFiniteSet(S)
  BY NetOfIs
<1>3. NetOf(R, t) = Total(g, R) /\ Numbers(g, R)
  BY <1>1, NetOfIs
<1>4. \A i \in S : f[i] = IF i \in R THEN g[i] ELSE 0
  BY <1>1
<1>5. NetOf(S, t) = NetOf(R, t)
  <2> HIDE DEF f, g
  <2> QED BY <1>2, <1>3, <1>4, TotalWithin
<1>6. /\ {i \in S : Part(i, t, raw[i].rp) > 0} = {i \in R : Part(i, t, raw[i].rp) > 0}
      /\ {i \in S : Part(i, t, raw[i].rp) < 0} = {i \in R : Part(i, t, raw[i].rp) < 0}
  <2>1. \A i \in S : i \in R \/ Part(i, t, raw[i].rp) = 0
    BY <1>1
  <2> QED BY <2>1
<1>7. [Row(S, t) EXCEPT !.fills = 0] = [Row(R, t) EXCEPT !.fills = 0]
  <2> DEFINE part(i) == Part(i, t, raw[i].rp)
             won(Q) == {i \in Q : part(i) > 0}
             lost(Q) == {i \in Q : part(i) < 0}
             gain(W) == SumFunction([i \in W |-> part(i)])
             row(Q, n) == [net |-> NetOf(Q, t), fills |-> n, wins |-> Cardinality(won(Q)),
                           losses |-> Cardinality(lost(Q)), gain |-> gain(won(Q)), loss |-> gain(lost(Q))]
  <2>1. Row(S, t) = row(S, Cardinality(S)) /\ Row(R, t) = row(R, Cardinality(R))
    BY Zenon DEF Row
  <2>2. won(S) = won(R) /\ lost(S) = lost(R)
    BY <1>6
  <2> HIDE DEF won, lost, gain
  <2>3. \A n : [row(S, n) EXCEPT !.fills = 0] = row(S, 0) /\ [row(R, n) EXCEPT !.fills = 0] = row(R, 0)
    OBVIOUS
  <2>4. row(S, 0) = row(R, 0)
    BY <1>5, <2>2
  <2> QED BY <2>1, <2>3, <2>4, Zenon
<1> QED BY <1>5, <1>7

\* The fills of a trade that its statistics read.
LEMMA SmallReads ==
    ASSUME ExecutionInv, Cardinality(Final) <= StatsLimit, NEW since, NEW until, NEW t \in Trades
    PROVE  LET S == StatsFills(since, until, NoTrade)
               T == StatsFills(since, until, t)
               E == Executions("performance_book", since, until, t, SummaryLimit)
           IN /\ S \in SUBSET DOMAIN raw /\ T \in SUBSET S
              /\ \A i \in S \ T : ~Names(i, t)
              /\ Timed(Final) = Final => E = T
<1> DEFINE S == StatsFills(since, until, NoTrade)
           T == StatsFills(since, until, t)
           E == Executions("performance_book", since, until, t, SummaryLimit)
           M(u) == {i \in Final : InRange(i, since, until) /\ OfTrade(i, u)}
           X(u, n) == Executions("performance_book", since, until, u, n)
<1>1. StatsLimit \in Nat /\ SummaryLimit \in Nat /\ StatsLimit <= SummaryLimit
  BY LimitAssumption
<1>2. IsFiniteSet(Final) /\ Final \in SUBSET DOMAIN raw
  BY <1>1, Reads
<1>3. Cardinality(Final) <= SummaryLimit
  BY <1>1, <1>2, FS_CardinalityType
<1>4. X(NoTrade, StatsLimit) = M(NoTrade) /\ X(t, StatsLimit) = M(t) /\ X(t, SummaryLimit) = M(t)
  BY <1>1, <1>3, Reads
<1>5. S = Timed(M(NoTrade)) /\ T = Timed(M(t)) /\ E = M(t)
  BY <1>4, Zenon DEF StatsFills
<1>6. S \in SUBSET DOMAIN raw /\ T \in SUBSET S
  BY <1>2, <1>5 DEF Timed, OfTrade
<1>7. ASSUME NEW i \in S \ T PROVE ~Names(i, t)
  <2>1. ~OfTrade(i, t)
    BY <1>5 DEF Timed
  <2> QED BY <2>1 DEF OfTrade, Names
<1>8. ASSUME Timed(Final) = Final PROVE E = T
  BY <1>5, <1>8 DEF Timed
<1> QED BY <1>6, <1>7, <1>8

\* What the readers say of one trade.
TradeAgrees(since, until, t) ==
    LET own == Stats(since, until, t)
        net == own.summary.net
        rows == ByTrade(since, until, NoTrade)
        alone == TradeSummary(since, until, t)
    IN /\ net = IF t \in DOMAIN rows THEN rows[t] ELSE 0
       /\ net = SumFunction(ByTrade(since, until, t))
       /\ StatsAddUp(own)
       /\ Timed(Final) = Final => [alone EXCEPT !.fills = 0] = [own.summary EXCEPT !.fills = 0]

LEMMA NotNamed ==
    ASSUME ExecutionInv, AmountsInv, NEW S \in SUBSET DOMAIN raw, NEW t \in Trades \ TradesIn(S)
    PROVE  NetOf(S, t) = 0
<1>1. \A i \in S : ~Names(i, t)
  <2>1. t # NoTrade
    BY BookAssumption
  <2> QED BY <2>1 DEF TradesIn, Names
<1>2. NetOf(S, t) = NetOf({}, t)
  <2> DEFINE R == {}
  <2>1. R \in SUBSET S /\ t \in Trades /\ \A i \in S \ R : ~Names(i, t)
    BY <1>1
  <2> HIDE DEF R
  <2>2. NetOf(S, t) = NetOf(R, t)
    BY <2>1, RowWithin, ZenonT(30)
  <2> QED BY <2>2 DEF R
<1> QED BY <1>2, NetOfNone

LEMMA OneTrade ==
    ASSUME ExecutionInv, AmountsInv, Cardinality(Final) <= StatsLimit, NEW since, NEW until, NEW t \in Trades
    PROVE  TradeAgrees(since, until, t)
<1> DEFINE S == StatsFills(since, until, NoTrade)
           T == StatsFills(since, until, t)
           E == Executions("performance_book", since, until, t, SummaryLimit)
           rows == ByTrade(since, until, NoTrade)
           mine == ByTrade(since, until, t)
           named == {i \in E : IF IsSplit(i) THEN t \in DOMAIN Splits(i) ELSE AttOf(i).whole = t}
<1>1. /\ S \in SUBSET DOMAIN raw /\ T \in SUBSET S /\ \A i \in S \ T : ~Names(i, t)
      /\ Timed(Final) = Final => E = T
  BY SmallReads
<1>2. t # NoTrade
  BY BookAssumption
<1>3. T \in SUBSET DOMAIN raw
  BY <1>1
<1>4. Stats(since, until, t).summary = Row(T, t) /\ Row(T, t).net = NetOf(T, t)
  BY DEF Stats, Row
<1>5. rows = [u \in TradesIn(S) |-> ShareOf(S, u)] /\ mine = [u \in TradesIn(T) \cap {t} |-> ShareOf(T, u)]
  <2>1. rows = [u \in {x \in TradesIn(S) : NoTrade = NoTrade \/ x = NoTrade} |-> ShareOf(S, u)]
    BY Zenon DEF ByTrade, TradesIn, ShareOf
  <2>2. mine = [u \in {x \in TradesIn(T) : t = NoTrade \/ x = t} |-> ShareOf(T, u)]
    BY Zenon DEF ByTrade, TradesIn, ShareOf
  <2>3. /\ {x \in TradesIn(S) : NoTrade = NoTrade \/ x = NoTrade} = TradesIn(S)
        /\ {x \in TradesIn(T) : t = NoTrade \/ x = t} = TradesIn(T) \cap {t}
    BY <1>2
  <2> QED BY <2>1, <2>2, <2>3, Zenon
<1>6. NetOf(S, t) = NetOf(T, t)
  BY <1>1, RowWithin, Zenon
<1>7. ShareOf(S, t) = NetOf(S, t) /\ ShareOf(T, t) = NetOf(T, t)
  BY <1>1, <1>2, <1>3, ShareIs, Zenon
<1> HIDE DEF rows, mine
<1>8. NetOf(T, t) = IF t \in DOMAIN rows THEN rows[t] ELSE 0
  <2>1. CASE t \in TradesIn(S)
    BY <1>5, <1>6, <1>7, <2>1
  <2>2. CASE t \notin TradesIn(S)
    <3>1. NetOf(S, t) = 0
      BY <1>1, <2>2, NotNamed
    <3> QED BY <1>5, <1>6, <2>2, <3>1
  <2> QED BY <2>1, <2>2
<1>9. NetOf(T, t) = SumFunction(mine)
  <2>1. SumFunction(mine) = Total(mine, DOMAIN mine)
    BY SumIs
  <2>2. CASE t \in TradesIn(T)
    <3>1. DOMAIN mine = {t} /\ mine[t] = ShareOf(T, t)
      BY <1>5, <2>2
    <3>2. ShareOf(T, t) \in Int
      BY <1>3, ShareIs, Zenon
    <3>3. Total(mine, {t}) = mine[t]
      BY <3>1, <3>2, TotalOne, Zenon
    <3> QED BY <1>7, <2>1, <3>1, <3>3, Zenon
  <2>3. CASE t \notin TradesIn(T)
    <3>1. DOMAIN mine = {}
      BY <1>5, <2>3
    <3>2. NetOf(T, t) = 0
      BY <1>3, <2>3, NotNamed
    <3> QED BY <2>1, <3>1, <3>2, TotalNone, Zenon
  <2> QED BY <2>2, <2>3
<1>10. StatsAddUp(Stats(since, until, t))
  BY StatsAdd
<1>11. ASSUME Timed(Final) = Final
       PROVE  [TradeSummary(since, until, t) EXCEPT !.fills = 0] = [Row(T, t) EXCEPT !.fills = 0]
  <2>1. TradeSummary(since, until, t) = Row(named, t)
    BY Zenon DEF TradeSummary
  <2>2. named \in SUBSET T /\ \A i \in T \ named : ~Names(i, t)
    BY <1>1, <1>11 DEF Names
  <2> HIDE DEF named, T
  <2>3. [Row(T, t) EXCEPT !.fills = 0] = [Row(named, t) EXCEPT !.fills = 0]
    BY <1>3, <2>2, RowWithin, Zenon
  <2> QED BY <2>1, <2>3, Zenon
<1> HIDE DEF T
<1> QED BY <1>4, <1>8, <1>9, <1>10, <1>11, Zenon DEF TradeAgrees, rows, mine

\* The readers of a trade's net agree and the book is the sum of its parts, however its
\* fills are attributed, split, corrected and deleted (executions.get_performance_stats,
\* get_performance_instance_summary_only).
THEOREM PerformanceAddsUp == SharedSpec => []TradesAddUp
<1>1. ASSUME ExecutionInv, AmountsInv PROVE TradesAddUp
  <2>1. ASSUME NEW b
        PROVE  LET S == StatsFills(b[1], b[2], NoTrade)
                   none == {i \in S : ~IsSplit(i) /\ AttOf(i).whole = NoTrade}
               IN Stats(b[1], b[2], NoTrade).summary.net
                      = SumFunction(ByTrade(b[1], b[2], NoTrade)) + SumFunction([i \in none |-> Net(i)])
    <3> DEFINE S == StatsFills(b[1], b[2], NoTrade)
    <3>1. S \in SUBSET DOMAIN raw
      <4>1. StatsLimit \in Nat
        BY LimitAssumption
      <4> QED BY <1>1, <4>1, Reads DEF StatsFills
    <3>2. Stats(b[1], b[2], NoTrade).summary.net = NetOf(S, NoTrade)
      BY DEF Stats, Row
    <3>3. ByTrade(b[1], b[2], NoTrade) = [u \in TradesIn(S) |-> ShareOf(S, u)]
      <4>1. ByTrade(b[1], b[2], NoTrade)
                = [u \in {x \in TradesIn(S) : NoTrade = NoTrade \/ x = NoTrade} |-> ShareOf(S, u)]
        BY Zenon DEF ByTrade, TradesIn, ShareOf
      <4>2. {x \in TradesIn(S) : NoTrade = NoTrade \/ x = NoTrade} = TradesIn(S)
        OBVIOUS
      <4> QED BY <4>1, <4>2, Zenon
    <3> HIDE DEF S
    <3>4. NetOf(S, NoTrade) = SumFunction([u \in TradesIn(S) |-> ShareOf(S, u)])
              + SumFunction([i \in {j \in S : OfNone(j)} |-> Net(i)])
      BY <1>1, <3>1, SharesAdd
    <3> QED BY <3>2, <3>3, <3>4, Zenon DEF S, OfNone
  <2>2. \A b : StatsAddUp(Stats(b[1], b[2], NoTrade))
    BY <1>1, StatsAdd, Zenon
  <2>3. Cardinality(Final) <= StatsLimit => \A b : \A t \in Trades : TradeAgrees(b[1], b[2], t)
    BY <1>1, OneTrade, Zenon
  <2> QED BY <2>1, <2>2, <2>3, Zenon DEF TradesAddUp, TradeAgrees, StatsAddUp, RowsTotal
<1> QED BY <1>1, AmountsInvariant, PTL

-----------------------------------------------------------------------------
(* The pairs of a range.                                                   *)

\* Some legs of each group stand together: those before them are as many of each side.
Shifted(R, S, n) == \A i \in R : Start(i, S) = Start(i, R) + n
LEMMA ShiftedPairs ==
    ASSUME NEW S, Legs(S), NEW R \in SUBSET S, NEW n \in Int, Shifted(R, S, n), NEW o \in R, NEW c \in R
    PROVE  (Meet(o, c, S) <=> Meet(o, c, R)) /\ PairOf(o, c, S) = PairOf(o, c, R)
<1>1. Legs(R)
  BY SomeLegs
<1>2. \A i \in R : /\ Start(i, S) \in Nat /\ Start(i, R) \in Nat /\ Start(i, S) = Start(i, R) + n
                   /\ End(i, S) = Start(i, S) + raw[i].qty /\ End(i, R) = Start(i, R) + raw[i].qty
                   /\ raw[i].qty \in Nat
  BY <1>1, LegsPlaced DEF Placed, Legs, Shifted
<1>3. Low(o, c, S) = Low(o, c, R) + n /\ High(o, c, S) = High(o, c, R) + n /\ Low(o, c, R) \in Int /\ High(o, c, R) \in Int
  <2> DEFINE a == Start(o, S)
             b == Start(c, S)
             d == Start(o, R)
             e == Start(c, R)
  <2>1. /\ a \in Nat /\ b \in Nat /\ d \in Nat /\ e \in Nat /\ a = d + n /\ b = e + n
        /\ End(o, S) = a + raw[o].qty /\ End(c, S) = b + raw[c].qty /\ End(o, R) = d + raw[o].qty
        /\ End(c, R) = e + raw[c].qty /\ raw[o].qty \in Nat /\ raw[c].qty \in Nat
    BY <1>2
  <2> HIDE DEF a, b, d, e
  <2>2. (a >= b <=> d >= e) /\ (a + raw[o].qty <= b + raw[c].qty <=> d + raw[o].qty <= e + raw[c].qty)
    BY <2>1
  <2>3. Low(o, c, S) = IF a >= b THEN a ELSE b
    BY DEF Low, a, b
  <2>4. Low(o, c, R) = IF d >= e THEN d ELSE e
    BY DEF Low, d, e
  <2>5. High(o, c, S) = IF a + raw[o].qty <= b + raw[c].qty THEN a + raw[o].qty ELSE b + raw[c].qty
    BY <2>1 DEF High
  <2>6. High(o, c, R) = IF d + raw[o].qty <= e + raw[c].qty THEN d + raw[o].qty ELSE e + raw[c].qty
    BY <2>1 DEF High
  <2> QED BY <2>1, <2>2, <2>3, <2>4, <2>5, <2>6, SMT
<1>4. (Low(o, c, S) < High(o, c, S) <=> Low(o, c, R) < High(o, c, R))
      /\ High(o, c, S) - Low(o, c, S) = High(o, c, R) - Low(o, c, R)
  BY <1>3, SMT
<1> QED BY <1>4, Zenon DEF Meet, PairOf

Together(R, S) ==
    \A i \in R : raw[i].sec = "OPT" =>
        \E n \in Int : Shifted(GroupOf(Group(i), R), GroupOf(Group(i), S), n)
LEMMA CutPairs ==
    ASSUME NEW S, Legs(S), NEW R \in SUBSET S, Together(R, S)
    PROVE  \A p : p \in PairsOf(R) <=> p \in PairsOf(S) /\ p.open \in R /\ p.close \in R
<1>1. Legs(R)
  BY SomeLegs
<1>2. ASSUME NEW o \in R, NEW c \in R, Mates(o, c, S)
      PROVE  /\ Meet(o, c, GroupOf(Group(o), S)) <=> Meet(o, c, GroupOf(Group(o), R))
             /\ PairOf(o, c, GroupOf(Group(o), S)) = PairOf(o, c, GroupOf(Group(o), R))
  <2> DEFINE P == GroupOf(Group(o), R)
             Q == GroupOf(Group(o), S)
  <2>1. PICK n \in Int : Shifted(P, Q, n)
    BY <1>2 DEF Together, Mates
  <2>2. P \in SUBSET Q /\ Q \in SUBSET S /\ o \in P /\ c \in P
    BY <1>2 DEF GroupOf, Mates
  <2> HIDE DEF P, Q
  <2>3. Legs(Q)
    BY <2>2, SomeLegs
  <2> QED BY <2>1, <2>2, <2>3, ShiftedPairs DEF P, Q
<1>3. ASSUME NEW p, p \in PairsOf(R) PROVE p \in PairsOf(S) /\ p.open \in R /\ p.close \in R
  <2>1. PICK o \in R, c \in R : /\ Mates(o, c, R) /\ Meet(o, c, GroupOf(Group(o), R))
                                /\ p = PairOf(o, c, GroupOf(Group(o), R))
    BY <1>1, <1>3, PairsMeet
  <2>2. Mates(o, c, S) /\ o \in S /\ c \in S
    BY <2>1 DEF Mates
  <2>3. Meet(o, c, GroupOf(Group(o), S)) /\ p = PairOf(o, c, GroupOf(Group(o), S))
    BY <1>2, <2>1, <2>2
  <2>4. p \in PairsOf(S)
    BY <2>2, <2>3, PairsMeet
  <2>5. p.open = o /\ p.close = c
    BY <2>3 DEF PairOf
  <2> QED BY <2>4, <2>5
<1>4. ASSUME NEW p, p \in PairsOf(S), p.open \in R, p.close \in R PROVE p \in PairsOf(R)
  <2>1. PICK o \in S, c \in S : /\ Mates(o, c, S) /\ Meet(o, c, GroupOf(Group(o), S))
                                /\ p = PairOf(o, c, GroupOf(Group(o), S))
    BY <1>4, PairsMeet
  <2>2. p.open = o /\ p.close = c
    BY <2>1 DEF PairOf
  <2>3. o \in R /\ c \in R /\ Mates(o, c, R)
    BY <1>4, <2>1, <2>2 DEF Mates
  <2>4. Meet(o, c, GroupOf(Group(o), R)) /\ p = PairOf(o, c, GroupOf(Group(o), R))
    BY <1>2, <2>1, <2>3
  <2> QED BY <1>1, <2>3, <2>4, PairsMeet
<1> QED BY <1>3, <1>4

\* The legs of a pair are two option fills of one group, in order, on different sides.
LEMMA PairIs ==
    ASSUME NEW S, Legs(S), NEW p, p \in PairsOf(S)
    PROVE  /\ p.open \in S /\ p.close \in S /\ raw[p.open].sec = "OPT" /\ raw[p.close].sec = "OPT"
           /\ FifoDay(p.open) \in Nat /\ FifoDay(p.close) \in Nat /\ FifoDay(p.open) <= FifoDay(p.close)
           /\ raw[p.open].buy # raw[p.close].buy /\ RealizedOn(p) = FifoDay(p.close)
           /\ p = [open |-> p.open, close |-> p.close, qty |-> p.qty]
<1>1. PICK o \in S, c \in S : /\ Mates(o, c, S) /\ Meet(o, c, GroupOf(Group(o), S))
                              /\ p = PairOf(o, c, GroupOf(Group(o), S))
  BY PairsMeet
<1>2. p.open = o /\ p.close = c /\ p = [open |-> p.open, close |-> p.close, qty |-> p.qty]
  BY <1>1 DEF PairOf
<1>3. raw[o].sec = "OPT" /\ raw[c].sec = "OPT" /\ raw[o].buy # raw[c].buy /\ FifoBefore(o, c)
  BY <1>1, Zenon DEF Mates, Meet
<1>4. FifoDay(o) \in Nat /\ FifoDay(c) \in Nat /\ FifoDay(o) <= FifoDay(c)
  BY <1>3, FifoOrders
<1>5. RealizedOn(p) = FifoDay(c)
  <2> DEFINE m == FifoDay(o)
             n == FifoDay(c)
             T == {m, n}
  <2>1. RealizedOn(p) = Max(T)
    BY <1>2 DEF RealizedOn
  <2>2. T \in SUBSET Int /\ T # {} /\ n \in T
    BY <1>4
  <2>3. IsFiniteSet(T)
    <3>1. IsFiniteSet({m}) /\ T = {m} \cup {n}
      BY FS_Singleton, Zenon
    <3>2. IsFiniteSet({m} \cup {n})
      BY <3>1, FS_AddElement
    <3> QED BY <3>1, <3>2
  <2>4. Max(T) \in T /\ n <= Max(T)
    <3> HIDE DEF T, n
    <3> QED BY <2>2, <2>3, Extremes, Zenon
  <2>5. m <= n /\ m \in Nat /\ n \in Nat
    BY <1>4
  <2> HIDE DEF m, n
  <2>6. Max(T) = n
    BY <2>4, <2>5
  <2> QED BY <2>1, <2>6 DEF n
<1> QED BY <1>2, <1>3, <1>4, <1>5

\* The first legs stand together.
LEMMA FirstTogether ==
    ASSUME NEW S, Legs(S), NEW R \in SUBSET S,
           \A i \in R, k \in S : raw[k].sec = "OPT" /\ FifoBefore(k, i) => k \in R
    PROVE  Together(R, S)
<1> SUFFICES ASSUME NEW i \in R, raw[i].sec = "OPT"
             PROVE  Shifted(GroupOf(Group(i), R), GroupOf(Group(i), S), 0)
  BY DEF Together
<1> DEFINE P == GroupOf(Group(i), R)
           Q == GroupOf(Group(i), S)
<1>1. P \in SUBSET R /\ P \in SUBSET S
  BY DEF GroupOf
<1>2. ASSUME NEW j \in P PROVE Start(j, Q) = Start(j, P) + 0
  <2>1. Ahead(j, Q) = Ahead(j, P)
    BY <1>1 DEF Ahead, GroupOf
  <2>2. Start(j, P) \in Nat
    <3>1. Legs(P)
      BY <1>1, SomeLegs
    <3> HIDE DEF P
    <3> QED BY <3>1, LegsPlaced DEF Placed
  <2>3. Start(j, Q) = Start(j, P)
    BY <2>1, Zenon DEF Start
  <2> QED BY <2>2, <2>3
<1> QED BY <1>2 DEF Shifted

\* The pairs a calendar counts, and those of a day.
Counting(S, since, until) ==
    {p \in PairsOf(S) : RealizedOn(p) # 0 /\ (since # 0 => RealizedOn(p) >= since)
                        /\ (until # 0 => RealizedOn(p) <= until)}
OfDay(ps, d) == {q \in ps : RealizedOn(q) = d}
LEMMA CalendarIs ==
    ASSUME NEW S, NEW since, NEW until, NEW d
    PROVE  LET ps == Counting(S, since, until)
               calendar == Calendar(S, since, until)
           IN /\ d \in DOMAIN calendar <=> OfDay(ps, d) # {}
              /\ d \in DOMAIN calendar => calendar[d] = SumFunction([p \in OfDay(ps, d) |-> PairNet(p)])
<1> DEFINE ps == Counting(S, since, until)
           sum(T) == SumFunction([p \in T |-> PairNet(p)])
<1>1. Calendar(S, since, until) = [e \in {RealizedOn(p) : p \in ps} |-> sum(OfDay(ps, e))]
  BY Zenon DEF Calendar, Counting, OfDay
<1> HIDE DEF ps, sum
<1>2. d \in {RealizedOn(p) : p \in ps} <=> OfDay(ps, d) # {}
  BY DEF OfDay
<1>3. d \in {RealizedOn(p) : p \in ps} => Calendar(S, since, until)[d] = sum(OfDay(ps, d))
  BY <1>1
<1>4. DOMAIN Calendar(S, since, until) = {RealizedOn(p) : p \in ps}
  BY <1>1
<1> QED BY <1>2, <1>3, <1>4, Zenon DEF ps, sum

\* The option fills of the book, when each has its day and time and the reads are not cut.
Opts == {i \in Final : raw[i].sec = "OPT"}
AllDated == (\A i \in Opts : raw[i].day # 0 /\ raw[i].time # 0) /\ Cardinality(Final) <= StatsLimit

\* The fills a calendar is made of.
LEMMA CalendarReads ==
    ASSUME ExecutionInv, AmountsInv, AllDated, NEW since \in Nat, NEW until \in Nat
    PROVE  /\ Timed(Executions("performance_book", since, until, NoTrade, StatsLimit))
                  = Timed({i \in Final : InRange(i, since, until)})
           /\ Timed(Executions("performance_book", since, until, NoTrade, PairLimit))
                  = Timed({i \in Final : InRange(i, since, until)})
           /\ \A i \in Opts : FifoDay(i) = raw[i].day /\ raw[i].day \in Nat \ {0} /\ i \in DOMAIN raw
<1>1. StatsLimit \in Nat /\ PairLimit \in Nat /\ StatsLimit <= PairLimit
  BY LimitAssumption
<1>2. IsFiniteSet(Final) /\ Final \in SUBSET DOMAIN raw
  BY <1>1, Reads
<1>3. Cardinality(Final) <= StatsLimit /\ Cardinality(Final) <= PairLimit
  BY <1>1, <1>2, FS_CardinalityType DEF AllDated
<1>4. {i \in Final : InRange(i, since, until) /\ OfTrade(i, NoTrade)} = {i \in Final : InRange(i, since, until)}
  BY DEF OfTrade
<1>5. /\ Executions("performance_book", since, until, NoTrade, StatsLimit) = {i \in Final : InRange(i, since, until)}
      /\ Executions("performance_book", since, until, NoTrade, PairLimit) = {i \in Final : InRange(i, since, until)}
  <2>1. /\ Executions("performance_book", since, until, NoTrade, StatsLimit)
               = {i \in Final : InRange(i, since, until) /\ OfTrade(i, NoTrade)}
        /\ Executions("performance_book", since, until, NoTrade, PairLimit)
               = {i \in Final : InRange(i, since, until) /\ OfTrade(i, NoTrade)}
    BY <1>1, <1>3, Reads
  <2> QED BY <1>4, <2>1, Zenon
<1>6. ASSUME NEW i \in Opts PROVE FifoDay(i) = raw[i].day /\ raw[i].day \in Nat \ {0} /\ i \in DOMAIN raw
  <2>1. i \in DOMAIN raw /\ raw[i].day # 0
    BY <1>2 DEF Opts, AllDated
  <2>2. raw[i].day \in Nat
    BY <2>1, RowIs
  <2> QED BY <2>1, <2>2 DEF FifoDay
<1> QED BY <1>5, <1>6, Zenon

LEMMA CalendarStands ==
    ASSUME ExecutionInv, AmountsInv, AllDated, NEW since \in Nat \ {0}, NEW until \in Nat \ {0},
           \A i \in Opts : FifoDay(i) + LookBack >= since, NEW d \in since .. until
    PROVE  LET part == OptCalendar("performance_book", since, until, NoTrade)
               whole == OptCalendar("performance_book", 0, 0, NoTrade)
           IN /\ (d \in DOMAIN part) = (d \in DOMAIN whole)
              /\ d \in DOMAIN part => part[d] = whole[d]
<1> DEFINE from == IF since > LookBack THEN since - LookBack ELSE 1
           W == Timed({i \in Final : InRange(i, 0, 0)})
           R == Timed({i \in Final : InRange(i, from, until)})
           all == Counting(W, 0, 0)
           some == Counting(R, since, until)
<1>1. LookBack \in Nat /\ from \in Nat \ {0} /\ since # 0 /\ until # 0
  BY LimitAssumption
<1>2. /\ OptCalendar("performance_book", since, until, NoTrade) = Calendar(R, since, until)
      /\ OptCalendar("performance_book", 0, 0, NoTrade) = Calendar(W, 0, 0)
  <2>1. /\ OptCalendar("performance_book", since, until, NoTrade)
               = Calendar(Timed(Executions("performance_book", from, until, NoTrade, PairLimit)), since, until)
        /\ OptCalendar("performance_book", 0, 0, NoTrade)
               = Calendar(Timed(Executions("performance_book", 0, 0, NoTrade, StatsLimit)), 0, 0)
    BY <1>1 DEF OptCalendar
  <2>2. from \in Nat /\ until \in Nat /\ 0 \in Nat
    BY <1>1
  <2> HIDE DEF from
  <2>3. Timed(Executions("performance_book", from, until, NoTrade, PairLimit)) = R
    BY <2>2, CalendarReads
  <2>4. Timed(Executions("performance_book", 0, 0, NoTrade, StatsLimit)) = W
    BY <2>2, CalendarReads
  <2> QED BY <2>1, <2>3, <2>4, Zenon
<1>3. W \in SUBSET DOMAIN raw /\ R \in SUBSET W
  <2>1. Final \in SUBSET DOMAIN raw
    BY DEF Final, FlexRows, JournalRows
  <2>2. \A i : InRange(i, 0, 0)
    BY DEF InRange
  <2> QED BY <2>1, <2>2 DEF Timed
<1>4. Legs(W) /\ Legs(R)
  <2>1. Legs(W)
    BY <1>3, AllLegs
  <2> QED BY <1>3, <2>1, SomeLegs
<1>5. ASSUME NEW i \in W, raw[i].sec = "OPT" PROVE i \in R <=> FifoDay(i) <= until
  <2>1. i \in Opts /\ i \in Final /\ raw[i].time # 0
    BY <1>5 DEF Timed, Opts
  <2>2. FifoDay(i) = raw[i].day /\ raw[i].day \in Nat \ {0} /\ FifoDay(i) + LookBack >= since
    BY <2>1, <1>1, CalendarReads
  <2>3. raw[i].day >= from
    BY <1>1, <2>2
  <2>4. InRange(i, from, until) <=> FifoDay(i) <= until
    BY <1>1, <2>2, <2>3 DEF InRange
  <2> QED BY <2>1, <2>4 DEF Timed
<1>6. \A i \in R : raw[i].sec = "OPT" => FifoDay(i) <= until
  BY <1>3, <1>5, Zenon
<1>7. ASSUME NEW i \in R, NEW k \in W, raw[k].sec = "OPT", FifoBefore(k, i) PROVE k \in R
  <2>1. FifoDay(k) \in Nat /\ FifoDay(i) \in Nat /\ FifoDay(k) <= FifoDay(i)
    BY <1>3, <1>4, <1>7, FifoOrders
  <2>2. FifoDay(i) <= until
    <3>1. i \in Final /\ InRange(i, from, until)
      BY DEF Timed
    <3>2. raw[i].day <= until /\ raw[i].day # 0
      BY <1>1, <3>1 DEF InRange
    <3> QED BY <3>2 DEF FifoDay
  <2> QED BY <1>5, <1>7, <2>1, <2>2
<1> HIDE DEF W, R, from
<1>8. \A p : p \in PairsOf(R) <=> p \in PairsOf(W) /\ p.open \in R /\ p.close \in R
  BY <1>3, <1>4, <1>7, FirstTogether, CutPairs
<1>9. OfDay(some, d) = OfDay(all, d)
  <2>1. ASSUME NEW p \in PairsOf(W), RealizedOn(p) = d PROVE p \in PairsOf(R)
    <3>1. /\ p.open \in W /\ p.close \in W /\ raw[p.open].sec = "OPT" /\ raw[p.close].sec = "OPT"
          /\ FifoDay(p.open) \in Nat /\ FifoDay(p.close) \in Nat /\ FifoDay(p.open) <= FifoDay(p.close)
          /\ RealizedOn(p) = FifoDay(p.close)
      BY <1>4, PairIs
    <3>2. FifoDay(p.close) <= until /\ FifoDay(p.open) <= until
      BY <2>1, <3>1
    <3> QED BY <1>5, <1>8, <3>1, <3>2
  <2>2. d # 0 /\ d >= since /\ d <= until
    OBVIOUS
  <2>3. \A p : p \in OfDay(some, d) <=> p \in PairsOf(R) /\ RealizedOn(p) = d
    BY <2>2 DEF Counting, OfDay
  <2>4. \A p : p \in OfDay(all, d) <=> p \in PairsOf(W) /\ RealizedOn(p) = d
    BY <2>2 DEF Counting, OfDay
  <2> QED BY <1>8, <2>1, <2>3, <2>4, Zenon
<1>10. /\ d \in DOMAIN Calendar(R, since, until) <=> OfDay(some, d) # {}
       /\ d \in DOMAIN Calendar(R, since, until) =>
              Calendar(R, since, until)[d] = SumFunction([p \in OfDay(some, d) |-> PairNet(p)])
  BY CalendarIs
<1>11. /\ d \in DOMAIN Calendar(W, 0, 0) <=> OfDay(all, d) # {}
       /\ d \in DOMAIN Calendar(W, 0, 0) =>
              Calendar(W, 0, 0)[d] = SumFunction([p \in OfDay(all, d) |-> PairNet(p)])
  BY CalendarIs
<1> QED BY <1>2, <1>9, <1>10, <1>11

\* The option fills of a group before a day.
Earlier(g, d) == {j \in Opts : Group(j) = g /\ FifoDay(j) < d}

\* The legs from a day on stand together when no contract is held at its start.
LEMMA LaterTogether ==
    ASSUME ExecutionInv, AmountsInv, AllDated, NEW since \in Nat, NEW until \in Nat,
           NEW R \in SUBSET Final, \A i \in Opts : i \in R <=> FifoDay(i) >= since /\ FifoDay(i) <= until,
           \A i \in Opts : SumFunction([k \in Earlier(Group(i), since) |-> Signed(k)]) = 0
    PROVE  Together(R, Final)
<1> SUFFICES ASSUME NEW i \in R, raw[i].sec = "OPT"
             PROVE  \E n \in Int : Shifted(GroupOf(Group(i), R), GroupOf(Group(i), Final), n)
  BY DEF Together
<1> DEFINE g == Group(i)
           P == GroupOf(g, R)
           Q == GroupOf(g, Final)
           E == Earlier(g, since)
           n == Total(Quantity, OfSide(TRUE, E))
<1>1. /\ P \in SUBSET Q /\ E \in SUBSET Q /\ Q \in SUBSET DOMAIN raw /\ i \in Opts
      /\ Q \in SUBSET Opts
  <2>1. Final \in SUBSET DOMAIN raw
    BY DEF Final, FlexRows, JournalRows
  <2> QED BY <2>1 DEF GroupOf, Earlier, Opts
<1>2. Legs(Q) /\ Legs(P) /\ Legs(E)
  <2>1. Legs(Q)
    BY <1>1, AllLegs
  <2> HIDE DEF Q, P, E
  <2> QED BY <1>1, <2>1, SomeLegs
<1>3. \A j \in Q : FifoDay(j) \in Nat
  BY <1>2, FifoOrders
<1>4. Total(Quantity, OfSide(TRUE, E)) = Total(Quantity, OfSide(FALSE, E)) /\ n \in Nat
  <2>1. SumFunction([k \in E |-> Signed(k)]) = 0
    BY <1>1
  <2> HIDE DEF E
  <2>2. SumFunction([k \in E |-> Signed(k)]) = Total(Quantity, OfSide(TRUE, E)) - Total(Quantity, OfSide(FALSE, E))
        /\ Total(Quantity, OfSide(TRUE, E)) \in Nat /\ Total(Quantity, OfSide(FALSE, E)) \in Nat
    BY <1>2, SignedSides, Zenon
  <2> DEFINE a == Total(Quantity, OfSide(TRUE, E))
             b == Total(Quantity, OfSide(FALSE, E))
  <2>3. a \in Nat /\ b \in Nat /\ a - b = 0
    BY <2>1, <2>2, Zenon
  <2> HIDE DEF a, b
  <2>4. a = b
    BY <2>3, SMT
  <2> QED BY <2>3, <2>4, Zenon DEF a, b
<1>5. ASSUME NEW j \in P PROVE Start(j, Q) = Start(j, P) + n
  <2> DEFINE A == Ahead(j, Q)
             B == Ahead(j, P)
             C == OfSide(raw[j].buy, E)
  <2>1. j \in Q /\ j \in Opts /\ FifoDay(j) \in Nat /\ FifoDay(j) >= since /\ FifoDay(j) <= until
    BY <1>1, <1>3 DEF GroupOf
  <2>2. \A k \in Q : /\ FifoDay(k) \in Nat /\ k \in Opts
                     /\ k \in E <=> FifoDay(k) < since
                     /\ FifoBefore(k, j) => FifoDay(k) <= FifoDay(j)
                     /\ FifoDay(k) < FifoDay(j) => FifoBefore(k, j)
                     /\ k \in P <=> FifoDay(k) >= since /\ FifoDay(k) <= until
    <3> TAKE k \in Q
    <3>1. FifoDay(k) \in Nat /\ k \in Opts /\ (FifoBefore(k, j) => FifoDay(k) <= FifoDay(j))
      BY <1>1, <1>2, <2>1, FifoOrders
    <3>2. FifoDay(k) < FifoDay(j) => FifoBefore(k, j)
      BY DEF FifoBefore
    <3>3. Group(k) = g /\ raw[k].sec = "OPT" /\ k \in Final
      BY DEF GroupOf
    <3>4. (k \in E <=> FifoDay(k) < since) /\ (k \in P <=> FifoDay(k) >= since /\ FifoDay(k) <= until)
      BY <3>1, <3>3 DEF Earlier, GroupOf
    <3> QED BY <3>1, <3>2, <3>4
  <2>3. C \cup B = A /\ C \cap B = {}
    <3>1. ASSUME NEW k PROVE k \in A <=> k \in C \/ k \in B
      <4>1. k \in C \/ k \in B \/ k \in A => k \in Q
        BY <1>1 DEF Ahead, OfSide
      <4>2. CASE k \in Q
        <5>1. /\ FifoDay(k) \in Nat /\ (k \in E <=> FifoDay(k) < since)
              /\ (FifoBefore(k, j) => FifoDay(k) <= FifoDay(j)) /\ (FifoDay(k) < FifoDay(j) => FifoBefore(k, j))
              /\ (k \in P <=> FifoDay(k) >= since /\ FifoDay(k) <= until)
          BY <2>2, <4>2
        <5>2. FifoBefore(k, j) <=> k \in E \/ (k \in P /\ FifoBefore(k, j))
          <6> HIDE DEF P, E
          <6> QED BY <2>1, <5>1
        <5> HIDE DEF P, E, Q
        <5> QED BY <4>2, <5>2 DEF Ahead, OfSide
      <4> QED BY <4>1, <4>2
    <3>2. \A k : ~(k \in C /\ k \in B)
      <4>1. \A k \in Q : ~(k \in E /\ k \in P)
        <5> HIDE DEF P, E, Q
        <5> QED BY <2>2
      <4> HIDE DEF P, E, Q
      <4> QED BY <1>1, <4>1 DEF Ahead, OfSide
    <3> HIDE DEF A, B, C
    <3> QED BY <3>1, <3>2
  <2>4. IsFiniteSet(A) /\ Numbers(Quantity, A)
    <3>1. A \in SUBSET Q
      BY DEF Ahead
    <3> HIDE DEF Q, A
    <3>2. IsFiniteSet(A)
      BY <1>2, <3>1, FS_Subset DEF Legs
    <3>3. \A k \in A : Quantity[k] \in Int
      BY <1>2, <3>1 DEF Legs, Quantity
    <3> QED BY <3>2, <3>3 DEF Numbers
  <2>5. Total(Quantity, A) = Total(Quantity, C) + Total(Quantity, B) /\ Total(Quantity, B) \in Int
    <3> HIDE DEF A, B, C
    <3> QED BY <2>3, <2>4, TotalSplits
  <2>6. Total(Quantity, C) = n
    <3>1. raw[j].buy \in BOOLEAN
      <4> HIDE DEF Q
      <4> QED BY <1>2, <2>1 DEF Legs
    <3>2. CASE raw[j].buy = TRUE
      BY <3>2, Zenon
    <3>3. CASE raw[j].buy = FALSE
      BY <1>4, <3>3, Zenon
    <3> QED BY <3>1, <3>2, <3>3, Zenon
  <2>7. Start(j, Q) = Total(Quantity, A) /\ Start(j, P) = Total(Quantity, B)
    BY Zenon DEF Start
  <2> HIDE DEF A, B, C, n
  <2> QED BY <1>4, <2>5, <2>6, <2>7, SMT
<1>6. Shifted(P, Q, n)
  <2> HIDE DEF P, Q, n
  <2> QED BY <1>5, Zenon DEF Shifted
<1> HIDE DEF n
<1>7. n \in Int
  BY <1>4
<1> QED BY <1>6, <1>7

LEMMA RangeStands ==
    ASSUME ExecutionInv, AmountsInv, AllDated, NEW since \in Nat \ {0}, NEW until \in Nat \ {0},
           \A i \in Opts : SumFunction([k \in Earlier(Group(i), since) |-> Signed(k)]) = 0
    PROVE  LET pairs == RangePairs("performance_book", since, until)
           IN /\ pairs = {p \in PairsOf(Final) : OpenedOn(p) >= since /\ RealizedOn(p) <= until}
              /\ \A i, j \in Opts : j \in PairedIds(i, pairs) =>
                     raw[i].buy # raw[j].buy /\ i \in PairedIds(j, pairs)
<1> DEFINE R == RangeLegs("performance_book", since, until)
           pairs == RangePairs("performance_book", since, until)
<1>1. Final \in SUBSET DOMAIN raw /\ R \in SUBSET Final
  BY DEF Final, FlexRows, JournalRows, RangeLegs, View
<1>2. Legs(Final) /\ Legs(R)
  <2>1. Legs(Final)
    BY <1>1, AllLegs
  <2> QED BY <1>1, <2>1, SomeLegs
<1>3. ASSUME NEW i \in Opts PROVE i \in R <=> FifoDay(i) >= since /\ FifoDay(i) <= until
  <2>1. FifoDay(i) = raw[i].day /\ raw[i].day \in Nat \ {0} /\ i \in DOMAIN raw
    <3>1. 0 \in Nat
      OBVIOUS
    <3> QED BY <3>1, CalendarReads, Zenon
  <2>2. ~raw[i].tws
    <3>1. raw[i].tws <=> i < 0 /\ i > -JournalBase
      BY <2>1, RowIs
    <3>2. i \in Final /\ i \in Int
      BY <2>1, RowIs DEF Opts
    <3>3. i > 0 \/ i < -JournalBase
      BY <3>2 DEF Final, FlexRows, JournalRows
    <3> QED BY <3>1, <3>2, <3>3 DEF JournalBase
  <2>3. InRange(i, since, until) <=> FifoDay(i) >= since /\ FifoDay(i) <= until
    BY <2>1 DEF InRange
  <2>4. i \in R <=> i \in Final /\ InRange(i, since, until) /\ ~raw[i].tws
    BY DEF RangeLegs, View
  <2> QED BY <2>2, <2>3, <2>4 DEF Opts
<1> HIDE DEF R
<1>4. \A p : p \in PairsOf(R) <=> p \in PairsOf(Final) /\ p.open \in R /\ p.close \in R
  <2>1. Together(R, Final)
    BY <1>1, <1>3, LaterTogether
  <2> QED BY <1>1, <1>2, <2>1, CutPairs
<1>5. ASSUME NEW p \in PairsOf(Final)
      PROVE  /\ p.open \in Opts /\ p.close \in Opts /\ FifoDay(p.open) \in Nat /\ FifoDay(p.close) \in Nat
             /\ FifoDay(p.open) <= FifoDay(p.close) /\ RealizedOn(p) = FifoDay(p.close)
             /\ raw[p.open].buy # raw[p.close].buy
  BY <1>2, PairIs DEF Opts
<1>6. \A p : p \in pairs <=> p \in PairsOf(Final) /\ OpenedOn(p) >= since /\ RealizedOn(p) <= until
  <2>1. \A p : p \in pairs <=> p \in PairsOf(R) /\ FifoDay(p.open) \in since .. until /\ FifoDay(p.close) \in since .. until
    BY DEF RangePairs, R
  <2>2. ASSUME NEW p \in PairsOf(Final)
        PROVE  p \in pairs <=> OpenedOn(p) >= since /\ RealizedOn(p) <= until
    <3> DEFINE o == FifoDay(p.open)
               c == FifoDay(p.close)
    <3>1. o \in Nat /\ c \in Nat /\ o <= c /\ RealizedOn(p) = c /\ OpenedOn(p) = o
      BY <1>5 DEF OpenedOn
    <3>2. (p.open \in R <=> o >= since /\ o <= until) /\ (p.close \in R <=> c >= since /\ c <= until)
      BY <1>3, <1>5
    <3>3. p \in pairs <=> p.open \in R /\ p.close \in R /\ o \in since .. until /\ c \in since .. until
      BY <1>4, <2>1
    <3> HIDE DEF o, c, pairs
    <3> QED BY <3>1, <3>2, <3>3
  <2> QED BY <1>4, <2>1, <2>2
<1> HIDE DEF pairs
<1>7. ASSUME NEW i \in Opts, NEW j \in Opts, j \in PairedIds(i, pairs)
      PROVE  raw[i].buy # raw[j].buy /\ i \in PairedIds(j, pairs)
  <2>1. PICK p \in pairs : (p.open = i /\ p.close = j) \/ (p.close = i /\ p.open = j)
    BY <1>7 DEF PairedIds
  <2>2. raw[i].buy # raw[j].buy
    BY <1>5, <1>6, <2>1
  <2>3. i \in PairedIds(j, pairs)
    BY <2>1 DEF PairedIds
  <2> QED BY <2>2, <2>3
<1>8. pairs = {p \in PairsOf(Final) : OpenedOn(p) >= since /\ RealizedOn(p) <= until}
  BY <1>6
<1> QED BY <1>7, <1>8, Zenon DEF pairs

\* A day's option result and a range's pairs are the whole book's, however the book is cut
\* into ranges (executions.get_performance_stats, get_executions_with_opt_pairs).
THEOREM PerformanceRanges == SharedSpec => []RangesAgree
<1>1. ASSUME ExecutionInv, AmountsInv PROVE RangesAgree
  <2> SUFFICES ASSUME NEW b \in Bounds \ {<<0, 0>>}, AllDated
               PROVE  LET part == OptCalendar("performance_book", b[1], b[2], NoTrade)
                          whole == OptCalendar("performance_book", 0, 0, NoTrade)
                          pairs == RangePairs("performance_book", b[1], b[2])
                      IN /\ (\A i \in Opts : FifoDay(i) + LookBack >= b[1]) =>
                                \A d \in b[1] .. b[2] :
                                    /\ (d \in DOMAIN part) = (d \in DOMAIN whole)
                                    /\ d \in DOMAIN part => part[d] = whole[d]
                         /\ (\A i \in Opts : SumFunction([k \in Earlier(Group(i), b[1]) |-> Signed(k)]) = 0) =>
                                /\ pairs = {p \in PairsOf(Final) : OpenedOn(p) >= b[1] /\ RealizedOn(p) <= b[2]}
                                /\ \A i, j \in Opts : j \in PairedIds(i, pairs) =>
                                       raw[i].buy # raw[j].buy /\ i \in PairedIds(j, pairs)
    BY Zenon DEF RangesAgree, Opts, AllDated, Earlier
  <2>1. b[1] \in Nat \ {0} /\ b[2] \in Nat \ {0}
    <3>1. b \in Days \X Days
      BY DEF Bounds
    <3>2. \A d \in Days : d \in Nat \ {0}
      BY DEF Days
    <3> QED BY <3>1, <3>2
  <2>2. ASSUME \A i \in Opts : FifoDay(i) + LookBack >= b[1], NEW d \in b[1] .. b[2]
        PROVE  LET part == OptCalendar("performance_book", b[1], b[2], NoTrade)
                   whole == OptCalendar("performance_book", 0, 0, NoTrade)
               IN /\ (d \in DOMAIN part) = (d \in DOMAIN whole)
                  /\ d \in DOMAIN part => part[d] = whole[d]
    BY <1>1, <2>1, <2>2, CalendarStands
  <2>3. ASSUME \A i \in Opts : SumFunction([k \in Earlier(Group(i), b[1]) |-> Signed(k)]) = 0
        PROVE  LET pairs == RangePairs("performance_book", b[1], b[2])
               IN /\ pairs = {p \in PairsOf(Final) : OpenedOn(p) >= b[1] /\ RealizedOn(p) <= b[2]}
                  /\ \A i, j \in Opts : j \in PairedIds(i, pairs) =>
                         raw[i].buy # raw[j].buy /\ i \in PairedIds(j, pairs)
    BY <1>1, <2>1, <2>3, RangeStands, Zenon
  <2> QED BY <2>2, <2>3, Zenon
<1> QED BY <1>1, AmountsInvariant, PTL

-----------------------------------------------------------------------------
(* The book under the results.                                             *)

\* A step of the results is a step of the book or leaves it alone.
LEMMA ResultsShareTheBook == ResultSpec => SharedSpec
<1>1. ResultInit => Init
  BY Zenon DEF ResultInit
<1>2. [ResultNext]_resultVars => [SharedNext]_bookVars
  <2> SUFFICES ASSUME [ResultNext]_resultVars PROVE SharedNext \/ UNCHANGED bookVars
    OBVIOUS
  <2>1. CASE BookStep
    BY <2>1, Zenon DEF BookStep, SharedNext
  <2>2. CASE \E o, s \in Final : AskLink(o, s)
    BY <2>2, Zenon DEF AskLink, SharedNext
  <2>3. CASE InsertLink
    BY <2>3, Zenon DEF InsertLink
  <2>4. CASE \E l \in links : Unlink(l)
    BY <2>4, Zenon DEF Unlink, SharedNext
  <2>5. CASE \E i \in DOMAIN raw : DeleteUnlinked(i)
    BY <2>5, Zenon DEF DeleteUnlinked, SharedNext
  <2>6. CASE UNCHANGED resultVars
    BY <2>6, SMT DEF resultVars
  <2> QED BY <2>1, <2>2, <2>3, <2>4, <2>5, <2>6, Zenon DEF ResultNext
<1> QED BY <1>1, <1>2, PTL DEF ResultSpec, SharedSpec

LEMMA ResultsInvariant == ResultSpec => [](ExecutionInv /\ AmountsInv)
<1>1. (ResultSpec => SharedSpec) /\ (SharedSpec => [](ExecutionInv /\ AmountsInv))
  BY ResultsShareTheBook, AmountsInvariant, PTL
<1> QED BY <1>1, PTL

-----------------------------------------------------------------------------
(* The win rate.                                                           *)

\* An amount of each fill, and what a trade gets of them all.
Amounts(a, F) == \A i \in F : a[i] \in Int /\ a[i] % Unit = 0
GetsOf(a, F, t) == Total([i \in F |-> Weighted(i, t, a[i])], F)
OfTrades(F) == {i \in F : IsSplit(i) \/ AttOf(i).whole # NoTrade}

\* The trades get all of what their fills have.
LEMMA AmountsShared ==
    ASSUME ExecutionInv, NEW F, IsFiniteSet(F), NEW a, Amounts(a, F), NEW A \in SUBSET Trades,
           \A i \in F : IF IsSplit(i) THEN DOMAIN Splits(i) \subseteq A ELSE AttOf(i).whole \in A \cup {NoTrade},
           NEW parts, \A t \in A : parts[t] = GetsOf(a, F, t)
    PROVE  /\ Total(parts, A) = Total(a, OfTrades(F)) /\ IsFiniteSet(A) /\ Numbers(parts, A)
           /\ IsFiniteSet(OfTrades(F)) /\ Numbers(a, OfTrades(F))
<1> DEFINE M == [i \in F |-> [t \in A |-> Weighted(i, t, a[i])]]
           rows == [i \in F |-> IF OfNone(i) THEN 0 ELSE a[i]]
           R == OfTrades(F)
<1>1. IsFiniteSet(A) /\ R \in SUBSET F
  BY BookAssumption, FS_Subset DEF OfTrades
<1>2. \A i \in F : a[i] \in Int /\ a[i] % Unit = 0
  BY DEF Amounts
<1>3. ASSUME NEW i \in F, NEW t \in A PROVE Weighted(i, t, a[i]) \in Int
  BY <1>2, WeightIs
<1>4. Cells(M, F, A)
  BY <1>3 DEF Cells
<1>5. ASSUME NEW i \in F PROVE rows[i] = Total(M[i], A)
  <2>1. Total([t \in A |-> Weighted(i, t, a[i])], A) = IF OfNone(i) THEN 0 ELSE a[i]
    BY <1>2, WeightsAdd, Zenon
  <2> QED BY <2>1
<1>6. ASSUME NEW t \in A PROVE parts[t] = Total([i \in F |-> M[i][t]], F) /\ parts[t] \in Int
  <2> DEFINE c == [i \in F |-> M[i][t]]
  <2>1. [i \in F |-> Weighted(i, t, a[i])] = c
    OBVIOUS
  <2>2. Numbers(c, F)
    BY <1>3 DEF Numbers
  <2>3. parts[t] = Total([i \in F |-> Weighted(i, t, a[i])], F)
    BY Zenon DEF GetsOf
  <2> HIDE DEF M, c
  <2>4. parts[t] = Total(c, F) /\ Total(c, F) \in Int
    BY <2>1, <2>2, <2>3, TotalStep, Zenon
  <2> QED BY <2>4, Zenon DEF c
<1>7. ByRows(M, F, A, rows) /\ ByColumns(M, F, A, parts)
  <2> HIDE DEF M, rows
  <2> QED BY <1>5, <1>6, Zenon DEF ByRows, ByColumns
<1>8. \A i \in F : rows[i] = IF i \in R THEN a[i] ELSE 0
  BY DEF OfTrades, OfNone
<1>9. Numbers(rows, F) /\ Numbers(a, R)
  BY <1>1, <1>2 DEF Numbers
<1> HIDE DEF M, rows, R
<1>10. Total(parts, A) = Total(rows, F)
  BY <1>1, <1>4, <1>7, TotalBothWays
<1>11. Total(rows, F) = Total(a, R)
  BY <1>1, <1>8, <1>9, TotalWithin
<1>12. IsFiniteSet(R)
  BY <1>1, FS_Subset
<1> QED BY <1>1, <1>6, <1>9, <1>10, <1>11, <1>12, Zenon DEF R, Numbers

\* Linked stock fills.
LEMMA SlippageIs ==
    ASSUME ExecutionInv, AmountsInv, NEW i
    PROVE  Slippage(i) \in Int /\ Slippage(i) % Unit = 0
<1> DEFINE N == {n \in {l.stk : l \in {k \in links : k.opt = i}} \cap Final : raw[n].close # 0}
           row == [s \in N |-> [stk |-> s, slip |-> raw[s].qty * (raw[s].price - raw[s].close)]]
           rows == {row[s] : s \in N}
           f == [r \in rows |-> r.slip]
           g == [r \in rows |-> r.slip \div Unit]
<1>1. LinkRows(i) = rows
  BY Zenon DEF LinkRows
<1>2. N \in SUBSET DOMAIN raw
  BY DEF Final, FlexRows, JournalRows
<1>3. IsFiniteSet(N)
  BY <1>2, RowsAreFinite, FS_Subset
<1>4. IsFiniteSet(rows)
  <2> HIDE DEF N, row
  <2> QED BY <1>3, ImageFinite
<1>5. Unit \in Nat \ {0}
  BY BookAssumption
<1>6. ASSUME NEW r \in rows PROVE f[r] \in Int /\ g[r] \in Int /\ f[r] = Unit * g[r]
  <2>1. PICK s \in N : r = row[s]
    OBVIOUS
  <2>2. /\ raw[s].qty \in Int /\ raw[s].price \in Int /\ raw[s].close \in Int
        /\ raw[s].price % Unit = 0 /\ raw[s].close % Unit = 0
    <3>1. raw[s].qty \in Nat \ {0} /\ raw[s].price \in Nat /\ raw[s].close \in Nat /\ Whole(raw[s])
      BY <1>2, RowIs
    <3> QED BY <3>1 DEF Whole
  <2> DEFINE d == raw[s].price - raw[s].close
             x == raw[s].qty * d
  <2>3. d \in Int /\ d % Unit = 0
    <3>1. 0 \in Int
      OBVIOUS
    <3> QED BY <1>5, <2>2, <3>1, DividesBoth
  <2>4. x \in Int /\ x % Unit = 0
    <3> HIDE DEF d
    <3> QED BY <1>5, <2>2, <2>3, DividesBoth
  <2>5. r.slip = x /\ f[r] = r.slip /\ g[r] = r.slip \div Unit
    BY <2>1
  <2> HIDE DEF x, f, g
  <2>6. x = Unit * (x \div Unit) /\ x \div Unit \in Int
    BY <1>5, <2>4, Exactly
  <2> QED BY <2>4, <2>5, <2>6, Zenon
<1>7. Slippage(i) = SumFunction(f) /\ rows = DOMAIN f
  BY <1>1 DEF Slippage
<1> HIDE DEF f, g, rows
<1>8. Numbers(f, rows) /\ Numbers(g, rows) /\ Unit \in Int
  BY <1>5, <1>6 DEF Numbers
<1>9. Slippage(i) = Total(f, rows)
  BY <1>7, SumIs
<1>10. Total(f, rows) = Unit * Total(g, rows) /\ Total(g, rows) \in Int
  BY <1>4, <1>6, <1>8, TotalTimes, TotalStep, Zenon
<1> QED BY <1>5, <1>9, <1>10, Multiples

\* What a fill moved, and that a trade's slice of it is its share of that.
Moved(i) ==
    IF raw[i].sec = "OPT" THEN -Signed(i) * raw[i].price * Multiplier - raw[i].comm + Slippage(i) ELSE raw[i].rp
Premium(i, t) == -Side(i) * raw[i].price * SliceQty(i, t) * Multiplier - Weighted(i, t, raw[i].comm)

LEMMA MovedIs ==
    ASSUME ExecutionInv, AmountsInv, NEW i \in DOMAIN raw
    PROVE  Moved(i) \in Int /\ Moved(i) % Unit = 0
<1> DEFINE s == -Signed(i)
           p == raw[i].price
           x == s * Multiplier
           y == x * p
           z == y - raw[i].comm
<1>1. /\ raw[i].qty \in Nat \ {0} /\ p \in Nat /\ raw[i].comm \in Nat /\ raw[i].rp \in Int
      /\ p % Unit = 0 /\ raw[i].comm % Unit = 0 /\ raw[i].rp % Unit = 0 /\ Unit \in Nat \ {0}
  <2>1. Whole(raw[i])
    BY RowIs
  <2> QED BY <2>1, RowIs DEF Whole
<1>2. s \in Int /\ x \in Int
  BY <1>1 DEF Signed, Multiplier
<1>3. Slippage(i) \in Int /\ Slippage(i) % Unit = 0
  BY SlippageIs
<1>4. y = s * p * Multiplier
  <2> HIDE DEF s, p
  <2> QED BY <1>1, <1>2 DEF Multiplier
<1> HIDE DEF x, p
<1>5. y \in Int /\ y % Unit = 0
  <2>1. p \in Int /\ x \in Int /\ p % Unit = 0 /\ Unit \in Nat \ {0}
    BY <1>1, <1>2
  <2>2. (x * p) % Unit = 0
    BY <2>1, DividesBoth, Zenon
  <2> QED BY <2>1, <2>2
<1> HIDE DEF y
<1>6. z \in Int /\ z % Unit = 0
  <2>1. raw[i].comm \in Int /\ 0 \in Int /\ raw[i].comm % Unit = 0 /\ Unit \in Nat \ {0}
    BY <1>1
  <2>2. (y - raw[i].comm) % Unit = 0
    BY <1>5, <2>1, DividesBoth, Zenon
  <2> QED BY <1>5, <2>1, <2>2
<1> HIDE DEF z
<1>7. z + Slippage(i) \in Int /\ (z + Slippage(i)) % Unit = 0
  <2>1. 0 \in Int /\ Unit \in Nat \ {0}
    BY <1>1
  <2>2. (z + Slippage(i)) % Unit = 0
    BY <1>3, <1>6, <2>1, DividesBoth, Zenon
  <2> QED BY <1>3, <1>6, <2>2
<1>8. raw[i].sec = "OPT" => Moved(i) = z + Slippage(i)
  <2>1. raw[i].sec = "OPT" => Moved(i) = -Signed(i) * p * Multiplier - raw[i].comm + Slippage(i)
    BY DEF Moved, p
  <2>2. z = s * p * Multiplier - raw[i].comm
    BY <1>4 DEF z
  <2>3. Signed(i) \in Int /\ p \in Int
    BY <1>1 DEF Signed, p
  <2>4. -Signed(i) * p * Multiplier = s * p * Multiplier
    BY <2>3 DEF Multiplier
  <2> QED BY <2>1, <2>2, <2>4, Zenon
<1>9. raw[i].sec # "OPT" => Moved(i) = raw[i].rp
  BY DEF Moved
<1> QED BY <1>1, <1>7, <1>8, <1>9, Zenon

\* A part of an amount that all of a fill's quantity shares out.
LEMMA PartOf ==
    ASSUME ExecutionInv, AmountsInv, NEW i \in DOMAIN raw, NEW t \in Trades, InSlice(i, t), WhollyShared(i),
           NEW m \in Int, m % Unit = 0
    PROVE  /\ Weighted(i, t, m) = SliceQty(i, t) * (m \div raw[i].qty) /\ SliceQty(i, t) \in Nat \ {0}
           /\ m = raw[i].qty * (m \div raw[i].qty) /\ m \div raw[i].qty \in Int
           /\ (m * SliceQty(i, t)) \div raw[i].qty = SliceQty(i, t) * (m \div raw[i].qty)
<1>1. raw[i].qty \in Nat \ {0} /\ m % raw[i].qty = 0 /\ Unit \in Nat \ {0}
  <2>1. raw[i].qty \in Nat \ {0} /\ Unit \in Nat \ {0} /\ Unit % raw[i].qty = 0
    BY RowIs DEF Whole
  <2> QED BY <2>1, DividesOn
<1>2. m = raw[i].qty * (m \div raw[i].qty) /\ m \div raw[i].qty \in Int
  BY <1>1, Exactly, Zenon
<1>3. SliceQty(i, t) \in Nat \ {0}
  <2>1. CASE IsSplit(i)
    <3>1. t \in DOMAIN Splits(i) /\ SliceQty(i, t) = AbsOf(Splits(i)[t])
      BY <2>1 DEF InSlice, SliceQty
    <3>2. AbsOf(Splits(i)[t]) \in Nat \ {0}
      BY <3>1, SplitIs, Zenon
    <3> QED BY <3>1, <3>2
  <2>2. CASE ~IsSplit(i)
    BY <1>1, <2>2 DEF SliceQty
  <2> QED BY <2>1, <2>2
<1>4. (m * SliceQty(i, t)) \div raw[i].qty = SliceQty(i, t) * (m \div raw[i].qty)
  <2> DEFINE n == SliceQty(i, t)
             d == raw[i].qty
  <2>1. n \in Int /\ d \in Nat \ {0} /\ m % d = 0
    BY <1>1, <1>3
  <2> HIDE DEF n, d
  <2>2. (m * n) \div d = n * (m \div d)
    BY <2>1, ShareExact, Zenon
  <2> QED BY <2>2 DEF n, d
<1>5. Weighted(i, t, m) = SliceQty(i, t) * (m \div raw[i].qty)
  <2>1. CASE IsSplit(i)
    <3>1. t \in DOMAIN Splits(i) /\ SliceQty(i, t) = AbsOf(Splits(i)[t]) /\ SplitTotal(i) = raw[i].qty
      BY <2>1 DEF InSlice, SliceQty, WhollyShared
    <3>2. Weighted(i, t, m) = (m * SliceQty(i, t)) \div raw[i].qty
      BY <2>1, <3>1 DEF Weighted
    <3> QED BY <1>4, <3>2, Zenon
  <2>2. CASE ~IsSplit(i)
    <3>1. AttOf(i).whole = t /\ SliceQty(i, t) = raw[i].qty
      BY <2>2 DEF InSlice, SliceQty
    <3>2. Weighted(i, t, m) = m
      BY <2>2, <3>1 DEF Weighted
    <3> QED BY <1>2, <3>1, <3>2
  <2> QED BY <2>1, <2>2
<1> QED BY <1>2, <1>3, <1>4, <1>5

LEMMA SliceIsShare ==
    ASSUME ExecutionInv, AmountsInv, NEW i \in DOMAIN raw, NEW t \in Trades, InSlice(i, t), WhollyShared(i)
    PROVE  Weighted(i, t, Moved(i)) = IF raw[i].sec = "OPT" THEN Premium(i, t) + SlippagePart(i, t)
                                      ELSE Weighted(i, t, raw[i].rp)
<1> DEFINE q == raw[i].qty
           n == SliceQty(i, t)
           kc == raw[i].comm \div q
           ks == Slippage(i) \div q
           km == Moved(i) \div q
           p == raw[i].price
           sd == Side(i)
<1>1. Moved(i) \in Int /\ Moved(i) % Unit = 0 /\ Slippage(i) \in Int /\ Slippage(i) % Unit = 0
  BY MovedIs, SlippageIs
<1>2. raw[i].comm \in Int /\ raw[i].comm % Unit = 0
  BY NetIs
<1>3. q \in Nat \ {0} /\ p \in Nat /\ sd \in {1, -1} /\ Signed(i) = sd * q
  BY RowIs DEF Side, Signed
<1>4. n \in Nat \ {0} /\ Weighted(i, t, raw[i].comm) = n * kc /\ raw[i].comm = q * kc /\ kc \in Int
  BY <1>2, PartOf
<1>5. (Slippage(i) * n) \div q = n * ks /\ Slippage(i) = q * ks /\ ks \in Int
  BY <1>1, PartOf
<1>6. Weighted(i, t, Moved(i)) = n * km /\ Moved(i) = q * km /\ km \in Int
  BY <1>1, PartOf
<1>7. CASE raw[i].sec = "OPT"
  <2>1. Moved(i) = -Signed(i) * p * Multiplier - raw[i].comm + Slippage(i)
    BY <1>7 DEF Moved
  <2>2. Premium(i, t) = (-sd) * p * n * Multiplier - n * kc
    <3>1. Premium(i, t) = -sd * p * n * Multiplier - Weighted(i, t, raw[i].comm)
      BY DEF Premium
    <3> HIDE DEF sd, p, n, kc
    <3>2. -sd * p * n * Multiplier = (-sd) * p * n * Multiplier
      BY <1>3, <1>4 DEF Multiplier
    <3> QED BY <1>4, <3>1, <3>2, Zenon
  <2>3. SlippagePart(i, t) = n * ks
    BY <1>5 DEF SlippagePart
  <2> HIDE DEF q, n, kc, ks, km, p, sd
  <2> DEFINE u == (-sd) * p * 100
  <2>4. u \in Int
    BY <1>3
  <2>5. q * km = q * u - q * kc + q * ks
    <3>1. (-(sd * q)) * p * 100 = q * u
      BY <1>3
    <3>2. q * km = (-(sd * q)) * p * 100 - q * kc + q * ks
      BY <1>3, <1>4, <1>5, <1>6, <2>1 DEF Multiplier
    <3> QED BY <3>1, <3>2
  <2>6. (-sd) * p * n * 100 = n * u
    BY <1>3, <1>4
  <2> HIDE DEF u
  <2>7. q * km = q * (u - kc + ks)
    BY <1>3, <1>4, <1>5, <1>6, <2>4, <2>5
  <2>8. km = u - kc + ks
    <3>1. \A v \in Int : q * km = q * v => km = v
      <4> TAKE v \in Int
      <4>1. (q * km) \div q = km /\ (q * v) \div q = v
        BY <1>3, <1>6, Multiples
      <4> QED BY <4>1
    <3>2. u - kc + ks \in Int
      BY <1>4, <1>5, <2>4
    <3> QED BY <2>7, <3>1, <3>2
  <2>9. n * km = n * u - n * kc + n * ks
    BY <1>4, <1>5, <2>4, <2>8
  <2>10. Premium(i, t) = n * u - n * kc
    BY <2>2, <2>6 DEF Multiplier
  <2>11. Weighted(i, t, Moved(i)) = Premium(i, t) + SlippagePart(i, t)
    BY <1>6, <2>3, <2>9, <2>10
  <2> QED BY <1>7, <2>11
<1>8. CASE raw[i].sec # "OPT"
  <2>1. Moved(i) = raw[i].rp
    BY <1>8 DEF Moved
  <2> QED BY <1>8, <2>1
<1> QED BY <1>7, <1>8

\* What trades have earned.
MovedOf == [i \in DOMAIN raw |-> Moved(i)]
InDays(since, until) == {i \in Final : InRange(i, since, until)}
AllShared == \A i \in Final : ~OfNone(i) => WhollyShared(i)

LEMMA NetOfTrade ==
    ASSUME ExecutionInv, AmountsInv, Cardinality(Final) <= SummaryLimit, AllShared,
           NEW since, NEW until, NEW t \in Trades
    PROVE  InstanceNet(since, until, t) = GetsOf(MovedOf, InDays(since, until), t)
<1> DEFINE F == InDays(since, until)
           S == Slices(since, until, t)
           O == Options(S)
           N == S \ Options(S)
           w == [i \in F |-> Weighted(i, t, MovedOf[i])]
           f == [i \in O |-> Premium(i, t) + SlippagePart(i, t)]
           h == [i \in N |-> Weighted(i, t, raw[i].rp)]
           part == [i \in S |-> w[i]]
<1>1. S = {i \in F : InSlice(i, t)} /\ F \in SUBSET DOMAIN raw /\ IsFiniteSet(F)
  <2> DEFINE E == Executions("performance_book", since, until, t, SummaryLimit)
             M == {i \in Final : InRange(i, since, until) /\ OfTrade(i, t)}
  <2>1. SummaryLimit \in Nat
    BY LimitAssumption
  <2>2. E = M /\ Final \in SUBSET DOMAIN raw /\ IsFiniteSet(Final)
    BY <2>1, Reads
  <2>3. \A i : InSlice(i, t) => OfTrade(i, t)
    BY DEF InSlice, OfTrade
  <2>4. F \in SUBSET Final
    BY DEF InDays
  <2>5. IsFiniteSet(F)
    BY <2>2, <2>4, FS_Subset
  <2>6. S = {i \in E : InSlice(i, t)}
    BY DEF Slices
  <2> HIDE DEF E, S
  <2>7. S = {i \in F : InSlice(i, t)}
    BY <2>2, <2>3, <2>6 DEF InDays
  <2> QED BY <2>2, <2>4, <2>5, <2>7
<1>2. S \in SUBSET F /\ O \cup N = S /\ O \cap N = {} /\ O = {i \in S : raw[i].sec = "OPT"}
  <2>1. O \in SUBSET S
    BY DEF Options
  <2> HIDE DEF S
  <2> QED BY <1>1, <2>1 DEF Options
<1>3. ASSUME NEW i \in F PROVE w[i] \in Int /\ w[i] = Weighted(i, t, Moved(i))
  <2>1. MovedOf[i] = Moved(i) /\ Moved(i) \in Int /\ Moved(i) % Unit = 0
    BY <1>1, MovedIs DEF MovedOf
  <2> QED BY <2>1, WeightIs
<1>4. ASSUME NEW i \in F PROVE InSlice(i, t) \/ w[i] = 0
  <2>1. ~InSlice(i, t) => Weighted(i, t, Moved(i)) = 0
    BY DEF InSlice, Weighted
  <2> QED BY <1>3, <2>1
<1>5. ASSUME NEW i \in S
      PROVE  w[i] = IF raw[i].sec = "OPT" THEN Premium(i, t) + SlippagePart(i, t) ELSE Weighted(i, t, raw[i].rp)
  <2>1. i \in F /\ InSlice(i, t) /\ i \in DOMAIN raw /\ i \in Final
    BY <1>1 DEF InDays
  <2>2. WhollyShared(i)
    <3>1. ~OfNone(i)
      <4>1. t # NoTrade
        BY BookAssumption
      <4> QED BY <2>1, <4>1 DEF InSlice, OfNone
    <3> QED BY <2>1, <3>1 DEF AllShared
  <2>3. Weighted(i, t, Moved(i)) = IF raw[i].sec = "OPT" THEN Premium(i, t) + SlippagePart(i, t)
                                   ELSE Weighted(i, t, raw[i].rp)
    BY <2>1, <2>2, SliceIsShare
  <2> QED BY <1>3, <2>1, <2>3
<1>6. InstanceNet(since, until, t) = SumFunction(f) + SumFunction(h)
  BY Zenon DEF InstanceNet, Premium
<1>7. SumFunction(f) = Total(f, O) /\ SumFunction(h) = Total(h, N)
  <2>1. O = DOMAIN f /\ N = DOMAIN h
    OBVIOUS
  <2> HIDE DEF f, h, O, N
  <2> QED BY <2>1, SumIs
<1>8. (\A i \in O : f[i] = part[i]) /\ (\A i \in N : h[i] = part[i]) /\ (\A i \in S : part[i] = w[i] /\ w[i] \in Int)
  <2> HIDE DEF w, S, O
  <2> QED BY <1>2, <1>3, <1>5
<1>9. \A i \in F : w[i] = IF i \in S THEN part[i] ELSE 0
  <2> HIDE DEF w, S
  <2> QED BY <1>1, <1>4
<1>10. IsFiniteSet(S) /\ IsFiniteSet(O) /\ IsFiniteSet(N)
  <2> HIDE DEF S, O, N
  <2>1. O \in SUBSET S /\ N \in SUBSET S
    BY <1>2
  <2>2. IsFiniteSet(S)
    BY <1>1, <1>2, FS_Subset
  <2> QED BY <2>1, <2>2, FS_Subset
<1> HIDE DEF F, S, O, N, w, f, h, part
<1>11. Numbers(w, F) /\ Numbers(part, S) /\ Numbers(part, O) /\ Numbers(part, N)
  BY <1>2, <1>3, <1>8 DEF Numbers
<1>12. Total(w, F) = Total(part, S)
  BY <1>1, <1>2, <1>9, <1>11, TotalWithin
<1>13. Total(part, S) = Total(part, O) + Total(part, N)
  BY <1>2, <1>10, <1>11, TotalSplits
<1>14. Total(f, O) = Total(part, O) /\ Total(h, N) = Total(part, N)
  BY <1>8, <1>10, <1>11, TotalSame
<1>15. InstanceNet(since, until, t) = Total(w, F)
  BY <1>6, <1>7, <1>12, <1>13, <1>14, Zenon
<1> QED BY <1>15, Zenon DEF GetsOf, F, w

\* A card's net and cost are its trades' together.
CardNet(m) == m.profit + m.loss
LEMMA CardsAdd ==
    ASSUME NEW ts, IsFiniteSet(ts), NEW since, NEW until, \A t \in ts : InstanceNet(since, until, t) \in Int
    PROVE  LET m == Metrics(since, until, ts) IN
           /\ CardNet(m) = Total([t \in ts |-> InstanceNet(since, until, t)], ts)
           /\ m.cost = Total([t \in ts |-> UnderlyingCost(t)], ts)
<1> DEFINE net == [t \in ts |-> InstanceNet(since, until, t)]
           won == {t \in ts : net[t] > 0}
           lost == {t \in ts : net[t] < 0}
           rest == ts \ won
           profit == [t \in won |-> net[t]]
           loss == [t \in lost |-> net[t]]
           cost == [t \in ts |-> UnderlyingCost(t)]
           m == Metrics(since, until, ts)
<1>1. m.profit = SumFunction(profit) /\ m.loss = SumFunction(loss) /\ m.cost = SumFunction(cost)
  BY DEF Metrics
<1>2. \A t \in ts : net[t] \in Int
  OBVIOUS
<1>3. won \in SUBSET ts /\ lost \in SUBSET rest /\ won \cup rest = ts /\ won \cap rest = {}
      /\ \A t \in rest : net[t] = IF t \in lost THEN loss[t] ELSE 0
  BY <1>2
<1>4. (\A t \in won : profit[t] = net[t]) /\ \A t \in lost : loss[t] = net[t]
  OBVIOUS
<1>5. won = DOMAIN profit /\ lost = DOMAIN loss /\ ts = DOMAIN cost
  OBVIOUS
<1> HIDE DEF net, won, lost, rest, profit, loss, cost, m
<1>6. SumFunction(profit) = Total(profit, won) /\ SumFunction(loss) = Total(loss, lost) /\ SumFunction(cost) = Total(cost, ts)
  BY <1>5, SumIs
<1>7. Numbers(net, ts) /\ Numbers(net, won) /\ Numbers(net, rest) /\ Numbers(loss, lost)
  BY <1>2, <1>3, <1>4 DEF Numbers
<1>8. IsFiniteSet(won) /\ IsFiniteSet(rest)
  <2>1. rest \in SUBSET ts
    BY <1>3
  <2> QED BY <1>3, <2>1, FS_Subset
<1>9. Total(net, ts) = Total(net, won) + Total(net, rest)
  BY <1>3, <1>7, TotalSplits
<1>10. Total(profit, won) = Total(net, won)
  BY <1>4, <1>7, <1>8, TotalSame
<1>11. Total(net, rest) = Total(loss, lost)
  BY <1>3, <1>7, <1>8, TotalWithin
<1>12. CardNet(m) = Total(net, ts) /\ m.cost = Total(cost, ts)
  BY <1>1, <1>6, <1>9, <1>10, <1>11, Zenon DEF CardNet
<1> QED BY <1>12, Zenon DEF net, cost, m

\* What a fill sold, at its strike.
CostOf == [i \in DOMAIN raw |-> raw[i].qty * Multiplier * raw[i].con.strike]
SoldIn(S) == {i \in S : raw[i].sec = "OPT" /\ ~raw[i].buy}

LEMMA CostIs ==
    ASSUME ExecutionInv, AmountsInv, NEW i \in DOMAIN raw
    PROVE  /\ CostOf[i] \in Int /\ CostOf[i] % Unit = 0 /\ CostOf[i] = raw[i].qty * (Multiplier * raw[i].con.strike)
           /\ Multiplier * raw[i].con.strike \in Int /\ raw[i].con.strike \in Nat
           /\ (raw[i].sec = "OPT" => raw[i].con.strike > 0)
<1> DEFINE k == raw[i].con.strike
           n == raw[i].qty * Multiplier
<1>1. raw[i].qty \in Nat \ {0} /\ Unit \in Nat \ {0} /\ k \in Nat /\ k % Unit = 0 /\ (raw[i].sec = "OPT" => k > 0)
  <2>1. raw[i].con = broker[FillOf(i)].con /\ raw[i].sec = broker[FillOf(i)].sec /\ broker[FillOf(i)] \in Shapes
    BY RowIs
  <2>2. raw[i].qty \in Nat \ {0} /\ Unit \in Nat \ {0}
    BY RowIs
  <2>3. broker[FillOf(i)].con.strike \in Nat /\ broker[FillOf(i)].con.strike % Unit = 0
        /\ (broker[FillOf(i)].sec = "OPT" => broker[FillOf(i)].con.strike > 0)
    BY <2>1, ShapeAmounts, Zenon
  <2> QED BY <2>1, <2>2, <2>3, Zenon
<1>2. CostOf[i] = n * k
  BY DEF CostOf
<1>3. n \in Int /\ k \in Int
  BY <1>1 DEF Multiplier
<1>4. n * k = raw[i].qty * (Multiplier * k) /\ Multiplier * k \in Int
  BY <1>1 DEF Multiplier
<1> HIDE DEF n, k
<1>5. (n * k) % Unit = 0 /\ n * k \in Int
  <2>1. (n * k) % Unit = 0
    BY <1>1, <1>3, DividesBoth, ZenonT(30)
  <2> QED BY <1>3, <2>1
<1> QED BY <1>1, <1>2, <1>4, <1>5, Zenon DEF k

LEMMA CostOfTrade ==
    ASSUME ExecutionInv, AmountsInv, AllShared, NEW t \in Trades
    PROVE  UnderlyingCost(t) = GetsOf(CostOf, SoldIn(Final), t)
<1> DEFINE F == SoldIn(Final)
           cost(i, q) == q * Multiplier * raw[i].con.strike
           A == {j \in F : t \in DOMAIN Splits(j)}
           B == {j \in F : AttOf(j).whole = t /\ ~IsSplit(j)}
           f == [i \in A |-> cost(i, AbsOf(Splits(i)[t]))]
           h == [i \in B |-> cost(i, raw[i].qty)]
           w == [i \in F |-> Weighted(i, t, CostOf[i])]
           S == A \cup B
           part == [i \in S |-> w[i]]
<1>1. F \in SUBSET DOMAIN raw /\ F \in SUBSET Final /\ IsFiniteSet(F)
  <2>1. Final \in SUBSET DOMAIN raw
    BY DEF Final, FlexRows, JournalRows
  <2>2. F \in SUBSET DOMAIN raw /\ F \in SUBSET Final
    BY <2>1 DEF SoldIn
  <2> HIDE DEF F
  <2> QED BY <2>2, RowsAreFinite, FS_Subset
<1>2. {i \in Options(Final) : ~raw[i].buy /\ raw[i].con.strike > 0} = F
  BY <1>1, CostIs DEF SoldIn, Options
<1>3. UnderlyingCost(t) = SumFunction(f) + SumFunction(h)
  <2> DEFINE sold == {i \in Options(Final) : ~raw[i].buy /\ raw[i].con.strike > 0}
  <2>1. UnderlyingCost(t) =
            SumFunction([i \in {j \in sold : t \in DOMAIN Splits(j)} |-> cost(i, AbsOf(Splits(i)[t]))])
            + SumFunction([i \in {j \in sold : AttOf(j).whole = t /\ ~IsSplit(j)} |-> cost(i, raw[i].qty)])
    BY Zenon DEF UnderlyingCost
  <2>2. sold = F
    BY <1>2
  <2> HIDE DEF sold, F
  <2> QED BY <2>1, <2>2, Zenon
<1>4. ASSUME NEW i \in F
      PROVE  /\ w[i] \in Int
             /\ t \in DOMAIN Splits(i) => w[i] = f[i]
             /\ AttOf(i).whole = t /\ ~IsSplit(i) => w[i] = h[i]
             /\ i \notin S => w[i] = 0
  <2>1. /\ CostOf[i] \in Int /\ CostOf[i] % Unit = 0 /\ CostOf[i] = raw[i].qty * (Multiplier * raw[i].con.strike)
        /\ Multiplier * raw[i].con.strike \in Int /\ i \in DOMAIN raw /\ raw[i].con.strike \in Nat
    BY <1>1, CostIs
  <2>2. w[i] \in Int /\ w[i] = Weighted(i, t, CostOf[i])
    BY <2>1, WeightIs
  <2>3. raw[i].qty \in Nat \ {0}
    BY <2>1, RowIs
  <2>4. ASSUME t \in DOMAIN Splits(i) PROVE w[i] = f[i]
    <3> DEFINE n == AbsOf(Splits(i)[t])
               q == raw[i].qty
               c == Multiplier * raw[i].con.strike
    <3>1. InSlice(i, t) /\ IsSplit(i) /\ ~OfNone(i)
      BY <2>4 DEF InSlice, IsSplit, OfNone
    <3>2. WhollyShared(i)
      BY <1>1, <3>1 DEF AllShared
    <3>3. Weighted(i, t, CostOf[i]) = SliceQty(i, t) * (CostOf[i] \div q) /\ SliceQty(i, t) \in Nat \ {0}
      BY <2>1, <3>1, <3>2, PartOf
    <3>4. SliceQty(i, t) = n
      BY <3>1 DEF SliceQty
    <3>5. CostOf[i] \div q = c
      <4> HIDE DEF c, q
      <4>1. (q * c) \div q = c
        BY <2>1, <2>3, Multiples DEF c, q
      <4> QED BY <2>1, <4>1 DEF c, q
    <3>6. f[i] = n * Multiplier * raw[i].con.strike
      BY <2>4
    <3>7. n * Multiplier * raw[i].con.strike = n * c
      <4>1. n \in Nat
        BY <3>3, <3>4
      <4> HIDE DEF n
      <4> QED BY <2>1, <4>1 DEF Multiplier
    <3> HIDE DEF n, c, q, f, w
    <3> QED BY <2>2, <3>3, <3>4, <3>5, <3>6, <3>7, Zenon
  <2>5. ASSUME AttOf(i).whole = t, ~IsSplit(i) PROVE w[i] = h[i]
    <3>1. Weighted(i, t, CostOf[i]) = CostOf[i]
      BY <2>5 DEF Weighted
    <3>2. h[i] = raw[i].qty * Multiplier * raw[i].con.strike
      BY <2>5
    <3>3. CostOf[i] = raw[i].qty * Multiplier * raw[i].con.strike
      BY <2>1 DEF CostOf
    <3> QED BY <2>2, <3>1, <3>2, <3>3, Zenon
  <2>6. ASSUME i \notin S PROVE w[i] = 0
    <3>1. t \notin DOMAIN Splits(i) /\ (IsSplit(i) \/ AttOf(i).whole # t)
      BY <2>6
    <3>2. Weighted(i, t, CostOf[i]) = 0
      BY <3>1 DEF Weighted
    <3> QED BY <2>2, <3>2
  <2> QED BY <2>2, <2>4, <2>5, <2>6
<1>5. A \cap B = {} /\ S \in SUBSET F
  BY DEF IsSplit
<1>6. SumFunction(f) = Total(f, A) /\ SumFunction(h) = Total(h, B)
  <2>1. A = DOMAIN f /\ B = DOMAIN h
    OBVIOUS
  <2> HIDE DEF f, h, A, B
  <2> QED BY <2>1, SumIs
<1>7. (\A i \in A : f[i] = part[i]) /\ (\A i \in B : h[i] = part[i]) /\ (\A i \in S : part[i] \in Int)
  <2> HIDE DEF w, F, f, h
  <2> QED BY <1>4
<1>8. \A i \in F : w[i] = IF i \in S THEN part[i] ELSE 0
  <2> HIDE DEF w, F, S
  <2> QED BY <1>4, Zenon
<1>9. A \cup B = S /\ A \in SUBSET F /\ B \in SUBSET F
  OBVIOUS
<1> HIDE DEF F, A, B, S, f, h, w, part
<1>10. IsFiniteSet(S) /\ IsFiniteSet(A) /\ IsFiniteSet(B)
  BY <1>1, <1>5, <1>9, FS_Subset
<1>11. Numbers(w, F) /\ Numbers(part, S) /\ Numbers(part, A) /\ Numbers(part, B)
  BY <1>4, <1>7, <1>9 DEF Numbers
<1>12. Total(w, F) = Total(part, S)
  BY <1>1, <1>5, <1>8, <1>11, TotalWithin
<1>13. Total(part, S) = Total(part, A) + Total(part, B)
  BY <1>5, <1>9, <1>10, <1>11, TotalSplits
<1>14. Total(f, A) = Total(part, A) /\ Total(h, B) = Total(part, B)
  BY <1>7, <1>10, <1>11, TotalSame
<1>15. UnderlyingCost(t) = Total(w, F)
  BY <1>3, <1>6, <1>12, <1>13, <1>14, Zenon
<1> QED BY <1>15, Zenon DEF GetsOf, F, w

LEMMA ActiveNames ==
    ASSUME ExecutionInv
    PROVE  /\ Active \in SUBSET Trades /\ IsFiniteSet(Active)
           /\ \A i \in Final : IF IsSplit(i) THEN DOMAIN Splits(i) \subseteq Active
                               ELSE AttOf(i).whole \in Active \cup {NoTrade}
<1>1. Active \in SUBSET Trades
  BY DEF Active
<1>2. IsFiniteSet(Active)
  BY <1>1, BookAssumption, FS_Subset
<1>3. ASSUME NEW i \in Final
      PROVE  IF IsSplit(i) THEN DOMAIN Splits(i) \subseteq Active ELSE AttOf(i).whole \in Active \cup {NoTrade}
  <2>1. DOMAIN Splits(i) \in SUBSET Trades /\ AttOf(i).whole \in Trades \cup {NoTrade}
    BY SplitIs, Zenon
  <2> QED BY <2>1 DEF Active, Named
<1> QED BY <1>1, <1>2, <1>3

\* The cards of the structures are those of all trades together.
LEMMA StructuresAdd ==
    ASSUME ExecutionInv, NEW since, NEW until, \A t \in Active : InstanceNet(since, until, t) \in Int
    PROVE  LET page == WinRate(since, until) IN
           CardNet(page.all) = SumFunction([s \in DOMAIN page.structures |-> CardNet(page.structures[s])])
<1> DEFINE page == WinRate(since, until)
           f == [t \in Active |-> InstanceNet(since, until, t)]
           K == {StructureOf[t] : t \in Active}
           of(s) == {t \in Active : StructureOf[t] = s}
           card(s) == Metrics(since, until, of(s))
           parts == [s \in K |-> CardNet(card(s))]
<1>1. page.all = Metrics(since, until, Active) /\ page.structures = [s \in K |-> card(s)]
  BY Zenon DEF WinRate
<1>2. [s \in DOMAIN page.structures |-> CardNet(page.structures[s])] = parts
  <2> HIDE DEF page, card, K
  <2> QED BY <1>1
<1>3. IsFiniteSet(Active) /\ Numbers(f, Active)
  BY ActiveNames DEF Numbers
<1>4. CardNet(page.all) = Total(f, Active)
  <2>1. CardNet(Metrics(since, until, Active)) = Total([t \in Active |-> InstanceNet(since, until, t)], Active)
    BY <1>3, CardsAdd, Zenon
  <2> QED BY <1>1, <2>1, Zenon
<1>5. ASSUME NEW s \in K PROVE parts[s] = Total(f, of(s))
  <2> DEFINE g == [t \in of(s) |-> InstanceNet(since, until, t)]
  <2>1. of(s) \in SUBSET Active /\ \A t \in of(s) : InstanceNet(since, until, t) \in Int
    OBVIOUS
  <2>2. IsFiniteSet(of(s))
    <3> HIDE DEF of
    <3> QED BY <1>3, <2>1, FS_Subset
  <2>3. CardNet(card(s)) = Total(g, of(s))
    <3> HIDE DEF of
    <3> QED BY <2>1, <2>2, CardsAdd, Zenon
  <2>4. Numbers(f, of(s)) /\ \A t \in of(s) : g[t] = f[t]
    BY DEF Numbers
  <2>5. parts[s] = CardNet(card(s))
    OBVIOUS
  <2> HIDE DEF of, g, f, parts, card
  <2>6. Total(g, of(s)) = Total(f, of(s))
    BY <2>2, <2>4, TotalSame
  <2> QED BY <2>3, <2>5, <2>6, Zenon
<1>6. IsFiniteSet(K) /\ \A t \in Active : StructureOf[t] \in K
  BY <1>3, ImageFinite
<1>7. PartsOf(StructureOf, f, Active, K, parts)
  <2> HIDE DEF parts, f, K
  <2> QED BY <1>5, Zenon DEF PartsOf
<1>8. SumFunction(parts) = Total(parts, K)
  <2>1. K = DOMAIN parts
    OBVIOUS
  <2> HIDE DEF parts, K
  <2> QED BY <2>1, SumIs
<1> HIDE DEF parts, f, K
<1>9. Total(parts, K) = Total(f, Active)
  BY <1>3, <1>6, <1>7, TotalByKey
<1>10. CardNet(page.all) = SumFunction(parts)
  BY <1>4, <1>8, <1>9, Zenon
<1> QED BY <1>2, <1>10, Zenon DEF page

LEMMA WinRateAdds ==
    ASSUME ExecutionInv, AmountsInv, Cardinality(Final) <= SummaryLimit, AllShared, NEW since, NEW until
    PROVE  LET page == WinRate(since, until)
               shared == OfTrades(Final)
           IN /\ CardNet(page.all) = SumFunction([i \in {j \in shared : InRange(j, since, until)} |-> Moved(i)])
              /\ page.all.cost = SumFunction([i \in {j \in Options(shared) : ~raw[j].buy} |->
                                                  raw[i].qty * Multiplier * raw[i].con.strike])
              /\ \A t \in Active : InstanceNet(since, until, t) \in Int
<1> DEFINE page == WinRate(since, until)
           F == InDays(since, until)
           G == SoldIn(Final)
           net == [t \in Active |-> InstanceNet(since, until, t)]
           cost == [t \in Active |-> UnderlyingCost(t)]
           P == {j \in OfTrades(Final) : InRange(j, since, until)}
           Q == {j \in Options(OfTrades(Final)) : ~raw[j].buy}
           moved == [i \in P |-> Moved(i)]
           sold == [i \in Q |-> raw[i].qty * Multiplier * raw[i].con.strike]
<1>1. Final \in SUBSET DOMAIN raw /\ IsFiniteSet(Final)
  <2>1. Final \in SUBSET DOMAIN raw
    BY DEF Final, FlexRows, JournalRows
  <2> QED BY <2>1, RowsAreFinite, FS_Subset
<1>2. F \in SUBSET Final /\ G \in SUBSET Final
  BY DEF InDays, SoldIn
<1>3. F \in SUBSET DOMAIN raw /\ G \in SUBSET DOMAIN raw /\ IsFiniteSet(F) /\ IsFiniteSet(G)
  <2> HIDE DEF F, G
  <2> QED BY <1>1, <1>2, FS_Subset
<1>4. P = OfTrades(F) /\ Q = OfTrades(G) /\ P \in SUBSET DOMAIN raw /\ Q \in SUBSET DOMAIN raw
  BY <1>1 DEF OfTrades, InDays, SoldIn, Options
<1>5. Active \in SUBSET Trades /\ IsFiniteSet(Active)
      /\ (\A i \in Final : IF IsSplit(i) THEN DOMAIN Splits(i) \subseteq Active
                          ELSE AttOf(i).whole \in Active \cup {NoTrade})
  BY ActiveNames, Zenon
<1>6. Amounts(MovedOf, F)
  <2> HIDE DEF F
  <2> QED BY <1>3, MovedIs DEF Amounts, MovedOf
<1>7. Amounts(CostOf, G)
  <2> HIDE DEF G
  <2> QED BY <1>3, CostIs DEF Amounts
<1>8. \A t \in Active : net[t] = GetsOf(MovedOf, F, t)
  BY <1>5, NetOfTrade
<1>9. \A t \in Active : cost[t] = GetsOf(CostOf, G, t)
  BY <1>5, CostOfTrade
<1>10. (\A i \in P : moved[i] = MovedOf[i]) /\ (\A i \in Q : sold[i] = CostOf[i])
  <2> HIDE DEF P, Q
  <2> QED BY <1>4 DEF MovedOf, CostOf
<1>11. P = DOMAIN moved /\ Q = DOMAIN sold
  OBVIOUS
<1>12. page.all = Metrics(since, until, Active)
  BY DEF WinRate
<1>13. \A t \in Active : net[t] = InstanceNet(since, until, t)
  OBVIOUS
<1> HIDE DEF page, F, G, net, cost, P, Q, moved, sold
<1>14. \A i \in F : IF IsSplit(i) THEN DOMAIN Splits(i) \subseteq Active ELSE AttOf(i).whole \in Active \cup {NoTrade}
  BY <1>2, <1>5, Zenon
<1>15. \A i \in G : IF IsSplit(i) THEN DOMAIN Splits(i) \subseteq Active ELSE AttOf(i).whole \in Active \cup {NoTrade}
  BY <1>2, <1>5, Zenon
<1>16. /\ Total(net, Active) = Total(MovedOf, P) /\ Numbers(net, Active) /\ IsFiniteSet(P) /\ Numbers(MovedOf, P)
  BY <1>3, <1>4, <1>5, <1>6, <1>8, <1>14, AmountsShared, Zenon
<1>17. /\ Total(cost, Active) = Total(CostOf, Q) /\ IsFiniteSet(Q) /\ Numbers(CostOf, Q)
  BY <1>3, <1>4, <1>5, <1>7, <1>9, <1>15, AmountsShared, Zenon
<1>18. SumFunction(moved) = Total(moved, P) /\ SumFunction(sold) = Total(sold, Q)
  BY <1>11, SumIs
<1>19. Total(moved, P) = Total(MovedOf, P) /\ Total(sold, Q) = Total(CostOf, Q)
  BY <1>10, <1>16, <1>17, TotalSame
<1>20. \A t \in Active : InstanceNet(since, until, t) \in Int
  BY <1>13, <1>16 DEF Numbers
<1>21. CardNet(page.all) = Total(net, Active) /\ page.all.cost = Total(cost, Active)
  <2>1. LET m == Metrics(since, until, Active) IN
            /\ CardNet(m) = Total([t \in Active |-> InstanceNet(since, until, t)], Active)
            /\ m.cost = Total([t \in Active |-> UnderlyingCost(t)], Active)
    BY <1>5, <1>20, CardsAdd
  <2> QED BY <1>12, <2>1, Zenon DEF net, cost
<1>22. CardNet(page.all) = SumFunction(moved) /\ page.all.cost = SumFunction(sold)
  BY <1>16, <1>17, <1>18, <1>19, <1>21, Zenon
<1> QED BY <1>20, <1>22, Zenon DEF page, moved, sold, P, Q

\* The win rate's cards are what the attributed fills of the range moved, however they are
\* split, linked and corrected (strategy_win_rate.compute_win_rate_by_structure,
\* instance_exec_net_pnl.compute_instance_exec_derived_net_pnl).
THEOREM ResultsWinRate == ResultSpec => []WinRateIsTheBook
<1>1. ASSUME ExecutionInv, AmountsInv PROVE WinRateIsTheBook
  <2> DEFINE shared == {i \in Final : IsSplit(i) \/ AttOf(i).whole # NoTrade}
             sold == {i \in Options(shared) : ~raw[i].buy}
  <2> SUFFICES ASSUME \A i \in shared : WhollyShared(i), Cardinality(Final) <= SummaryLimit, NEW b \in Bounds
               PROVE  LET page == WinRate(b[1], b[2])
                      IN /\ CardNet(page.all) = SumFunction([i \in {j \in shared : InRange(j, b[1], b[2])} |-> Moved(i)])
                         /\ page.all.cost = SumFunction([i \in sold |-> raw[i].qty * Multiplier * raw[i].con.strike])
                         /\ CardNet(page.all) = SumFunction([s \in DOMAIN page.structures |-> CardNet(page.structures[s])])
    BY Zenon DEF WinRateIsTheBook, CardNet, Moved
  <2>2. AllShared
    BY DEF AllShared, OfNone
  <2>3. LET page == WinRate(b[1], b[2])
        IN /\ CardNet(page.all) = SumFunction([i \in {j \in shared : InRange(j, b[1], b[2])} |-> Moved(i)])
           /\ page.all.cost = SumFunction([i \in sold |-> raw[i].qty * Multiplier * raw[i].con.strike])
           /\ \A t \in Active : InstanceNet(b[1], b[2], t) \in Int
    BY <1>1, <2>2, WinRateAdds, Zenon DEF OfTrades
  <2>4. LET page == WinRate(b[1], b[2])
        IN CardNet(page.all) = SumFunction([s \in DOMAIN page.structures |-> CardNet(page.structures[s])])
    BY <1>1, <2>3, StructuresAdd, Zenon
  <2> QED BY <2>3, <2>4, Zenon
<1> QED BY <1>1, ResultsInvariant, PTL


-----------------------------------------------------------------------------
(* Where a trade stands.                                                   *)

\* A split quantity has the fill's sign when the splits' sizes add up to the fill and so do
\* the splits: none of the differences between size and signed size can be more than zero.
LEMMA SplitsHaveTheSide ==
    ASSUME NEW D, IsFiniteSet(D), NEW s, Numbers(s, D), NEW n \in Int, NEW k \in {1, -1},
           Total([x \in D |-> AbsOf(s[x])], D) = n, Total(s, D) = k * n
    PROVE  \A x \in D : k * AbsOf(s[x]) = s[x]
<1> DEFINE a == [x \in D |-> AbsOf(s[x])]
           b == [x \in D |-> k * s[x]]
           g == [x \in D |-> AbsOf(s[x]) - k * s[x]]
<1>1. \A x \in D : a[x] \in Int /\ b[x] \in Int /\ g[x] \in Nat /\ a[x] = b[x] + g[x] /\ b[x] = k * s[x]
  <2> TAKE x \in D
  <2>1. s[x] \in Int
    BY DEF Numbers
  <2> QED BY <2>1, SMT DEF AbsOf
<1>2. g = [x \in D |-> AbsOf(s[x]) - k * s[x]] /\ a = [x \in D |-> AbsOf(s[x])]
  OBVIOUS
<1> HIDE DEF a, b, g
<1>3. Numbers(b, D) /\ Numbers(g, D)
  BY <1>1 DEF Numbers
<1>4. Total(a, D) = Total(b, D) + Total(g, D)
  BY <1>1, <1>3, TotalAdds
<1>5. Total(b, D) = k * Total(s, D)
  BY <1>1, TotalTimes
<1>6. k * (k * n) = n
  BY SMT
<1>7. Total(b, D) = n /\ Total(a, D) = n
  BY <1>2, <1>5, <1>6
<1>8. Total(g, D) \in Nat /\ \A x \in D : g[x] <= Total(g, D)
  BY <1>1, TotalNat
<1>9. Total(g, D) = 0
  BY <1>4, <1>7, <1>8, SMT
<1>10. ASSUME NEW x \in D PROVE k * AbsOf(s[x]) = s[x]
  <2>1. s[x] \in Int /\ g[x] \in Nat /\ g[x] <= 0 /\ g[x] = AbsOf(s[x]) - k * s[x]
    BY <1>1, <1>2, <1>8, <1>9 DEF Numbers
  <2> QED BY <2>1, SMT DEF AbsOf
<1> QED BY <1>10

\* What the position page counts of a fill, and what the legs of a trade do.
LEMMA LegIs ==
    ASSUME ExecutionInv, AmountsInv, NEW i \in DOMAIN raw, NEW t \in Trades
    PROVE  /\ Contribution(i, t) \in Int /\ (~Named(i, t) => Contribution(i, t) = 0)
           /\ ~IsSplit(i) /\ Named(i, t) => LegQty(i, t) = Signed(i)
           /\ OneWayOnly(i) /\ WhollyShared(i) /\ OfOneSign(i) => LegQty(i, t) = Contribution(i, t)
<1> DEFINE D == DOMAIN Splits(i)
           s == Splits(i)
<1>1. /\ D \in SUBSET Trades /\ IsFiniteSet(D) /\ NoTrade \notin Trades
      /\ \A x \in D : s[x] \in Int
      /\ SplitTotal(i) = Total([x \in D |-> AbsOf(s[x])], D)
  BY SplitIs
<1>2. raw[i].buy \in BOOLEAN /\ raw[i].qty \in Nat \ {0} /\ Side(i) \in {1, -1} /\ Signed(i) \in Int
      /\ Signed(i) = Side(i) * raw[i].qty
  <2>1. raw[i].buy \in BOOLEAN /\ raw[i].qty \in Nat \ {0}
    BY RowIs
  <2>2. CASE raw[i].buy
    BY <2>1, <2>2, SMT DEF Side, Signed
  <2>3. CASE ~raw[i].buy
    BY <2>1, <2>3, SMT DEF Side, Signed
  <2> QED BY <2>1, <2>2, <2>3
<1>3. Contribution(i, t) \in Int /\ (~Named(i, t) => Contribution(i, t) = 0)
  BY <1>1, <1>2 DEF Contribution, Named
<1>4. CASE ~IsSplit(i)
  <2>1. t \notin D
    BY <1>4 DEF IsSplit
  <2>2. LegQty(i, t) = IF AttOf(i).whole = t THEN Signed(i) ELSE 0
    BY <1>2, <2>1 DEF LegQty
  <2> QED BY <1>3, <1>4, <2>1, <2>2 DEF Contribution, Named
<1>5. CASE IsSplit(i)
  <2> SUFFICES ASSUME OneWayOnly(i), WhollyShared(i), OfOneSign(i) PROVE LegQty(i, t) = Contribution(i, t)
    BY <1>3, <1>5
  <2>1. AttOf(i).whole # t /\ SplitTotal(i) = raw[i].qty /\ SumFunction(s) = Signed(i)
    BY <1>1, <1>5 DEF OneWayOnly, WhollyShared, OfOneSign
  <2>2. Numbers(s, D) /\ Total(s, D) = Side(i) * raw[i].qty /\ Total([x \in D |-> AbsOf(s[x])], D) = raw[i].qty
    <3>1. SumFunction(s) = Total(s, D)
      BY SumOfSplits
    <3> QED BY <1>1, <1>2, <2>1, <3>1 DEF Numbers
  <2>3. LegQty(i, t) = IF t \in D THEN Side(i) * AbsOf(s[t]) ELSE 0
    <3>1. t \in D => Side(i) * AbsOf(s[t]) \in Int
      BY <1>1, <1>2, SMT DEF AbsOf
    <3> QED BY <2>1, <3>1 DEF LegQty
  <2>4. Contribution(i, t) = IF t \in D THEN s[t] ELSE 0
    BY <1>5 DEF Contribution
  <2> HIDE DEF s, D
  <2>5. \A x \in D : Side(i) * AbsOf(s[x]) = s[x]
    <3>1. raw[i].qty \in Int
      BY <1>2
    <3> QED BY <1>1, <1>2, <2>2, <3>1, SplitsHaveTheSide
  <2> QED BY <2>3, <2>4, <2>5
<1> QED BY <1>4, <1>5


\* A TWS row beside a Flex row of its exec_id is of the same fill, so that Flex row is on
\* every position it is on: a page never counts a row that the one book leaves out.
LEMMA CountedIs ==
    ASSUME ExecutionInv, AmountsInv, NEW a, NEW c
    PROVE  /\ Counted(a, c) \in SUBSET Canonical
           /\ Counted(a, c) \in SUBSET {i \in DOMAIN raw : OnPosition(i, a, c)}
<1> DEFINE on(S) == {i \in S : OnPosition(i, a, c)}
<1>1. Counted(a, c) = IF on(Final) # {} THEN on(Final) ELSE on(TwsRows)
  BY Zenon DEF Counted
<1>2. Final \in SUBSET Canonical /\ Final \in SUBSET DOMAIN raw /\ TwsRows \in SUBSET DOMAIN raw
  BY DEF Final, Canonical, FlexRows, TwsRows, JournalRows
<1>3. ASSUME NEW i \in on(TwsRows), InFlex(i) PROVE on(Final) # {}
  <2>1. PICK j \in FlexRows : raw[j].exec = raw[i].exec
    BY <1>3 DEF InFlex
  <2>2. i \in DOMAIN raw /\ j \in DOMAIN raw /\ j > 0 /\ i \in TwsRows /\ j \in Final
    BY <2>1 DEF TwsRows, FlexRows, Final
  <2>3. OfItsFill(i) /\ OfItsFill(j)
    BY <2>2 DEF ExecutionInv, RowsInv
  <2>4. raw[i].exec = FillOf(i) /\ FillOf(i) \in Fills /\ j \in Int /\ FillOf(j) = j
    BY <2>1, <2>2, <2>3 DEF OfItsFill, FillOf
  <2>5. raw[j].exec = JournalBase + j \/ raw[j].exec = j
    BY <2>1, <2>3 DEF OfItsFill
  <2>6. FillOf(i) \in Nat /\ FillOf(i) < JournalBase
    <3>1. BrokerInv
      BY DEF ExecutionInv
    <3>2. Fills = 1 .. Len(broker) /\ Len(broker) \in Nat /\ Len(broker) < JournalBase
      BY <3>1, FillFacts
    <3> QED BY <2>4, <3>2, SMT DEF JournalBase
  <2>7. FillOf(i) = FillOf(j)
    BY <2>1, <2>2, <2>4, <2>5, <2>6, SMT DEF JournalBase
  <2>8. raw[j].acct = raw[i].acct /\ raw[j].con = raw[i].con /\ raw[j].sec = raw[i].sec
    BY <2>2, <2>7, RowIs
  <2>9. OnPosition(j, a, c)
    <3>1. OnPosition(i, a, c)
      OBVIOUS
    <3> QED BY <2>8, <3>1, Zenon DEF OnPosition
  <2> QED BY <2>2, <2>9
<1>4. ASSUME NEW i \in Counted(a, c) PROVE i \in Canonical /\ i \in DOMAIN raw /\ OnPosition(i, a, c)
  <2>1. CASE on(Final) # {}
    BY <1>1, <1>2, <1>4, <2>1
  <2>2. CASE on(Final) = {}
    <3>1. i \in on(TwsRows)
      BY <1>1, <1>4, <2>2
    <3>2. ~InFlex(i)
      BY <1>3, <2>2, <3>1
    <3> QED BY <1>2, <3>1, <3>2 DEF Canonical
  <2> QED BY <2>1, <2>2
<1> QED BY <1>4

\* The fills of a trade, those of one contract, their legs' net and last day.
FillsOf(t) == {i \in Options(Canonical) : Named(i, t)}
FillsOn(t, c) == {i \in FillsOf(t) : raw[i].con = c}
LegNet(t, c) == SumFunction([i \in FillsOn(t, c) |-> LegQty(i, t)])
LegLast(t, c) == Max({FifoDay(i) : i \in FillsOn(t, c)})
LegCons(t) == {raw[i].con : i \in FillsOf(t)}
HeldOf(t) == {c \in LegCons(t) : LegNet(t, c) # 0}
\* The hypotheses of StatesAgree.
Orderly(t) ==
    /\ \A i \in FillsOf(t) :
           LET on == Counted(raw[i].acct, raw[i].con)
           IN OneWayOnly(i) /\ WhollyShared(i) /\ OfOneSign(i) /\ i \in on /\ \A j \in on : raw[j].con = raw[i].con
    /\ \A i, j \in FillsOf(t) : raw[i].con = raw[j].con => raw[i].acct = raw[j].acct

\* The fills of a trade are option rows of the one book.
LEMMA FillsAre ==
    ASSUME ExecutionInv, AmountsInv, NEW t \in Trades
    PROVE  /\ FillsOf(t) \in SUBSET DOMAIN raw /\ IsFiniteSet(FillsOf(t))
           /\ \A i \in FillsOf(t) : /\ i \in Canonical /\ raw[i].sec = "OPT" /\ Named(i, t)
                                    /\ raw[i].con.right # "-" /\ raw[i].acct \in Accounts /\ raw[i].con \in Contracts
<1>1. FillsOf(t) \in SUBSET DOMAIN raw /\ IsFiniteSet(DOMAIN raw)
      /\ \A i \in FillsOf(t) : i \in Canonical /\ raw[i].sec = "OPT" /\ Named(i, t)
  BY RowsAreFinite DEF Canonical, FlexRows, TwsRows, JournalRows, FillsOf, Options
<1>2. IsFiniteSet(FillsOf(t))
  BY <1>1, FS_Subset
<1>3. ASSUME NEW i \in FillsOf(t)
      PROVE  raw[i].con.right # "-" /\ raw[i].acct \in Accounts /\ raw[i].con \in Contracts
  <2>1. i \in DOMAIN raw /\ raw[i].sec = "OPT"
    BY <1>1
  <2> DEFINE s == broker[FillOf(i)]
  <2>2. s \in Shapes /\ raw[i].acct = s.acct /\ raw[i].con = s.con /\ raw[i].sec = s.sec
    BY <2>1, RowIs
  <2> HIDE DEF s
  <2>3. s.con.right # "-"
    BY <2>1, <2>2, ShapeAmounts
  <2> QED BY <2>2, <2>3 DEF Accounts, Contracts
<1> QED BY <1>1, <1>2, <1>3

\* A fill attributed one way names the trades it is listed under, and no others.
LEMMA NamesAre ==
    ASSUME ExecutionInv, AmountsInv, NEW i \in DOMAIN raw, NEW t \in Trades
    PROVE  (t \in NamedBy(i) => Named(i, t)) /\ (OneWayOnly(i) /\ Named(i, t) => t \in NamedBy(i))
<1>1. t # NoTrade
  BY BookAssumption
<1> QED BY <1>1, Zenon DEF NamedBy, Named, OneWayOnly, IsSplit

\* The page of a fill's position has for the trade what its leg has.
LEMMA HeldIs ==
    ASSUME ExecutionInv, AmountsInv, NEW t \in Trades, Orderly(t)
    PROVE  /\ \A i \in FillsOf(t) : LegQty(i, t) \in Int /\ (~IsSplit(i) => LegQty(i, t) = Signed(i))
           /\ \A i \in FillsOf(t) : OpenQty(raw[i].acct, raw[i].con, t) = LegNet(t, raw[i].con)
<1>1. FillsOf(t) \in SUBSET DOMAIN raw
      /\ \A i \in FillsOf(t) : i \in Canonical /\ raw[i].sec = "OPT" /\ Named(i, t) /\ raw[i].con.right # "-"
  BY FillsAre
<1>2. \A i \in FillsOf(t) : /\ LegQty(i, t) = Contribution(i, t) /\ LegQty(i, t) \in Int
                            /\ (~IsSplit(i) => LegQty(i, t) = Signed(i))
  BY <1>1, LegIs DEF Orderly
<1>3. ASSUME NEW k \in FillsOf(t) PROVE OpenQty(raw[k].acct, raw[k].con, t) = LegNet(t, raw[k].con)
  <2> DEFINE a == raw[k].acct
             c == raw[k].con
             on == FillsOn(t, c)
             f == [i \in on |-> LegQty(i, t)]
             C == Counted(a, c)
             g == [i \in C |-> Contribution(i, t)]
  <2>1. \A i \in on : i \in FillsOf(t) /\ raw[i].con = c /\ raw[i].acct = a
    BY DEF FillsOn, Orderly
  <2>2. on \in SUBSET C
    <3>1. \A i \in FillsOf(t) : i \in Counted(raw[i].acct, raw[i].con)
      BY Zenon DEF Orderly
    <3> QED BY <2>1, <3>1
  <2>3. \A i \in C : i \in DOMAIN raw /\ i \in Canonical /\ raw[i].con = c
    <3>1. \A i \in C : raw[i].con = c
      BY Zenon DEF Orderly
    <3> QED BY <3>1, CountedIs
  <2>4. ASSUME NEW i \in C
        PROVE  Contribution(i, t) \in Int /\ (i \notin on => Contribution(i, t) = 0)
    <3>1. raw[i].sec = "OPT"
      <4>1. \A j \in DOMAIN raw : raw[j].sec = "OPT" <=> raw[j].con.right # "-"
        BY RowIs, ShapeAmounts
      <4> QED BY <1>1, <2>3, <4>1
    <3>2. Named(i, t) => i \in on
      BY <2>3, <3>1 DEF FillsOn, FillsOf, Options
    <3> QED BY <2>3, <3>2, LegIs
  <2>5. IsFiniteSet(C)
    <3>1. C \in SUBSET DOMAIN raw
      BY <2>3
    <3> QED BY <3>1, RowsAreFinite, FS_Subset
  <2>6. OpenQty(a, c, t) = Total(g, C)
    <3>1. OpenQty(a, c, t) = Contributions(t, C)
      BY Zenon DEF OpenQty, Contributions
    <3> QED BY <2>4, <2>5, <3>1, SumOfContributions
  <2>7. Numbers(g, C) /\ Numbers(f, on) /\ \A i \in C : g[i] = IF i \in on THEN f[i] ELSE 0
    BY <1>2, <2>1, <2>2, <2>4, Zenon DEF Numbers
  <2>8. LegNet(t, c) = Total(f, on)
    BY SumIs, Zenon DEF LegNet
  <2> HIDE DEF C, g, f, on
  <2>9. Total(g, C) = Total(f, on)
    BY <2>2, <2>5, <2>7, TotalWithin
  <2> QED BY <2>6, <2>8, <2>9
<1> QED BY <1>2, <1>3

\* What the positions of a fill's contract give the trade: all of them, or none.
Gives(t, i) ==
    {q \in Parts : \E r \in AttributionRows([acct |-> raw[i].acct, con |-> raw[i].con, qty |-> q]) :
                       r.trade = t /\ r.qty # 0}
LEMMA GivesIs ==
    ASSUME ExecutionInv, AmountsInv, NEW t \in Trades, Orderly(t), NEW i \in FillsOf(t)
    PROVE  Gives(t, i) = IF raw[i].con \in HeldOf(t) THEN Parts ELSE {}
<1> DEFINE a == raw[i].acct
           c == raw[i].con
           on == Counted(a, c)
           named == UNION {NamedBy(j) : j \in on}
<1>1. OpenQty(a, c, t) = LegNet(t, c) /\ c \in LegCons(t)
  BY HeldIs DEF LegCons
<1>2. t \in named /\ on # {}
  <2>1. i \in on /\ OneWayOnly(i) /\ Named(i, t) /\ i \in DOMAIN raw
    BY FillsAre DEF Orderly
  <2>2. t \in NamedBy(i)
    BY <2>1, NamesAre
  <2> QED BY <2>1, <2>2
<1>3. ASSUME NEW q \in Parts
      PROVE  (\E r \in RowsOf(a, c, q) : r.trade = t /\ r.qty # 0) <=> OpenQty(a, c, t) # 0
  <2> DEFINE row(x) == [trade |-> x, qty |-> OpenQty(a, c, x),
                        fills |-> Cardinality({j \in on : x \in NamedBy(j)}),
                        mixed |-> Cardinality(named) > 1, unassigned |-> NoTrade \in named]
             p == [acct |-> a, con |-> c, qty |-> q]
             rows == RowsOf(a, c, q)
             z == OpenQty(a, c, t) # 0
  <2>1. q # 0
    BY BookAssumption
  <2>2. p.acct = a /\ p.con = c /\ p.qty = q /\ rows = AttributionRows(p)
    BY DEF RowsOf
  <2>3. rows = {row(x) : x \in named}
    <3> HIDE DEF p, rows, a, c
    <3> QED BY <1>2, <2>1, <2>2, Zenon DEF AttributionRows
  <2>4. \A x \in named : row(x).trade = x /\ row(x).qty = OpenQty(a, c, x)
    OBVIOUS
  <2> HIDE DEF row, named, rows, a, c
  <2>5. ASSUME z PROVE \E r \in rows : r.trade = t /\ r.qty # 0
    <3>1. row(t) \in rows /\ row(t).trade = t /\ row(t).qty = OpenQty(a, c, t)
      BY <1>2, <2>3, <2>4, Zenon
    <3> QED BY <2>5, <3>1, Zenon
  <2>6. ASSUME NEW r \in rows, r.trade = t, r.qty # 0 PROVE z
    <3>1. PICK x \in named : r = row(x)
      BY <2>3, <2>6, Zenon
    <3>2. x = t /\ r.qty = OpenQty(a, c, t)
      BY <2>4, <2>6, <3>1, Zenon
    <3> QED BY <2>6, <3>2, Zenon
  <2> QED BY <2>5, <2>6, Zenon DEF rows
<1>4. OpenQty(a, c, t) # 0 <=> c \in HeldOf(t)
  BY <1>1, Zenon DEF HeldOf
<1>5. \A q \in Parts : q \in Gives(t, i) <=> c \in HeldOf(t)
  BY <1>3, <1>4, Zenon DEF Gives, RowsOf
<1>6. Gives(t, i) \subseteq Parts
  BY Zenon DEF Gives
<1> HIDE DEF a, c
<1>7. Gives(t, i) = IF c \in HeldOf(t) THEN Parts ELSE {}
  BY <1>5, <1>6
<1> QED BY <1>7 DEF c


\* Two sets of numbers, each of whose members one of the other's is at least.
LEMMA SameMax ==
    ASSUME NEW A \in SUBSET Int, IsFiniteSet(A), A # {}, NEW B \in SUBSET Int, IsFiniteSet(B), B # {},
           \A x \in A : \E y \in B : x <= y, \A y \in B : \E x \in A : y <= x
    PROVE  Max(A) = Max(B)
<1>1. Max(A) \in A /\ \A x \in A : x <= Max(A)
  BY Extremes, Zenon
<1>2. Max(B) \in B /\ \A x \in B : x <= Max(B)
  BY Extremes, Zenon
<1>3. PICK y \in B : Max(A) <= y
  BY <1>1, Zenon
<1>4. PICK x \in A : Max(B) <= x
  BY <1>2, Zenon
<1>5. Max(A) \in Int /\ Max(B) \in Int /\ x \in Int /\ y \in Int /\ x <= Max(A) /\ y <= Max(B)
  BY <1>1, <1>2, <1>3, <1>4, Zenon
<1> QED BY <1>3, <1>4, <1>5, SMT

\* Once no contract has a net each of the trade's fills, none of them split, is in a pair.
LEMMA AllPaired ==
    ASSUME ExecutionInv, AmountsInv, NEW t \in Trades, Orderly(t),
           \A c \in LegCons(t) : LegNet(t, c) = 0, \A i \in FillsOf(t) : ~IsSplit(i)
    PROVE  \A i \in FillsOf(t) : \E p \in PairsOf(FillsOf(t)) : i \in {p.open, p.close}
<1> DEFINE F == FillsOf(t)
<1>1. F \in SUBSET DOMAIN raw /\ IsFiniteSet(F) /\ \A i \in F : raw[i].sec = "OPT" /\ LegQty(i, t) = Signed(i)
      /\ LegQty(i, t) \in Int
  BY HeldIs, FillsAre
<1>2. Legs(F)
  BY <1>1, AllLegs
<1>3. ASSUME NEW i \in F PROVE \E p \in PairsOf(F) : i \in {p.open, p.close}
  <2> DEFINE G == GroupOf(Group(i), F)
             K == {raw[j].con : j \in G}
             f == [j \in G |-> Signed(j)]
             key == [j \in G |-> raw[j].con]
             parts == [c \in K |-> 0]
  <2>1. G \in SUBSET F /\ i \in G /\ IsFiniteSet(G) /\ \A j \in G : Group(j) = Group(i)
    <3>1. G \in SUBSET F /\ i \in G
      BY <1>1 DEF GroupOf
    <3> QED BY <1>1, <3>1, FS_Subset DEF GroupOf
  <2>2. Legs(G)
    BY <1>2, <2>1, SomeLegs
  <2>3. IsFiniteSet(K)
    <3>1. K = {key[j] : j \in G}
      OBVIOUS
    <3> HIDE DEF key, K, G
    <3> QED BY <2>1, <3>1, ImageFinite
  <2>4. ASSUME NEW c \in K PROVE {j \in G : key[j] = c} = FillsOn(t, c) /\ c \in LegCons(t)
    <3>1. PICK k \in G : raw[k].con = c
      OBVIOUS
    <3>2. ASSUME NEW j \in F, raw[j].con = c PROVE Group(j) = Group(i)
      <4>1. raw[j].acct = raw[k].acct /\ k \in F
        BY <2>1, <3>1, <3>2 DEF Orderly
      <4>2. Group(j) = Group(k)
        BY <3>1, <3>2, <4>1 DEF Group
      <4> QED BY <2>1, <4>2
    <3>3. \A j \in F : raw[j].con = c => j \in G
      BY <1>1, <3>2 DEF GroupOf
    <3>4. \A j \in G : key[j] = raw[j].con
      OBVIOUS
    <3> HIDE DEF key, G
    <3> QED BY <2>1, <3>1, <3>3, <3>4 DEF FillsOn, LegCons
  <2>5. Numbers(f, G) /\ \A j \in G : key[j] \in K
    BY <1>1, <2>1 DEF Numbers
  <2>6. ASSUME NEW c \in K PROVE parts[c] = Total(f, {j \in G : key[j] = c})
    <3> DEFINE h == [j \in FillsOn(t, c) |-> LegQty(j, t)]
    <3>1. LegNet(t, c) = Total(h, FillsOn(t, c)) /\ LegNet(t, c) = 0 /\ FillsOn(t, c) \in SUBSET G
      <4>1. LegNet(t, c) = Total(h, FillsOn(t, c))
        BY SumIs, Zenon DEF LegNet
      <4> QED BY <2>4, <4>1, Zenon
    <3>2. Numbers(f, FillsOn(t, c)) /\ IsFiniteSet(FillsOn(t, c)) /\ \A j \in FillsOn(t, c) : h[j] = f[j]
      BY <1>1, <2>1, <2>5, <3>1, FS_Subset DEF Numbers
    <3> HIDE DEF f, h, G, key
    <3>3. Total(h, FillsOn(t, c)) = Total(f, FillsOn(t, c))
      BY <3>2, TotalSame
    <3> QED BY <2>4, <3>1, <3>3, Zenon
  <2>7. PartsOf(key, f, G, K, parts)
    BY <2>6, Zenon DEF PartsOf
  <2>8. \A c \in K : parts[c] = IF c \in {} THEN parts[c] ELSE 0
    OBVIOUS
  <2>9. Numbers(parts, K) /\ Numbers(parts, {}) /\ {} \in SUBSET K
    BY DEF Numbers
  <2>10. SumFunction(f) = Total(f, G)
    BY SumIs
  <2>11. G = GroupOf(Group(i), F) /\ F = FillsOf(t) /\ f = [j \in G |-> Signed(j)]
    OBVIOUS
  <2> HIDE DEF G, K, f, key, parts, F
  <2>12. Total(parts, K) = Total(f, G)
    BY <2>1, <2>3, <2>5, <2>7, TotalByKey
  <2>13. Total(parts, K) = Total(parts, {})
    BY <2>3, <2>8, <2>9, TotalWithin
  <2>14. SumFunction([j \in G |-> Signed(j)]) = 0
    BY <2>10, <2>11, <2>12, <2>13, TotalNone, Zenon
  <2>15. Flat(G)
    <3> DEFINE m == Total(Quantity, OfSide(TRUE, G))
               n == Total(Quantity, OfSide(FALSE, G))
    <3>1. 0 = m - n /\ m \in Nat /\ n \in Nat
      BY <2>2, <2>14, SignedSides, Zenon
    <3> HIDE DEF m, n
    <3>2. m = n
      BY <3>1, SMT
    <3> QED BY <3>2, Zenon DEF m, n, Flat
  <2>16. PICK p \in Rounds(G) : i \in {p.open, p.close}
    BY <2>1, <2>2, <2>15, FlatPairs
  <2>17. p \in PairsOf(F)
    BY <1>1, <1>2, <2>11, <2>16, PairsMeet
  <2> QED BY <2>16, <2>17
<1> QED BY <1>3 DEF F

\* A trade that holds nothing closed on the day of its last pair.
LEMMA ClosedOn ==
    ASSUME ExecutionInv, AmountsInv, NEW t \in Trades, Orderly(t), FillsOf(t) # {},
           \A c \in LegCons(t) : LegNet(t, c) = 0, \A i \in FillsOf(t) : ~IsSplit(i)
    PROVE  Max({LegLast(t, c) : c \in LegCons(t)}) = Max({RealizedOn(p) : p \in PairsOf(FillsOf(t))})
<1> DEFINE F == FillsOf(t)
           C == LegCons(t)
           P == PairsOf(F)
           last == [c \in C |-> LegLast(t, c)]
           day == [p \in P |-> RealizedOn(p)]
           con == [i \in F |-> raw[i].con]
<1>1. F \in SUBSET DOMAIN raw /\ IsFiniteSet(F)
  BY FillsAre
<1>2. Legs(F)
  BY <1>1, AllLegs
<1>3. \A i \in F : FifoDay(i) \in Nat
  BY <1>2, FifoOrders
<1>4. ASSUME NEW c \in C
      PROVE  /\ LegLast(t, c) \in Nat
             /\ \E i \in F : LegLast(t, c) = FifoDay(i)
             /\ \A i \in F : raw[i].con = c => FifoDay(i) <= LegLast(t, c)
  <2> DEFINE on == FillsOn(t, c)
             d == [i \in on |-> FifoDay(i)]
             D == {FifoDay(i) : i \in on}
  <2>1. on \in SUBSET F /\ on # {} /\ \A i \in F : raw[i].con = c => i \in on
    BY <1>4 DEF LegCons, FillsOn
  <2>2. D = {d[i] : i \in on} /\ D \in SUBSET Int /\ D # {}
    BY <1>3, <2>1
  <2>3. IsFiniteSet(on)
    BY <1>1, <2>1, FS_Subset
  <2>4. LegLast(t, c) = Max(D)
    BY Zenon DEF LegLast
  <2>5. \A x \in D : \E i \in F : x = FifoDay(i)
    BY <2>1
  <2>6. \A i \in F : raw[i].con = c => FifoDay(i) \in D
    BY <2>1
  <2> HIDE DEF D, d, on, F
  <2>7. IsFiniteSet(D)
    BY <2>2, <2>3, ImageFinite
  <2>8. Max(D) \in D /\ \A x \in D : x <= Max(D)
    BY <2>2, <2>7, Extremes, Zenon
  <2> QED BY <1>3, <2>4, <2>5, <2>6, <2>8
<1>5. IsFiniteSet(P) /\ \A p \in P : p.open \in F /\ p.close \in F /\ RealizedOn(p) = FifoDay(p.close)
                                     /\ FifoDay(p.open) <= FifoDay(p.close) /\ FifoDay(p.close) \in Nat
  BY <1>2, PairsMeet, PairIs
<1>6. \A i \in F : \E p \in P : i \in {p.open, p.close}
  BY AllPaired
<1>7. C = {con[i] : i \in F} /\ \A i \in F : raw[i].con \in C
  BY DEF LegCons
<1>8. {LegLast(t, c) : c \in C} = {last[c] : c \in C} /\ {RealizedOn(p) : p \in P} = {day[p] : p \in P}
  OBVIOUS
<1>9. F # {} /\ C # {} /\ P # {}
  BY <1>6, <1>7
<1>10. (\A c \in C : last[c] = LegLast(t, c)) /\ (\A p \in P : day[p] = RealizedOn(p))
  OBVIOUS
<1> HIDE DEF F, C, P, last, day, con
<1>11. IsFiniteSet(C)
  BY <1>1, <1>7, ImageFinite
<1> DEFINE A == {last[c] : c \in C}
           B == {day[p] : p \in P}
<1>12. A \in SUBSET Int /\ A # {} /\ B \in SUBSET Int /\ B # {}
  BY <1>4, <1>5, <1>9, <1>10
<1>13. IsFiniteSet(A) /\ IsFiniteSet(B)
  BY <1>5, <1>11, ImageFinite
<1>14. ASSUME NEW x \in A PROVE \E y \in B : x <= y
  <2>1. PICK c \in C : x = LegLast(t, c)
    BY <1>10
  <2>2. PICK i \in F : x = FifoDay(i)
    BY <1>4, <2>1
  <2>3. PICK p \in P : i \in {p.open, p.close}
    BY <1>6
  <2>4. x <= RealizedOn(p) /\ day[p] = RealizedOn(p)
    <3>1. FifoDay(i) <= FifoDay(p.close)
      BY <1>3, <1>5, <2>3
    <3> QED BY <1>5, <1>10, <2>2, <3>1
  <2> QED BY <2>4
<1>15. ASSUME NEW y \in B PROVE \E x \in A : y <= x
  <2>1. PICK p \in P : y = RealizedOn(p)
    BY <1>10
  <2>2. p.close \in F /\ y = FifoDay(p.close)
    BY <1>5, <2>1
  <2>3. raw[p.close].con \in C
    BY <1>7, <2>2
  <2>4. y <= LegLast(t, raw[p.close].con) /\ last[raw[p.close].con] = LegLast(t, raw[p.close].con)
    BY <1>4, <1>10, <2>2, <2>3
  <2> QED BY <2>3, <2>4
<1> HIDE DEF A, B
<1>16. Max(A) = Max(B)
  BY <1>12, <1>13, <1>14, <1>15, SameMax
<1> QED BY <1>8, <1>16, Zenon DEF A, B, C, F, P


\* The legs of a trade, one for each contract, and the state they say.
LegAt(t, c) == [con |-> c, net |-> LegNet(t, c), last |-> LegLast(t, c)]
OverBy(t, today) == \A c \in HeldOf(t) : c.expiry # 0 /\ c.expiry < today
LEMMA StateIs ==
    ASSUME NEW t \in Trades, NEW today
    PROVE  LET now == StateOf(t, today) IN
           /\ FillsOf(t) = {} => now.state = "no_fills"
           /\ FillsOf(t) # {} /\ HeldOf(t) = {} =>
                  now = [state |-> "closed", on |-> Max({LegLast(t, c) : c \in LegCons(t)})]
           /\ HeldOf(t) # {} /\ OverBy(t, today) => now.state = "expired"
           /\ HeldOf(t) # {} /\ ~OverBy(t, today) => now.state = "open"
<1> DEFINE all == LegsOf(t)
           open == {l \in all : l.net # 0}
<1>1. all = {LegAt(t, c) : c \in LegCons(t)}
  BY DEF LegsOf, LegAt, FillsOf, FillsOn, LegNet, LegLast, LegCons
<1>2. \A c \in LegCons(t) : LegAt(t, c).con = c /\ LegAt(t, c).net = LegNet(t, c) /\ LegAt(t, c).last = LegLast(t, c)
  BY DEF LegAt
<1>3. LegCons(t) = {} <=> FillsOf(t) = {}
  BY Zenon DEF LegCons
<1>4. HeldOf(t) \subseteq LegCons(t) /\ \A c \in LegCons(t) : c \in HeldOf(t) <=> LegNet(t, c) # 0
  BY DEF HeldOf
<1>5. open = {LegAt(t, c) : c \in HeldOf(t)}
  BY <1>1, <1>2, <1>4
<1>6. StateOf(t, today) =
         CASE all = {} -> [state |-> "no_fills", on |-> 0]
           [] all # {} /\ open = {} -> [state |-> "closed", on |-> Max({l.last : l \in all})]
           [] open # {} /\ (\A l \in open : l.con.expiry # 0 /\ l.con.expiry < today) ->
                  [state |-> "expired", on |-> Max({l.con.expiry : l \in open})]
           [] OTHER -> [state |-> "open", on |-> 0]
  BY Zenon DEF StateOf
<1>7. {l.last : l \in all} = {LegLast(t, c) : c \in LegCons(t)}
  BY <1>1, <1>2
<1>8. (\A l \in open : l.con.expiry # 0 /\ l.con.expiry < today) <=> OverBy(t, today)
  BY <1>2, <1>4, <1>5 DEF OverBy
<1>9. (all = {} <=> FillsOf(t) = {}) /\ (open = {} <=> HeldOf(t) = {}) /\ (open # {} => all # {})
  BY <1>1, <1>3, <1>4, <1>5
<1> DEFINE over == \A l \in open : l.con.expiry # 0 /\ l.con.expiry < today
           expiries == Max({l.con.expiry : l \in open})
           lasts == {l.last : l \in all}
<1> HIDE DEF all, open, over, expiries, lasts
<1>10. StateOf(t, today) =
         CASE all = {} -> [state |-> "no_fills", on |-> 0]
           [] all # {} /\ open = {} -> [state |-> "closed", on |-> Max(lasts)]
           [] open # {} /\ over -> [state |-> "expired", on |-> expiries]
           [] OTHER -> [state |-> "open", on |-> 0]
  BY <1>6 DEF over, expiries, lasts
<1>11. lasts = {LegLast(t, c) : c \in LegCons(t)} /\ (over <=> OverBy(t, today))
  BY <1>7, <1>8 DEF lasts, over
<1>12. CASE all = {}
  BY <1>9, <1>10, <1>12
<1>13. CASE all # {} /\ open = {}
  <2>1. StateOf(t, today) = [state |-> "closed", on |-> Max(lasts)]
    BY <1>10, <1>13
  <2> QED BY <1>9, <1>11, <1>13, <2>1
<1>14. CASE open # {} /\ over
  BY <1>9, <1>10, <1>11, <1>14
<1>15. CASE open # {} /\ ~over
  <2>1. StateOf(t, today) = [state |-> "open", on |-> 0]
    BY <1>9, <1>10, <1>15
  <2> QED BY <1>9, <1>11, <1>15, <2>1
<1> QED BY <1>12, <1>13, <1>14, <1>15

\* Whether a fill on an option position names the trade.
Listed(t) ==
    \E a \in Accounts, c \in Contracts : c.right # "-" /\ \E i \in Counted(a, c) : t \in NamedBy(i)
LEMMA ListedIs ==
    ASSUME ExecutionInv, AmountsInv, NEW t \in Trades, Orderly(t)
    PROVE  Listed(t) <=> FillsOf(t) # {}
<1>1. ASSUME NEW i \in FillsOf(t) PROVE Listed(t)
  <2>1. /\ i \in Counted(raw[i].acct, raw[i].con) /\ OneWayOnly(i) /\ Named(i, t) /\ i \in DOMAIN raw
        /\ raw[i].acct \in Accounts /\ raw[i].con \in Contracts /\ raw[i].con.right # "-"
    BY FillsAre DEF Orderly
  <2>2. t \in NamedBy(i)
    BY <2>1, NamesAre
  <2> QED BY <2>1, <2>2, Zenon DEF Listed
<1>2. ASSUME NEW a \in Accounts, NEW c \in Contracts, c.right # "-", NEW i \in Counted(a, c), t \in NamedBy(i)
      PROVE  i \in FillsOf(t)
  <2>1. i \in Canonical /\ i \in DOMAIN raw /\ OnPosition(i, a, c)
    BY CountedIs
  <2>2. raw[i].sec = "OPT"
    BY <1>2, <2>1, Zenon DEF OnPosition
  <2>3. Named(i, t)
    BY <1>2, <2>1, NamesAre
  <2> QED BY <2>1, <2>2, <2>3 DEF FillsOf, Options
<1>3. Listed(t) => FillsOf(t) # {}
  <2> SUFFICES ASSUME Listed(t) PROVE FillsOf(t) # {}
    OBVIOUS
  <2>1. PICK a \in Accounts, c \in Contracts : c.right # "-" /\ \E i \in Counted(a, c) : t \in NamedBy(i)
    BY Zenon DEF Listed
  <2> QED BY <1>2, <2>1, Zenon
<1> QED BY <1>1, <1>3

Past(i, today) == raw[i].con.expiry # 0 /\ raw[i].con.expiry < today

\* A trade's state is what the positions of its fills' contracts give it, for any quantity the
\* broker lists, and its pairs say, for any fills and splits (StatesAgree of TradeResults).
THEOREM ResultsStates == ResultSpec => []StatesAgree
<1>1. ASSUME ExecutionInv, AmountsInv PROVE StatesAgree
  <2> DEFINE agrees(t, today) ==
                 LET now == StateOf(t, today)
                 IN /\ now.state = "no_fills" <=> ~Listed(t)
                    /\ now.state = "closed" => \A i \in FillsOf(t) : Gives(t, i) = {}
                    /\ now.state = "expired" => \A i \in FillsOf(t) : Gives(t, i) # {} => Past(i, today)
                    /\ now.state = "expired" => \E i \in FillsOf(t) : Gives(t, i) = Parts
                    /\ now.state = "open" => \E i \in FillsOf(t) : Gives(t, i) = Parts /\ ~Past(i, today)
                    /\ now.state = "closed" /\ (\A i \in FillsOf(t) : ~IsSplit(i)) =>
                           now.on = Max({RealizedOn(p) : p \in PairsOf(FillsOf(t))})
  <2>1. ASSUME NEW t \in Trades, NEW today \in Days, Orderly(t) PROVE agrees(t, today)
    <3> DEFINE now == StateOf(t, today)
    <3>1. /\ FillsOf(t) = {} => now.state = "no_fills"
          /\ FillsOf(t) # {} /\ HeldOf(t) = {} =>
                 now = [state |-> "closed", on |-> Max({LegLast(t, c) : c \in LegCons(t)})]
          /\ HeldOf(t) # {} /\ OverBy(t, today) => now.state = "expired"
          /\ HeldOf(t) # {} /\ ~OverBy(t, today) => now.state = "open"
      BY StateIs
    <3>2. /\ \A i \in FillsOf(t) : Gives(t, i) = IF raw[i].con \in HeldOf(t) THEN Parts ELSE {}
          /\ \A c \in HeldOf(t) : \E i \in FillsOf(t) : raw[i].con = c
          /\ FillsOf(t) = {} => HeldOf(t) = {}
          /\ \A c \in LegCons(t) : c \in HeldOf(t) <=> LegNet(t, c) # 0
          /\ Listed(t) <=> FillsOf(t) # {}
      BY <1>1, <2>1, GivesIs, ListedIs DEF HeldOf, LegCons
    <3>3. ASSUME FillsOf(t) # {}, HeldOf(t) = {}, \A i \in FillsOf(t) : ~IsSplit(i)
          PROVE  now.on = Max({RealizedOn(p) : p \in PairsOf(FillsOf(t))})
      <4>1. now.on = Max({LegLast(t, c) : c \in LegCons(t)})
        BY <3>1, <3>3
      <4>2. \A c \in LegCons(t) : LegNet(t, c) = 0
        BY <3>2, <3>3
      <4>3. Max({LegLast(t, c) : c \in LegCons(t)}) = Max({RealizedOn(p) : p \in PairsOf(FillsOf(t))})
        BY <1>1, <2>1, <3>3, <4>2, ClosedOn
      <4> QED BY <4>1, <4>3, Zenon
    <3> HIDE DEF now
    <3>4. CASE FillsOf(t) = {}
      BY <3>1, <3>2, <3>4 DEF now
    <3>5. CASE FillsOf(t) # {} /\ HeldOf(t) = {}
      <4>1. now.state = "closed" /\ Listed(t) /\ \A i \in FillsOf(t) : Gives(t, i) = {}
        BY <3>1, <3>2, <3>5
      <4> QED BY <3>3, <3>5, <4>1, Zenon DEF now
    <3>6. CASE HeldOf(t) # {} /\ OverBy(t, today)
      <4>1. now.state = "expired" /\ Listed(t) /\ \E i \in FillsOf(t) : Gives(t, i) = Parts
        BY <3>1, <3>2, <3>6
      <4>2. ASSUME NEW i \in FillsOf(t), Gives(t, i) # {} PROVE Past(i, today)
        BY <3>2, <3>6, <4>2 DEF OverBy, Past
      <4> QED BY <4>1, <4>2 DEF now
    <3>7. CASE HeldOf(t) # {} /\ ~OverBy(t, today)
      <4>1. now.state = "open" /\ Listed(t)
        BY <3>1, <3>2, <3>7
      <4>2. PICK c \in HeldOf(t) : ~(c.expiry # 0 /\ c.expiry < today)
        BY <3>7, Zenon DEF OverBy
      <4>3. PICK i \in FillsOf(t) : raw[i].con = c
        BY <3>2
      <4>4. Gives(t, i) = Parts /\ ~Past(i, today)
        BY <3>2, <4>2, <4>3 DEF Past
      <4> QED BY <4>1, <4>4 DEF now
    <3> QED BY <3>4, <3>5, <3>6, <3>7, Zenon
  <2>2. StatesAgree <=> \A t \in Trades : Orderly(t) => \A today \in Days : agrees(t, today)
    BY Zenon DEF StatesAgree, FillsOf, Orderly, Listed, Gives, Past
  <2> HIDE DEF agrees
  <2> QED BY <2>1, <2>2, Zenon
<1> QED BY <1>1, ResultsInvariant, PTL


-----------------------------------------------------------------------------
(* The max risk.                                                           *)

\* A leg's intrinsic value, and what it gains with the price beyond l.
LEMMA IntrinsicIs ==
    ASSUME NEW strike \in Int, NEW right, NEW price \in Int
    PROVE  LET gain == IF right = "C" THEN price - strike ELSE strike - price IN
           Intrinsic(strike, right, price) = (IF gain > 0 THEN gain ELSE 0) /\ Intrinsic(strike, right, price) \in Nat
<1> DEFINE gain == IF right = "C" THEN price - strike ELSE strike - price
           A == {0, gain}
<1>1. gain \in Int
  OBVIOUS
<1>2. Intrinsic(strike, right, price) = Max(A)
  BY Zenon DEF Intrinsic
<1> HIDE DEF gain
<1>3. A \in SUBSET Int /\ A # {} /\ A = {0} \cup {gain}
  BY <1>1
<1>4. IsFiniteSet(A)
  <2>1. IsFiniteSet({0})
    BY FS_Singleton
  <2>2. IsFiniteSet({0} \cup {gain})
    BY <2>1, FS_AddElement
  <2> QED BY <1>3, <2>2
<1>5. gain \in A /\ 0 \in A /\ \A x \in A : x = 0 \/ x = gain
  OBVIOUS
<1> HIDE DEF A
<1>6. Max(A) \in A /\ gain <= Max(A) /\ 0 <= Max(A)
  BY <1>3, <1>4, <1>5, Extremes
<1>7. Max(A) = IF gain > 0 THEN gain ELSE 0
  <2> DEFINE m == Max(A)
  <2>1. (m = 0 \/ m = gain) /\ gain <= m /\ 0 <= m
    BY <1>5, <1>6
  <2> HIDE DEF m
  <2>2. m = IF gain > 0 THEN gain ELSE 0
    BY <1>1, <2>1
  <2> QED BY <2>2 DEF m
<1>8. Max(A) \in Nat
  BY <1>1, <1>7
<1> QED BY <1>2, <1>7, <1>8 DEF gain

Slope(strike, right, l) ==
    IF right = "C" THEN IF strike <= l THEN 1 ELSE 0 ELSE IF strike <= l THEN 0 ELSE -1
LEMMA Bends ==
    ASSUME NEW strike \in Int, NEW right, NEW l \in Int, NEW r \in Int, NEW y \in Int, l <= y, y <= r,
           strike <= l \/ strike >= r
    PROVE  /\ Slope(strike, right, l) \in {-1, 0, 1}
           /\ Intrinsic(strike, right, y) = Intrinsic(strike, right, l) + (y - l) * Slope(strike, right, l)
           /\ Intrinsic(strike, right, y) \in Nat /\ Intrinsic(strike, right, l) \in Nat
<1>1. CASE right = "C"
  <2>1. Intrinsic(strike, right, y) = (IF y - strike > 0 THEN y - strike ELSE 0) /\ Intrinsic(strike, right, y) \in Nat
        /\ Intrinsic(strike, right, l) = (IF l - strike > 0 THEN l - strike ELSE 0) /\ Intrinsic(strike, right, l) \in Nat
    BY <1>1, IntrinsicIs
  <2>2. Slope(strike, right, l) = IF strike <= l THEN 1 ELSE 0
    BY <1>1 DEF Slope
  <2> QED BY <2>1, <2>2
<1>2. CASE right # "C"
  <2>1. Intrinsic(strike, right, y) = (IF strike - y > 0 THEN strike - y ELSE 0) /\ Intrinsic(strike, right, y) \in Nat
        /\ Intrinsic(strike, right, l) = (IF strike - l > 0 THEN strike - l ELSE 0) /\ Intrinsic(strike, right, l) \in Nat
    BY <1>2, IntrinsicIs
  <2>2. Slope(strike, right, l) = IF strike <= l THEN 0 ELSE -1
    BY <1>2 DEF Slope
  <2> QED BY <2>1, <2>2
<1> QED BY <1>1, <1>2

\* The option fills a trade's risk is taken over, and what each adds to it.
RiskFills(t) == Options(Slices(0, 0, t))
Stake(i, t) == Side(i) * SliceQty(i, t) * Multiplier
WorthOf(S, t, price) ==
    SumFunction([i \in S |-> Side(i) * SliceQty(i, t) * Multiplier * Intrinsic(raw[i].con.strike, raw[i].con.right, price)])
LEMMA RiskFillIs ==
    ASSUME ExecutionInv, AmountsInv, NEW t \in Trades
    PROVE  /\ RiskFills(t) \in SUBSET DOMAIN raw /\ IsFiniteSet(RiskFills(t))
           /\ \A i \in RiskFills(t) :
                  /\ raw[i].con.strike \in Nat \ {0} /\ raw[i].con.strike % Unit = 0 /\ raw[i].con.right \in {"C", "P"}
                  /\ Side(i) \in {1, -1} /\ SliceQty(i, t) \in Nat \ {0} /\ raw[i].price \in Nat /\ Stake(i, t) \in Int
                  /\ (raw[i].buy \in BOOLEAN) /\ Side(i) = (IF raw[i].buy THEN 1 ELSE -1)
<1>1. SummaryLimit \in Nat
  BY LimitAssumption
<1>2. Executions("performance_book", 0, 0, t, SummaryLimit) \in SUBSET DOMAIN raw
  BY <1>1, Reads
<1>3. RiskFills(t) \in SUBSET DOMAIN raw
  BY <1>2 DEF RiskFills, Options, Slices
<1>4. IsFiniteSet(RiskFills(t))
  BY <1>3, RowsAreFinite, FS_Subset
<1>5. ASSUME NEW i \in RiskFills(t)
      PROVE  /\ raw[i].con.strike \in Nat \ {0} /\ raw[i].con.strike % Unit = 0 /\ raw[i].con.right \in {"C", "P"}
             /\ Side(i) \in {1, -1} /\ SliceQty(i, t) \in Nat \ {0} /\ raw[i].price \in Nat /\ Stake(i, t) \in Int
             /\ (raw[i].buy \in BOOLEAN) /\ Side(i) = (IF raw[i].buy THEN 1 ELSE -1)
  <2>1. i \in DOMAIN raw /\ raw[i].sec = "OPT" /\ InSlice(i, t)
    BY <1>3 DEF RiskFills, Options, Slices
  <2>2. broker[FillOf(i)] \in Shapes /\ raw[i].con = broker[FillOf(i)].con /\ raw[i].sec = broker[FillOf(i)].sec
        /\ raw[i].price \in Nat /\ raw[i].qty \in Nat \ {0} /\ raw[i].buy \in BOOLEAN
    BY <2>1, RowIs
  <2>3. raw[i].con.strike \in Nat \ {0} /\ raw[i].con.strike % Unit = 0 /\ raw[i].con.right \in {"C", "P"}
    BY <2>1, <2>2, ShapeAmounts
  <2>4. SliceQty(i, t) \in Nat \ {0}
    <3>1. CASE IsSplit(i)
      <4>1. t \in DOMAIN Splits(i)
        BY <2>1, <3>1 DEF InSlice
      <4>2. AbsOf(Splits(i)[t]) \in Nat \ {0}
        BY <4>1, SplitIs, Zenon
      <4> QED BY <3>1, <4>2 DEF SliceQty
    <3>2. CASE ~IsSplit(i)
      BY <2>2, <3>2 DEF SliceQty
    <3> QED BY <3>1, <3>2
  <2>5. Side(i) \in {1, -1} /\ Side(i) = (IF raw[i].buy THEN 1 ELSE -1)
    BY DEF Side
  <2>6. Stake(i, t) \in Int
    BY <2>4, <2>5 DEF Stake, Multiplier
  <2> QED BY <2>2, <2>3, <2>4, <2>5, <2>6
<1> QED BY <1>3, <1>4, <1>5

\* Where no strike lies between two prices the worth of the legs is a line.
SlopeOf(S, t, l) == Total([i \in S |-> Stake(i, t) * Slope(raw[i].con.strike, raw[i].con.right, l)], S)
LEMMA Line ==
    ASSUME ExecutionInv, AmountsInv, NEW t \in Trades, NEW l \in Int, NEW r \in Int, NEW y \in Int, l <= y, y <= r,
           \A i \in RiskFills(t) : raw[i].con.strike <= l \/ raw[i].con.strike >= r
    PROVE  /\ WorthOf(RiskFills(t), t, y) = WorthOf(RiskFills(t), t, l) + (y - l) * SlopeOf(RiskFills(t), t, l)
           /\ WorthOf(RiskFills(t), t, l) \in Int /\ SlopeOf(RiskFills(t), t, l) \in Int
<1> DEFINE S == RiskFills(t)
           v(i, price) == Intrinsic(raw[i].con.strike, raw[i].con.right, price)
           e(i) == Slope(raw[i].con.strike, raw[i].con.right, l)
           fl == [i \in S |-> Side(i) * SliceQty(i, t) * Multiplier * v(i, l)]
           fy == [i \in S |-> Side(i) * SliceQty(i, t) * Multiplier * v(i, y)]
           s == [i \in S |-> Stake(i, t) * e(i)]
           m == [i \in S |-> (y - l) * s[i]]
<1>1. IsFiniteSet(S)
  BY RiskFillIs
<1>2. ASSUME NEW i \in S
      PROVE  fl[i] \in Int /\ s[i] \in Int /\ m[i] \in Int /\ fy[i] = fl[i] + m[i] /\ m[i] = (y - l) * s[i]
  <2>1. Stake(i, t) \in Int /\ raw[i].con.strike \in Int
    BY RiskFillIs
  <2>2. v(i, y) = v(i, l) + (y - l) * e(i) /\ e(i) \in {-1, 0, 1} /\ v(i, l) \in Int
    <3> DEFINE k == raw[i].con.strike
               right == raw[i].con.right
    <3>1. k \in Int /\ (k <= l \/ k >= r)
      BY <2>1
    <3> HIDE DEF k, right
    <3>2. /\ Slope(k, right, l) \in {-1, 0, 1} /\ Intrinsic(k, right, l) \in Nat
          /\ Intrinsic(k, right, y) = Intrinsic(k, right, l) + (y - l) * Slope(k, right, l)
      BY <3>1, Bends
    <3> QED BY <3>2 DEF k, right
  <2>3. fl[i] = Stake(i, t) * v(i, l) /\ fy[i] = Stake(i, t) * v(i, y) /\ s[i] = Stake(i, t) * e(i)
    BY DEF Stake
  <2>4. m[i] = (y - l) * s[i]
    OBVIOUS
  <2> DEFINE w == Stake(i, t)
             x == v(i, l)
             z == v(i, y)
             d == e(i)
             k == y - l
  <2>5. w \in Int /\ x \in Int /\ d \in {-1, 0, 1} /\ k \in Int /\ z = x + k * d
    BY <2>1, <2>2
  <2>6. fl[i] = w * x /\ fy[i] = w * z /\ s[i] = w * d /\ m[i] = k * s[i]
    BY <2>3, <2>4
  <2> HIDE DEF w, x, z, d, k, fl, fy, s, m
  <2>7. w * x \in Int /\ w * d \in Int /\ k * (w * d) \in Int
    BY <2>5, SMT
  <2>8. w * z = w * x + k * (w * d)
    <3>1. CASE d = 0
      BY <2>5, <3>1, SMT
    <3>2. CASE d = 1
      BY <2>5, <3>2, SMT
    <3>3. CASE d = -1
      <4>1. z = x - k
        BY <2>5, <3>3, SMT
      <4>2. w * (x - k) = w * x - w * k /\ k * (w * (-1)) = -(w * k)
        BY <2>5, SMT
      <4> QED BY <2>5, <3>3, <4>1, <4>2, SMT
    <3> QED BY <2>5, <3>1, <3>2, <3>3
  <2> QED BY <2>4, <2>6, <2>7, <2>8
<1>3. WorthOf(S, t, l) = SumFunction(fl) /\ WorthOf(S, t, y) = SumFunction(fy) /\ SlopeOf(S, t, l) = Total(s, S)
  BY Zenon DEF WorthOf, SlopeOf
<1>4. S = DOMAIN fl /\ S = DOMAIN fy
  OBVIOUS
<1> HIDE DEF S, fl, fy, s, m
<1>5. Numbers(fl, S) /\ Numbers(s, S) /\ Numbers(m, S)
  BY <1>2 DEF Numbers
<1>6. Total(fy, S) = Total(fl, S) + Total(m, S)
  BY <1>1, <1>2, <1>5, TotalAdds
<1>7. Total(m, S) = (y - l) * Total(s, S)
  <2>1. y - l \in Int
    OBVIOUS
  <2> QED BY <1>1, <1>2, <1>5, <2>1, TotalTimes
<1>8. SumFunction(fl) = Total(fl, S) /\ SumFunction(fy) = Total(fy, S)
  BY <1>4, SumIs, Zenon
<1>9. Total(fl, S) \in Int /\ Total(s, S) \in Int
  BY <1>1, <1>5, TotalStep, Zenon
<1> QED BY <1>3, <1>6, <1>7, <1>8, <1>9, Zenon DEF S


\* The positions the risk is taken over: one for each strike and right.
KeyOf(i) == <<raw[i].con.strike, raw[i].con.right>>
RiskKeys(t) == {KeyOf(i) : i \in RiskFills(t)}
OnKey(k, t) == {i \in RiskFills(t) : KeyOf(i) = k}
KeyQty(k, t) == SumFunction([i \in OnKey(k, t) |-> Side(i) * SliceQty(i, t)])
KeyPaid(k, t) == SumFunction([i \in OnKey(k, t) |-> Side(i) * SliceQty(i, t) * raw[i].price])
PositionOf(k, t) == [strike |-> k[1], right |-> k[2], qty |-> KeyQty(k, t), cost |-> AbsOf(KeyPaid(k, t))]
OneSided(t) == \A i, j \in RiskFills(t) : KeyOf(i) = KeyOf(j) => raw[i].buy = raw[j].buy
PremiumOf(S, t) == SumFunction([i \in S |-> -Side(i) * SliceQty(i, t) * raw[i].price * Multiplier])

\* A position that was only bought, or only sold, is not flat, and its premium goes the way
\* its quantity does.
LEMMA KeySide ==
    ASSUME ExecutionInv, AmountsInv, NEW t \in Trades, OneSided(t), NEW k \in RiskKeys(t)
    PROVE  /\ KeyQty(k, t) \in Int /\ KeyQty(k, t) # 0 /\ KeyPaid(k, t) \in Int
           /\ KeyPaid(k, t) = IF KeyQty(k, t) > 0 THEN AbsOf(KeyPaid(k, t)) ELSE -AbsOf(KeyPaid(k, t))
           /\ OnKey(k, t) \in SUBSET RiskFills(t) /\ IsFiniteSet(OnKey(k, t)) /\ OnKey(k, t) # {}
           /\ KeyQty(k, t) = Total([i \in OnKey(k, t) |-> Side(i) * SliceQty(i, t)], OnKey(k, t))
           /\ KeyPaid(k, t) = Total([i \in OnKey(k, t) |-> Side(i) * SliceQty(i, t) * raw[i].price], OnKey(k, t))
<1> DEFINE O == OnKey(k, t)
           q == [i \in O |-> SliceQty(i, t)]
           c == [i \in O |-> SliceQty(i, t) * raw[i].price]
           sq == [i \in O |-> Side(i) * SliceQty(i, t)]
           sc == [i \in O |-> Side(i) * SliceQty(i, t) * raw[i].price]
<1>1. O \in SUBSET RiskFills(t) /\ O # {}
  BY DEF OnKey, RiskKeys
<1>2. IsFiniteSet(O)
  BY <1>1, RiskFillIs, FS_Subset
<1>3. PICK j \in O : TRUE
  BY <1>1
<1> DEFINE d == Side(j)
<1>4. d \in {1, -1}
  BY <1>1, RiskFillIs
<1>5. ASSUME NEW i \in O
      PROVE  q[i] \in Nat \ {0} /\ c[i] \in Nat /\ sq[i] = d * q[i] /\ sc[i] = d * c[i]
  <2>1. i \in RiskFills(t) /\ j \in RiskFills(t) /\ KeyOf(i) = KeyOf(j)
    BY <1>1 DEF OnKey
  <2>2. raw[i].buy = raw[j].buy
    BY <2>1 DEF OneSided
  <2>3. Side(i) = d
    BY <2>2 DEF Side
  <2>4. SliceQty(i, t) \in Nat \ {0} /\ raw[i].price \in Nat
    BY <2>1, RiskFillIs
  <2>5. q[i] = SliceQty(i, t) /\ c[i] = SliceQty(i, t) * raw[i].price /\ sq[i] = d * SliceQty(i, t)
        /\ sc[i] = d * SliceQty(i, t) * raw[i].price
    BY <2>3
  <2> DEFINE x == SliceQty(i, t)
             y == raw[i].price
  <2>6. x \in Nat \ {0} /\ y \in Nat /\ q[i] = x /\ c[i] = x * y /\ sq[i] = d * x /\ sc[i] = d * x * y
    BY <2>4, <2>5
  <2> HIDE DEF x, y, q, c, sq, sc, d
  <2>7. x * y \in Nat /\ d * x * y = d * (x * y)
    <3>1. x * y \in Nat
      BY <2>6, SMT
    <3> QED BY <1>4, <2>6, <3>1, SMT
  <2> QED BY <2>6, <2>7
<1>6. KeyQty(k, t) = SumFunction(sq) /\ KeyPaid(k, t) = SumFunction(sc) /\ O = DOMAIN sq /\ O = DOMAIN sc
  BY DEF KeyQty, KeyPaid
<1> HIDE DEF O, q, c, sq, sc, d
<1>7. KeyQty(k, t) = Total(sq, O) /\ KeyPaid(k, t) = Total(sc, O)
  BY <1>6, SumIs, Zenon
<1>8. Total(q, O) \in Nat /\ q[j] <= Total(q, O) /\ Total(c, O) \in Nat
  BY <1>2, <1>3, <1>5, TotalNat
<1>9. Total(sq, O) = d * Total(q, O) /\ Total(sc, O) = d * Total(c, O)
  BY <1>2, <1>4, <1>5, TotalTimes DEF Numbers
<1> DEFINE n == Total(q, O)
           m == Total(c, O)
           x == KeyQty(k, t)
           y == KeyPaid(k, t)
<1>10. n \in Nat \ {0} /\ m \in Nat /\ x = d * n /\ y = d * m
  <2>1. q[j] \in Nat \ {0} /\ q[j] <= n /\ n \in Nat
    BY <1>3, <1>5, <1>8
  <2>2. n \in Nat \ {0}
    BY <2>1
  <2> QED BY <1>7, <1>8, <1>9, <2>2
<1> HIDE DEF n, m, x, y
<1>11. x \in Int /\ x # 0 /\ y \in Int /\ y = IF x > 0 THEN AbsOf(y) ELSE -AbsOf(y)
  <2>1. CASE d = 1
    BY <1>10, <2>1, SMT DEF AbsOf
  <2>2. CASE d = -1
    <3>1. x = -n /\ y = -m
      BY <1>10, <2>2, SMT
    <3> QED BY <1>10, <3>1, SMT DEF AbsOf
  <2> QED BY <1>4, <2>1, <2>2
<1> QED BY <1>1, <1>2, <1>7, <1>11, Zenon DEF O, sq, sc, x, y

LEMMA PositionsAre ==
    ASSUME ExecutionInv, AmountsInv, NEW t \in Trades, OneSided(t)
    PROVE  NetPositions(RiskFills(t), t) = {PositionOf(k, t) : k \in RiskKeys(t)}
<1>1. \A k \in RiskKeys(t) : KeyQty(k, t) # 0
  BY KeySide, Zenon
<1>2. NetPositions(RiskFills(t), t) = {PositionOf(k, t) : k \in {x \in RiskKeys(t) : KeyQty(x, t) # 0}}
  BY DEF NetPositions, PositionOf, KeyQty, KeyPaid, OnKey, KeyOf, RiskKeys
<1> QED BY <1>1, <1>2


\* What a position pays at a price is what its fills do.
PayoffOn(p, price) ==
    (Intrinsic(p.strike, p.right, price) * p.qty - IF p.qty > 0 THEN p.cost ELSE -p.cost) * Multiplier
FillPays(i, t, price) ==
    Side(i) * SliceQty(i, t) * Multiplier * Intrinsic(raw[i].con.strike, raw[i].con.right, price)
        + (-Side(i) * SliceQty(i, t) * raw[i].price * Multiplier)
LEMMA KeyPays ==
    ASSUME ExecutionInv, AmountsInv, NEW t \in Trades, OneSided(t), NEW k \in RiskKeys(t), NEW price \in Int
    PROVE  /\ PayoffOn(PositionOf(k, t), price) = Total([i \in OnKey(k, t) |-> FillPays(i, t, price)], OnKey(k, t))
           /\ \A i \in OnKey(k, t) : FillPays(i, t, price) \in Int
<1> DEFINE O == OnKey(k, t)
           v == Intrinsic(k[1], k[2], price)
           a == [i \in O |-> Side(i) * SliceQty(i, t)]
           b == [i \in O |-> Side(i) * SliceQty(i, t) * raw[i].price]
           f == [i \in O |-> FillPays(i, t, price)]
           va == [i \in O |-> (v * Multiplier) * a[i]]
           mb == [i \in O |-> (-Multiplier) * b[i]]
           x == KeyQty(k, t)
           y == KeyPaid(k, t)
<1>1. /\ x \in Int /\ y \in Int /\ y = (IF x > 0 THEN AbsOf(y) ELSE -AbsOf(y))
      /\ O \in SUBSET RiskFills(t) /\ IsFiniteSet(O) /\ O # {} /\ x = Total(a, O) /\ y = Total(b, O)
  BY KeySide, Zenon
<1>2. v \in Int
  <2>1. PICK i \in O : TRUE
    BY <1>1
  <2>2. k = <<raw[i].con.strike, raw[i].con.right>> /\ raw[i].con.strike \in Int
    <3>1. i \in RiskFills(t) /\ k = KeyOf(i)
      BY <1>1 DEF OnKey
    <3>2. raw[i].con.strike \in Nat
      BY <3>1, RiskFillIs
    <3> QED BY <3>1, <3>2 DEF KeyOf
  <2>3. k[1] \in Int
    BY <2>2
  <2>4. Intrinsic(k[1], k[2], price) \in Nat
    BY <2>3, IntrinsicIs
  <2> QED BY <2>4
<1>3. ASSUME NEW i \in O
      PROVE  /\ a[i] \in Int /\ b[i] \in Int /\ va[i] = (v * Multiplier) * a[i] /\ mb[i] = (-Multiplier) * b[i]
             /\ f[i] = va[i] + mb[i] /\ va[i] \in Int /\ mb[i] \in Int
  <2>1. i \in RiskFills(t) /\ k = <<raw[i].con.strike, raw[i].con.right>>
    BY <1>1 DEF OnKey, KeyOf
  <2>2. Side(i) \in {1, -1} /\ SliceQty(i, t) \in Nat /\ raw[i].price \in Nat
    BY <2>1, RiskFillIs
  <2>3. Intrinsic(raw[i].con.strike, raw[i].con.right, price) = v
    BY <2>1
  <2> DEFINE d == Side(i)
             n == SliceQty(i, t)
             c == raw[i].price
  <2>4. f[i] = d * n * Multiplier * v + (-d * n * c * Multiplier) /\ a[i] = d * n /\ b[i] = d * n * c
        /\ va[i] = (v * Multiplier) * a[i] /\ mb[i] = (-Multiplier) * b[i]
    BY <2>3 DEF FillPays
  <2>5. d \in {1, -1} /\ n \in Nat /\ c \in Nat
    BY <2>2
  <2> HIDE DEF d, n, c, v, a, b, f, va, mb
  <2>6. d * n \in Int /\ d * n * c \in Int
    BY <2>5, SMT
  <2>7. d * n * Multiplier * v = (v * Multiplier) * (d * n)
    BY <1>2, <2>6, SMT DEF Multiplier
  <2>8. -d * n * c * Multiplier = (-Multiplier) * (d * n * c)
    <3>1. CASE d = 1
      <4>1. n * c \in Nat
        BY <2>5, SMT
      <4>2. d * n = n /\ -d * n = -n
        BY <2>5, <3>1, SMT
      <4>3. -d * n * c = -(n * c) /\ d * n * c = n * c
        BY <2>5, <4>1, <4>2, SMT
      <4> QED BY <4>1, <4>3, SMT DEF Multiplier
    <3>2. CASE d = -1
      <4>1. n * c \in Nat
        BY <2>5, SMT
      <4>2. d * n = -n /\ -d * n = n
        BY <2>5, <3>2, SMT
      <4>3. -d * n * c = n * c /\ d * n * c = -(n * c)
        BY <2>5, <4>1, <4>2, SMT
      <4> QED BY <4>1, <4>3, SMT DEF Multiplier
    <3> QED BY <2>5, <3>1, <3>2
  <2>9. (v * Multiplier) * (d * n) \in Int /\ (-Multiplier) * (d * n * c) \in Int
    BY <1>2, <2>6, SMT DEF Multiplier
  <2> QED BY <2>4, <2>6, <2>7, <2>8, <2>9
<1>4. \A i \in O : f[i] = FillPays(i, t, price)
  OBVIOUS
<1>5. PayoffOn(PositionOf(k, t), price) = (v * x - y) * Multiplier
  <2> DEFINE p == PositionOf(k, t)
  <2>1. p.strike = k[1] /\ p.right = k[2] /\ p.qty = x /\ p.cost = AbsOf(y)
    BY DEF PositionOf
  <2> HIDE DEF p, x, y
  <2>2. PayoffOn(p, price) = (v * x - IF x > 0 THEN AbsOf(y) ELSE -AbsOf(y)) * Multiplier
    BY <2>1 DEF PayoffOn
  <2> QED BY <1>1, <2>2, Zenon DEF p
<1> HIDE DEF O, v, a, b, f, va, mb, x, y
<1>6. Numbers(a, O) /\ Numbers(b, O) /\ Numbers(va, O) /\ Numbers(mb, O)
  BY <1>3 DEF Numbers
<1>7. Total(f, O) = Total(va, O) + Total(mb, O)
  BY <1>1, <1>3, <1>6, TotalAdds
<1>8. v * Multiplier \in Int /\ -Multiplier \in Int
  BY <1>2, SMT DEF Multiplier
<1>9. Total(va, O) = (v * Multiplier) * Total(a, O)
  BY <1>1, <1>3, <1>6, <1>8, TotalTimes, Zenon
<1>10. Total(mb, O) = (-Multiplier) * Total(b, O)
  BY <1>1, <1>3, <1>6, <1>8, TotalTimes, Zenon
<1>11. (v * x - y) * Multiplier = (v * Multiplier) * x + (-Multiplier) * y
  <2>1. v * x \in Int
    BY <1>1, <1>2, SMT
  <2>2. (v * Multiplier) * x = (v * x) * Multiplier
    BY <1>1, <1>2, SMT DEF Multiplier
  <2> QED BY <1>1, <2>1, <2>2, SMT DEF Multiplier
<1>12. PayoffOn(PositionOf(k, t), price) = Total(f, O)
  BY <1>1, <1>5, <1>7, <1>9, <1>10, <1>11
<1>13. \A i \in O : FillPays(i, t, price) \in Int
  BY <1>3, <1>4
<1> QED BY <1>12, <1>13, Zenon DEF f, O

\* A sum over the image of a set, the map between them one to one.
OneToOne(b, S, P) == (\A x, y \in S : b[x] = b[y] => x = y) /\ P = {b[x] : x \in S}
Carried(b, f, g, S) == \A x \in S : g[b[x]] = f[x]
LEMMA TotalCarried ==
    ASSUME NEW S, IsFiniteSet(S), NEW f, Numbers(f, S), NEW P, NEW b, OneToOne(b, S, P), NEW g, Carried(b, f, g, S)
    PROVE  Total(g, P) = Total(f, S)
<1>1. \A x, y \in S : b[x] = b[y] => x = y
  BY Zenon DEF OneToOne
<1>2. \A x \in S : g[b[x]] = f[x]
  BY Zenon DEF Carried
<1>3. P = {b[x] : x \in S}
  BY Zenon DEF OneToOne
<1> QED BY <1>1, <1>2, <1>3, TotalAlong

\* The payoff of the positions at a price is the premium of the fills and their worth.
LEMMA PayoffIs ==
    ASSUME ExecutionInv, AmountsInv, NEW t \in Trades, OneSided(t), NEW price \in Int
    PROVE  /\ PayoffAt(NetPositions(RiskFills(t), t), price)
                  = PremiumOf(RiskFills(t), t) + WorthOf(RiskFills(t), t, price)
           /\ PremiumOf(RiskFills(t), t) \in Int /\ WorthOf(RiskFills(t), t, price) \in Int
<1> DEFINE S == RiskFills(t)
           K == RiskKeys(t)
           P == NetPositions(S, t)
           f == [i \in S |-> FillPays(i, t, price)]
           w == [i \in S |-> Side(i) * SliceQty(i, t) * Multiplier * Intrinsic(raw[i].con.strike, raw[i].con.right, price)]
           m == [i \in S |-> -Side(i) * SliceQty(i, t) * raw[i].price * Multiplier]
           key == [i \in S |-> KeyOf(i)]
           b == [k \in K |-> PositionOf(k, t)]
           g == [p \in P |-> PayoffOn(p, price)]
           parts == [k \in K |-> PayoffOn(PositionOf(k, t), price)]
<1>1. IsFiniteSet(S) /\ S \in SUBSET DOMAIN raw
  BY RiskFillIs
<1>2. P = {PositionOf(k, t) : k \in K} /\ P = {b[k] : k \in K}
  BY PositionsAre
<1>3. K = {key[i] : i \in S} /\ \A i \in S : key[i] \in K /\ key[i] = KeyOf(i)
  BY DEF RiskKeys
<1>4. ASSUME NEW i \in S PROVE w[i] \in Int /\ m[i] \in Int /\ f[i] = w[i] + m[i]
  <2>1. Side(i) \in {1, -1} /\ SliceQty(i, t) \in Nat /\ raw[i].price \in Nat /\ raw[i].con.strike \in Int
    BY RiskFillIs
  <2>2. Intrinsic(raw[i].con.strike, raw[i].con.right, price) \in Nat
    BY <2>1, IntrinsicIs
  <2>3. f[i] = w[i] + m[i]
    BY DEF FillPays
  <2> DEFINE d == Side(i)
             n == SliceQty(i, t)
             c == raw[i].price
             v == Intrinsic(raw[i].con.strike, raw[i].con.right, price)
  <2>4. w[i] = d * n * Multiplier * v /\ m[i] = -d * n * c * Multiplier
    OBVIOUS
  <2>5. d \in {1, -1} /\ n \in Nat /\ c \in Nat /\ v \in Nat
    BY <2>1, <2>2
  <2> HIDE DEF d, n, c, v, w, m, f
  <2>6. d * n \in Int /\ -d * n \in Int
    BY <2>5, SMT
  <2>7. d * n * Multiplier \in Int /\ -d * n * c \in Int
    BY <2>5, <2>6, SMT DEF Multiplier
  <2>8. d * n * Multiplier * v \in Int /\ -d * n * c * Multiplier \in Int
    BY <2>5, <2>7, SMT DEF Multiplier
  <2> QED BY <2>3, <2>4, <2>8
<1>5. ASSUME NEW k \in K
      PROVE  parts[k] = Total(f, {i \in S : key[i] = k}) /\ parts[k] \in Int /\ parts[k] = g[b[k]]
  <2> DEFINE O == OnKey(k, t)
             h == [i \in O |-> FillPays(i, t, price)]
  <2>1. parts[k] = Total(h, O) /\ \A i \in O : h[i] \in Int
    BY KeyPays
  <2>2. O \in SUBSET S /\ IsFiniteSet(O)
    BY KeySide, Zenon
  <2>3. {i \in S : key[i] = k} = O
    BY DEF OnKey
  <2>4. \A i \in O : f[i] = h[i]
    BY <2>2
  <2>5. g[b[k]] = parts[k]
    BY <1>2
  <2> HIDE DEF parts, O, h, f, key, S, K, g, b
  <2>6. Numbers(h, O)
    BY <2>1 DEF Numbers
  <2>7. Total(f, O) = Total(h, O) /\ Total(f, O) \in Int
    BY <2>2, <2>4, <2>6, TotalSame
  <2> QED BY <2>1, <2>3, <2>5, <2>7
<1>6. PayoffAt(P, price) = SumFunction(g) /\ PremiumOf(S, t) = SumFunction(m) /\ WorthOf(S, t, price) = SumFunction(w)
  BY Zenon DEF PayoffAt, PayoffOn, PremiumOf, WorthOf
<1>7. P = DOMAIN g /\ S = DOMAIN m /\ S = DOMAIN w
  OBVIOUS
<1>8. ASSUME NEW k \in K, NEW j \in K, b[k] = b[j] PROVE k = j
  <2>1. b[k].strike = k[1] /\ b[k].right = k[2] /\ b[j].strike = j[1] /\ b[j].right = j[2]
    BY DEF PositionOf
  <2>2. PICK x \in S : k = KeyOf(x)
    BY <1>3
  <2>3. PICK y \in S : j = KeyOf(y)
    BY <1>3
  <2> HIDE DEF b
  <2> QED BY <1>8, <2>1, <2>2, <2>3 DEF KeyOf
<1> HIDE DEF S, K, P, f, w, m, key, b, g, parts
<1>9. SumFunction(g) = Total(g, P) /\ SumFunction(m) = Total(m, S) /\ SumFunction(w) = Total(w, S)
  BY <1>7, SumIs, Zenon
<1>10. Numbers(w, S) /\ Numbers(m, S) /\ Numbers(f, S) /\ Numbers(parts, K)
  <2>1. Numbers(w, S) /\ Numbers(m, S)
    BY <1>4 DEF Numbers
  <2>2. \A i \in S : w[i] + m[i] \in Int
    BY <1>4, SMT
  <2>3. \A i \in S : f[i] \in Int
    BY <1>4, <2>2, Zenon
  <2>4. \A k \in K : parts[k] \in Int
    BY <1>5, Zenon
  <2> QED BY <2>1, <2>3, <2>4, Zenon DEF Numbers
<1>11. Total(f, S) = Total(w, S) + Total(m, S) /\ Total(w, S) \in Int /\ Total(m, S) \in Int
  <2>1. Total(f, S) = Total(w, S) + Total(m, S)
    BY <1>1, <1>4, <1>10, TotalAdds
  <2> QED BY <1>1, <1>10, <2>1, TotalStep
<1>12. IsFiniteSet(K)
  BY <1>1, <1>3, ImageFinite
<1>13. PartsOf(key, f, S, K, parts)
  BY <1>5 DEF PartsOf
<1>14. Total(parts, K) = Total(f, S)
  BY <1>1, <1>3, <1>10, <1>12, <1>13, TotalByKey
<1>15. Total(g, P) = Total(parts, K)
  <2>1. \A k \in K : g[b[k]] = parts[k]
    BY <1>5, Zenon
  <2>2. \A k, j \in K : b[k] = b[j] => k = j
    BY <1>8
  <2>3. Numbers(parts, K) /\ IsFiniteSet(K) /\ P = {b[k] : k \in K}
    BY <1>2, <1>10, <1>12, Zenon
  <2>4. OneToOne(b, K, P) /\ Carried(b, parts, g, K)
    BY <2>1, <2>2, <2>3, Zenon DEF OneToOne, Carried
  <2> QED BY <2>3, <2>4, TotalCarried, Zenon
<1>16. PayoffAt(P, price) = PremiumOf(S, t) + WorthOf(S, t, price) /\ PremiumOf(S, t) \in Int /\ WorthOf(S, t, price) \in Int
  BY <1>6, <1>9, <1>11, <1>14, <1>15
<1> QED BY <1>16 DEF S, P


\* The calls of a trade: what it has bought of them less what it has sold.
CallKeys(t) == {k \in RiskKeys(t) : k[2] = "C"}
CallsOn(t, short) == {k \in CallKeys(t) : (KeyQty(k, t) < 0) = short}
CallFills(t) == {i \in RiskFills(t) : raw[i].con.right = "C"}
CallsOf(t) == SumFunction([i \in CallFills(t) |-> Side(i) * SliceQty(i, t)])
LEMMA CallsBySide ==
    ASSUME ExecutionInv, AmountsInv, NEW t \in Trades, OneSided(t), NEW short \in BOOLEAN,
           NEW a, \A k \in RiskKeys(t) : a[k] = AbsOf(KeyQty(k, t))
    PROVE  /\ Calls(NetPositions(RiskFills(t), t), short) = Total(a, CallsOn(t, short))
           /\ IsFiniteSet(RiskKeys(t)) /\ IsFiniteSet(CallsOn(t, short)) /\ Numbers(a, RiskKeys(t))
<1> DEFINE S == RiskFills(t)
           K == RiskKeys(t)
           P == NetPositions(S, t)
           L == CallsOn(t, short)
           X == {x \in P : x.right = "C" /\ (x.qty < 0) = short}
           b == [k \in K |-> PositionOf(k, t)]
           g == [p \in X |-> AbsOf(p.qty)]
           key == [i \in S |-> KeyOf(i)]
<1>1. IsFiniteSet(S) /\ K = {key[i] : i \in S}
  BY RiskFillIs DEF RiskKeys
<1>2. P = {PositionOf(k, t) : k \in K}
  BY PositionsAre
<1>3. L \in SUBSET K /\ \A k \in L : k \in K /\ k[2] = "C" /\ (KeyQty(k, t) < 0) = short
  BY DEF CallsOn, CallKeys
<1>4. \A k \in K : b[k] = PositionOf(k, t) /\ b[k].strike = k[1] /\ b[k].right = k[2] /\ b[k].qty = KeyQty(k, t)
  BY DEF PositionOf
<1>5. X = {b[k] : k \in L}
  <2>1. ASSUME NEW k \in L PROVE b[k] \in X
    BY <1>2, <1>3, <1>4
  <2>2. ASSUME NEW x \in X PROVE \E k \in L : x = b[k]
    <3>1. PICK k \in K : x = PositionOf(k, t)
      BY <1>2
    <3>2. x = b[k] /\ x.right = k[2] /\ x.qty = KeyQty(k, t) /\ x.right = "C" /\ (x.qty < 0) = short
      BY <1>4, <3>1
    <3>3. k \in L
      BY <3>2, Zenon DEF CallsOn, CallKeys
    <3> QED BY <3>2, <3>3
  <2> HIDE DEF X, b, L
  <2> QED BY <2>1, <2>2
<1>6. ASSUME NEW k \in L, NEW j \in L, b[k] = b[j] PROVE k = j
  <2>1. k \in K /\ j \in K /\ k[1] = j[1] /\ k[2] = j[2]
    BY <1>3, <1>4, <1>6
  <2>2. PICK x \in S : k = KeyOf(x)
    BY <2>1 DEF RiskKeys
  <2>3. PICK y \in S : j = KeyOf(y)
    BY <2>1 DEF RiskKeys
  <2> HIDE DEF b
  <2> QED BY <2>1, <2>2, <2>3 DEF KeyOf
<1>7. \A k \in K : KeyQty(k, t) \in Int
  BY KeySide, Zenon
<1>8. \A k \in K : a[k] \in Int
  BY <1>7 DEF AbsOf
<1>9. ASSUME NEW k \in L PROVE g[b[k]] = a[k]
  <2>1. b[k] \in X /\ k \in K /\ b[k].qty = KeyQty(k, t)
    BY <1>3, <1>4, <1>5
  <2> HIDE DEF X, b, L, K
  <2>2. g[b[k]] = AbsOf(b[k].qty)
    BY <2>1
  <2>3. a[k] = AbsOf(KeyQty(k, t))
    BY <2>1 DEF K
  <2> QED BY <2>1, <2>2, <2>3
<1>10. Calls(P, short) = SumFunction(g) /\ X = DOMAIN g
  BY Zenon DEF Calls
<1> HIDE DEF S, K, P, L, X, b, g, key
<1>11. IsFiniteSet(K)
  BY <1>1, ImageFinite
<1>12. IsFiniteSet(L)
  BY <1>3, <1>11, FS_Subset
<1>13. Numbers(a, K) /\ Numbers(a, L)
  BY <1>3, <1>8 DEF Numbers
<1>14. OneToOne(b, L, X) /\ Carried(b, a, g, L)
  BY <1>5, <1>6, <1>9 DEF OneToOne, Carried
<1>15. Total(g, X) = Total(a, L)
  BY <1>12, <1>13, <1>14, TotalCarried
<1>16. SumFunction(g) = Total(g, X)
  BY <1>10, SumIs
<1>17. Calls(P, short) = Total(a, L)
  BY <1>10, <1>15, <1>16
<1> QED BY <1>11, <1>12, <1>13, <1>17, Zenon DEF K, P, S, L

LEMMA CallsAre ==
    ASSUME ExecutionInv, AmountsInv, NEW t \in Trades, OneSided(t)
    PROVE  CallsOf(t) \in Int /\ (Unlimited(NetPositions(RiskFills(t), t)) <=> CallsOf(t) < 0)
<1> DEFINE S == RiskFills(t)
           F == CallFills(t)
           C == CallKeys(t)
           K == RiskKeys(t)
           q == [k \in K |-> KeyQty(k, t)]
           a == [k \in K |-> AbsOf(KeyQty(k, t))]
           f == [i \in F |-> Side(i) * SliceQty(i, t)]
           key == [i \in F |-> KeyOf(i)]
           Long == CallsOn(t, FALSE)
           Short == CallsOn(t, TRUE)
           P == NetPositions(S, t)
<1>1. F \in SUBSET S /\ \A i \in F : raw[i].con.right = "C"
  BY DEF CallFills
<1>2. IsFiniteSet(F)
  BY <1>1, RiskFillIs, FS_Subset
<1>3. \A k \in K : a[k] = AbsOf(KeyQty(k, t))
  OBVIOUS
<1>4. Calls(P, FALSE) = Total(a, Long) /\ Calls(P, TRUE) = Total(a, Short)
  <2> HIDE DEF a
  <2> QED BY <1>3, CallsBySide, Zenon
<1>5. IsFiniteSet(K) /\ IsFiniteSet(Long) /\ IsFiniteSet(Short)
  <2> HIDE DEF a
  <2> QED BY <1>3, CallsBySide, Zenon
<1>6. \A k \in K : KeyQty(k, t) \in Int /\ q[k] = KeyQty(k, t)
  BY KeySide, Zenon
<1>7. Long \cup Short = C /\ Long \cap Short = {} /\ C \in SUBSET K
  BY DEF CallsOn, CallKeys
<1>8. /\ \A k \in Long : k \in K /\ ~(KeyQty(k, t) < 0)
      /\ \A k \in Short : k \in K /\ KeyQty(k, t) < 0
  BY DEF CallsOn, CallKeys
<1>9. ASSUME NEW i \in F PROVE f[i] \in Int /\ key[i] \in C
  <2>1. i \in S /\ Side(i) \in {1, -1} /\ SliceQty(i, t) \in Nat
    BY <1>1, RiskFillIs
  <2>2. f[i] \in Int
    BY <2>1
  <2>3. key[i] = KeyOf(i) /\ KeyOf(i)[2] = "C" /\ KeyOf(i) \in K
    BY <1>1, <2>1 DEF KeyOf, RiskKeys
  <2> QED BY <2>2, <2>3 DEF CallKeys
<1>10. ASSUME NEW k \in C PROVE q[k] = Total(f, {i \in F : key[i] = k})
  <2> DEFINE O == OnKey(k, t)
             h == [i \in O |-> Side(i) * SliceQty(i, t)]
  <2>1. k \in K /\ k[2] = "C"
    BY DEF CallKeys
  <2>2. O \in SUBSET S /\ IsFiniteSet(O) /\ KeyQty(k, t) = Total(h, O)
    BY <2>1, KeySide, Zenon
  <2>3. {i \in F : key[i] = k} = O
    BY <1>1, <2>1 DEF OnKey, KeyOf, CallFills
  <2>4. \A i \in O : i \in F /\ f[i] = h[i]
    BY <2>3, Zenon
  <2>5. q[k] = KeyQty(k, t)
    BY <2>1
  <2> HIDE DEF O, h, f, q, F, C, K, key
  <2>6. Numbers(h, O)
    BY <1>9, <2>4 DEF Numbers
  <2>7. Total(f, O) = Total(h, O)
    BY <2>2, <2>4, <2>6, TotalSame
  <2> QED BY <2>2, <2>3, <2>5, <2>7
<1>11. CallsOf(t) = SumFunction(f) /\ F = DOMAIN f
  BY Zenon DEF CallsOf
<1>12. \A k \in K : a[k] \in Int /\ q[k] \in Int
  BY <1>6 DEF AbsOf
<1>13. \A k \in Long : q[k] = a[k]
  BY <1>6, <1>8, Zenon DEF AbsOf
<1>14. ASSUME NEW k \in Short PROVE a[k] = (-1) * q[k]
  <2> DEFINE n == KeyQty(k, t)
  <2>1. n \in Int /\ n < 0 /\ q[k] = n /\ a[k] = AbsOf(n)
    BY <1>3, <1>6, <1>8, Zenon
  <2> HIDE DEF n, q, a
  <2>2. AbsOf(n) = (-1) * n
    BY <2>1, SMT DEF AbsOf
  <2> QED BY <2>1, <2>2
<1> HIDE DEF S, F, C, K, q, a, f, key, Long, Short, P
<1>15. Numbers(f, F) /\ Numbers(q, C) /\ Numbers(q, Short) /\ Numbers(q, Long) /\ Numbers(a, Long)
  BY <1>7, <1>8, <1>9, <1>12 DEF Numbers
<1>16. IsFiniteSet(C)
  BY <1>5, <1>7, FS_Subset
<1>17. Total(q, C) = Total(f, F)
  <2>1. PartsOf(key, f, F, C, q)
    BY <1>10 DEF PartsOf
  <2> QED BY <1>2, <1>9, <1>15, <1>16, <2>1, TotalByKey
<1>18. Total(q, C) = Total(q, Long) + Total(q, Short) /\ Total(q, Long) \in Int /\ Total(q, Short) \in Int
  BY <1>7, <1>15, <1>16, TotalSplits
<1>19. Total(a, Long) = Total(q, Long)
  BY <1>5, <1>13, <1>15, TotalSame
<1>20. Total(a, Short) = (-1) * Total(q, Short)
  <2>1. -1 \in Int
    OBVIOUS
  <2> QED BY <1>5, <1>14, <1>15, <2>1, TotalTimes
<1>21. CallsOf(t) = Total(f, F)
  BY <1>11, SumIs
<1>22. Unlimited(P) <=> Calls(P, TRUE) > Calls(P, FALSE)
  BY Zenon DEF Unlimited
<1>23. CallsOf(t) \in Int /\ (Unlimited(P) <=> CallsOf(t) < 0)
  <2> DEFINE x == Total(q, Long)
             y == Total(q, Short)
  <2>1. CallsOf(t) = x + y /\ x \in Int /\ y \in Int /\ Calls(P, TRUE) = (-1) * y /\ Calls(P, FALSE) = x
    BY <1>4, <1>17, <1>18, <1>19, <1>20, <1>21, Zenon
  <2> HIDE DEF x, y
  <2>2. (-1) * y = -y
    BY <2>1, SMT
  <2>3. -y > x <=> x + y < 0
    BY <2>1, SMT
  <2>4. x + y \in Int
    BY <2>1, SMT
  <2> QED BY <1>22, <2>1, <2>2, <2>3, <2>4, Zenon
<1> QED BY <1>23 DEF P, S


\* Beyond every strike a trade's worth moves with its calls alone.
LEMMA SlopeBeyond ==
    ASSUME ExecutionInv, AmountsInv, NEW t \in Trades, NEW l \in Int, \A i \in RiskFills(t) : raw[i].con.strike <= l
    PROVE  SlopeOf(RiskFills(t), t, l) = Multiplier * CallsOf(t)
<1> DEFINE S == RiskFills(t)
           F == CallFills(t)
           s == [i \in S |-> Stake(i, t) * Slope(raw[i].con.strike, raw[i].con.right, l)]
           f == [i \in F |-> Side(i) * SliceQty(i, t)]
           g == [i \in F |-> Multiplier * f[i]]
<1>1. IsFiniteSet(S) /\ F \in SUBSET S
  BY RiskFillIs DEF CallFills
<1>2. IsFiniteSet(F)
  BY <1>1, FS_Subset
<1>3. ASSUME NEW i \in S PROVE s[i] \in Int /\ s[i] = (IF i \in F THEN g[i] ELSE 0) /\ (i \in F => f[i] \in Int /\ g[i] = Multiplier * f[i] /\ g[i] \in Int)
  <2>1. raw[i].con.strike <= l /\ Side(i) \in {1, -1} /\ SliceQty(i, t) \in Nat
    BY RiskFillIs
  <2> DEFINE n == Side(i) * SliceQty(i, t)
  <2>2. n \in Int
    BY <2>1
  <2>3. Stake(i, t) = n * Multiplier
    BY DEF Stake
  <2>4. CASE i \in F
    <3>1. raw[i].con.right = "C"
      BY <2>4 DEF CallFills
    <3>2. Slope(raw[i].con.strike, raw[i].con.right, l) = 1
      BY <2>1, <3>1 DEF Slope
    <3>3. s[i] = (n * Multiplier) * 1 /\ f[i] = n /\ g[i] = Multiplier * n
      BY <2>3, <2>4, <3>2
    <3> HIDE DEF s, f, g, n, F
    <3>4. (n * Multiplier) * 1 = Multiplier * n /\ Multiplier * n \in Int
      BY <2>2, SMT DEF Multiplier
    <3> QED BY <2>2, <2>4, <3>3, <3>4
  <2>5. CASE i \notin F
    <3>1. raw[i].con.right # "C"
      BY <2>5 DEF CallFills
    <3>2. Slope(raw[i].con.strike, raw[i].con.right, l) = 0
      BY <2>1, <3>1 DEF Slope
    <3>3. s[i] = (n * Multiplier) * 0
      BY <2>3, <3>2
    <3> HIDE DEF s, f, g, n, F
    <3>4. (n * Multiplier) * 0 = 0
      BY <2>2, SMT DEF Multiplier
    <3> QED BY <2>5, <3>3, <3>4
  <2> QED BY <2>4, <2>5
<1>4. SlopeOf(S, t, l) = Total(s, S) /\ CallsOf(t) = SumFunction(f) /\ F = DOMAIN f
  BY Zenon DEF SlopeOf, CallsOf
<1> HIDE DEF S, F, s, f, g
<1>5. Numbers(s, S) /\ Numbers(f, F) /\ Numbers(g, F)
  BY <1>1, <1>3 DEF Numbers
<1>6. Total(s, S) = Total(g, F)
  BY <1>1, <1>3, <1>5, TotalWithin
<1>7. Total(g, F) = Multiplier * Total(f, F)
  <2>1. Multiplier \in Int
    BY DEF Multiplier
  <2>2. \A i \in F : g[i] = Multiplier * f[i]
    BY <1>1, <1>3
  <2> QED BY <1>2, <1>5, <2>1, <2>2, TotalTimes
<1>8. CallsOf(t) = Total(f, F)
  BY <1>4, SumIs
<1> QED BY <1>4, <1>6, <1>7, <1>8 DEF S

\* At no price does a trade with no call uncovered lose more than at zero or at a strike.
StrikesOf(t) == {raw[i].con.strike : i \in RiskFills(t)}
LEMMA StrikesAre ==
    ASSUME ExecutionInv, AmountsInv, NEW t \in Trades
    PROVE  /\ StrikesOf(t) \in SUBSET Nat /\ IsFiniteSet(StrikesOf(t)) /\ (RiskFills(t) # {} => StrikesOf(t) # {})
           /\ \A s \in StrikesOf(t) : s \in Nat \ {0} /\ s % Unit = 0
           /\ \A i \in RiskFills(t) : raw[i].con.strike \in StrikesOf(t)
<1> DEFINE k == [i \in RiskFills(t) |-> raw[i].con.strike]
<1>1. StrikesOf(t) = {k[i] : i \in RiskFills(t)}
  BY DEF StrikesOf
<1>2. IsFiniteSet(RiskFills(t))
  BY RiskFillIs
<1>3. IsFiniteSet({k[i] : i \in RiskFills(t)})
  <2> HIDE DEF k
  <2> QED BY <1>2, ImageFinite
<1>4. \A s \in StrikesOf(t) : s \in Nat \ {0} /\ s % Unit = 0
  BY RiskFillIs DEF StrikesOf
<1>5. \A i \in RiskFills(t) : raw[i].con.strike \in StrikesOf(t)
  BY DEF StrikesOf
<1> QED BY <1>1, <1>3, <1>4, <1>5

LEMMA LowestAtABend ==
    ASSUME ExecutionInv, AmountsInv, NEW t \in Trades, OneSided(t), CallsOf(t) >= 0, NEW x \in Nat
    PROVE  \E y \in {0} \cup StrikesOf(t) : WorthOf(RiskFills(t), t, y) <= WorthOf(RiskFills(t), t, x)
<1> DEFINE S == RiskFills(t)
           K == StrikesOf(t)
           A == {0} \cup K
           Lo == {s \in A : s <= x}
           Hi == {s \in K : s > x}
           w(y) == WorthOf(S, t, y)
<1>1. K \in SUBSET Nat /\ IsFiniteSet(K) /\ \A i \in S : raw[i].con.strike \in K
  BY StrikesAre
<1>2. IsFiniteSet(A) /\ A \in SUBSET Nat
  <2>1. IsFiniteSet(K \cup {0})
    BY <1>1, FS_AddElement
  <2>2. A = K \cup {0}
    OBVIOUS
  <2> QED BY <1>1, <2>1, <2>2
<1>3. IsFiniteSet(Lo) /\ IsFiniteSet(Hi)
  <2>1. Lo \in SUBSET A /\ Hi \in SUBSET K
    OBVIOUS
  <2> HIDE DEF A, K, Lo, Hi
  <2> QED BY <1>1, <1>2, <2>1, FS_Subset, Zenon
<1>4. Lo \in SUBSET Int /\ 0 \in Lo /\ Hi \in SUBSET Int
  BY <1>1
<1> DEFINE l == Max(Lo)
           r == Min(Hi)
<1>5. l \in Lo /\ \A y \in Lo : y <= l
  <2> HIDE DEF Lo
  <2> QED BY <1>3, <1>4, Extremes, Zenon
<1>6. l \in A /\ l \in Nat /\ l <= x
  BY <1>2, <1>5
<1>7. CASE Hi = {}
  <2>1. \A i \in S : raw[i].con.strike <= l
    <3> SUFFICES ASSUME NEW i \in S PROVE raw[i].con.strike <= l
      OBVIOUS
    <3>1. raw[i].con.strike \in K /\ raw[i].con.strike \in Nat
      BY <1>1
    <3>2. raw[i].con.strike <= x
      BY <1>7, <3>1
    <3> QED BY <1>5, <3>1, <3>2
  <2> DEFINE m == SlopeOf(S, t, l)
  <2> HIDE DEF l
  <2>2. w(x) = w(l) + (x - l) * m /\ w(l) \in Int /\ m \in Int
    <3>1. l \in Int /\ x \in Int /\ l <= x /\ x <= x
      BY <1>6
    <3>2. \A i \in S : raw[i].con.strike <= l \/ raw[i].con.strike >= x
      BY <2>1
    <3> HIDE DEF S
    <3> QED BY <3>1, <3>2, Line, ZenonT(30) DEF S
  <2>3. m = Multiplier * CallsOf(t)
    BY <1>6, <2>1, SlopeBeyond
  <2>4. CallsOf(t) \in Int
    BY CallsAre
  <2> HIDE DEF m, w
  <2>5. m >= 0 /\ m \in Int
    BY <2>3, <2>4, SMT DEF Multiplier
  <2>6. (x - l) * m >= 0 /\ (x - l) * m \in Int
    <3>1. x - l \in Nat /\ m \in Nat
      BY <1>6, <2>5
    <3>2. (x - l) * m \in Nat
      BY <3>1, SMT
    <3> QED BY <3>2
  <2>7. w(l) <= w(x)
    BY <2>2, <2>6, SMT
  <2> QED BY <1>6, <2>7, Zenon DEF w, S, A, K
<1>8. CASE Hi # {}
  <2>1. r \in Hi /\ \A y \in Hi : r <= y
    <3> HIDE DEF Hi
    <3> QED BY <1>3, <1>4, <1>8, Extremes, Zenon
  <2>2. r \in K /\ r \in Nat /\ x < r
    BY <1>1, <2>1
  <2>3. \A i \in S : raw[i].con.strike <= l \/ raw[i].con.strike >= r
    <3> SUFFICES ASSUME NEW i \in S PROVE raw[i].con.strike <= l \/ raw[i].con.strike >= r
      OBVIOUS
    <3>1. raw[i].con.strike \in K /\ raw[i].con.strike \in Nat
      BY <1>1
    <3>2. CASE raw[i].con.strike <= x
      BY <1>5, <3>1, <3>2
    <3>3. CASE raw[i].con.strike > x
      BY <2>1, <3>1, <3>3
    <3> QED BY <3>1, <3>2, <3>3
  <2> DEFINE m == SlopeOf(S, t, l)
  <2> HIDE DEF l, r
  <2>4. w(x) = w(l) + (x - l) * m /\ w(l) \in Int /\ m \in Int
    BY <1>6, <2>2, <2>3, Line
  <2>5. w(r) = w(l) + (r - l) * m
    BY <1>6, <2>2, <2>3, Line
  <2> HIDE DEF m, w
  <2>6. CASE m >= 0
    <3>1. x - l \in Nat /\ m \in Nat
      BY <1>6, <2>4, <2>6
    <3>2. (x - l) * m \in Nat
      BY <3>1, SMT
    <3>3. w(l) <= w(x)
      BY <2>4, <3>2, SMT
    <3> QED BY <1>6, <3>3, Zenon DEF w, S, A, K
  <2>7. CASE m < 0
    <3> DEFINE n == -m
               d == r - x
               e == x - l
    <3>1. n \in Nat /\ d \in Nat /\ e \in Nat /\ m = -n /\ r - l = e + d /\ x - l = e
      BY <1>6, <2>2, <2>4, <2>7
    <3> HIDE DEF n, d, e
    <3>2. d * n \in Nat /\ e * n \in Nat
      BY <3>1, SMT
    <3>3. (e + d) * (-n) = -(e * n) - (d * n) /\ e * (-n) = -(e * n)
      BY <3>1, SMT
    <3>4. w(r) = w(l) + (-(e * n) - (d * n)) /\ w(x) = w(l) + (-(e * n))
      BY <2>4, <2>5, <3>1, <3>3
    <3>5. w(r) <= w(x)
      BY <2>4, <3>2, <3>4, SMT
    <3> QED BY <2>2, <3>5, Zenon DEF w, S, A, K
  <2> QED BY <2>4, <2>6, <2>7
<1> QED BY <1>7, <1>8


\* The rows the payoff is looked at are among the prices, and its worst row is the worst price.
LEMMA SameMin ==
    ASSUME NEW A \in SUBSET Int, IsFiniteSet(A), A # {}, NEW B \in SUBSET Int, IsFiniteSet(B), B # {},
           \A x \in A : \E y \in B : y <= x, \A y \in B : \E x \in A : x <= y
    PROVE  Min(A) = Min(B)
<1>1. Min(A) \in A /\ \A x \in A : Min(A) <= x
  BY Extremes, Zenon
<1>2. Min(B) \in B /\ \A x \in B : Min(B) <= x
  BY Extremes, Zenon
<1>3. PICK y \in B : y <= Min(A)
  BY <1>1, Zenon
<1>4. PICK x \in A : x <= Min(B)
  BY <1>2, Zenon
<1>5. Min(A) \in Int /\ Min(B) \in Int /\ x \in Int /\ y \in Int /\ Min(A) <= x /\ Min(B) <= y
  BY <1>1, <1>2, <1>3, <1>4, Zenon
<1> QED BY <1>3, <1>4, <1>5, SMT

TopOf(t) == 4 * Max({1} \cup {raw[i].con.strike \div Unit : i \in RiskFills(t)})
LEMMA TopIs ==
    ASSUME ExecutionInv, AmountsInv, NEW t \in Trades
    PROVE  TopOf(t) \in Nat /\ \A s \in StrikesOf(t) : s \div Unit \in Nat /\ s = Unit * (s \div Unit) /\ 2 * (s \div Unit) <= TopOf(t)
<1> DEFINE S == RiskFills(t)
           k == [i \in S |-> raw[i].con.strike \div Unit]
           Q == {raw[i].con.strike \div Unit : i \in S}
           A == {1} \cup Q
           m == Max(A)
<1>1. Unit \in Nat \ {0}
  BY BookAssumption
<1>2. ASSUME NEW s \in StrikesOf(t) PROVE s \div Unit \in Nat /\ s = Unit * (s \div Unit)
  <2>1. s \in Nat /\ s % Unit = 0
    BY StrikesAre
  <2>2. s = Unit * (s \div Unit) /\ s \div Unit \in Int
    BY <1>1, <2>1, Exactly
  <2>3. s \div Unit \in Nat
    BY <1>1, <2>1, SMT
  <2> QED BY <2>2, <2>3
<1>3. Q = {k[i] : i \in S} /\ Q = {s \div Unit : s \in StrikesOf(t)}
  BY DEF StrikesOf
<1>4. IsFiniteSet(S)
  BY RiskFillIs
<1>5. IsFiniteSet({k[i] : i \in S})
  <2> HIDE DEF k, S
  <2> QED BY <1>4, ImageFinite
<1>6. IsFiniteSet(A)
  <2> HIDE DEF Q, k, S
  <2>1. IsFiniteSet(Q \cup {1})
    BY <1>3, <1>5, FS_AddElement
  <2>2. A = Q \cup {1}
    OBVIOUS
  <2> QED BY <2>1, <2>2
<1>7. Q \in SUBSET Nat
  BY <1>2, <1>3
<1>8. A \in SUBSET Nat /\ A # {} /\ 1 \in A
  <2> HIDE DEF Q
  <2> QED BY <1>7
<1>9. m \in A /\ \A n \in A : n <= m
  <2>1. A \in SUBSET Int
    BY <1>8
  <2> HIDE DEF A
  <2> QED BY <1>6, <1>8, <2>1, Extremes, Zenon
<1>10. TopOf(t) = 4 * m
  BY DEF TopOf
<1>11. ASSUME NEW s \in StrikesOf(t) PROVE s \div Unit \in A
  BY <1>3, Zenon
<1> HIDE DEF A, m
<1>12. m \in Nat
  BY <1>8, <1>9
<1>13. ASSUME NEW s \in StrikesOf(t) PROVE 2 * (s \div Unit) <= TopOf(t)
  <2> DEFINE n == s \div Unit
  <2>1. n \in Nat /\ n <= m
    BY <1>2, <1>9, <1>11
  <2> HIDE DEF n
  <2>2. 2 * n <= 4 * m
    BY <1>12, <2>1, SMT
  <2> QED BY <1>10, <2>2 DEF n
<1> QED BY <1>2, <1>10, <1>12, <1>13, SMT

LossAt(t, price) == PremiumOf(RiskFills(t), t) + WorthOf(RiskFills(t), t, price)
LossesOf(t) == {LossAt(t, Unit * n) : n \in 0 .. TopOf(t)}
LEMMA WorstIs ==
    ASSUME ExecutionInv, AmountsInv, NEW t \in Trades, OneSided(t), CallsOf(t) >= 0, RiskFills(t) # {}
    PROVE  WorstLoss(NetPositions(RiskFills(t), t)) = Min(LossesOf(t)) /\ NetPositions(RiskFills(t), t) # {}
           /\ Min(LossesOf(t)) \in Int
<1> DEFINE S == RiskFills(t)
           P == NetPositions(S, t)
           K == StrikesOf(t)
           G == {0, 2 * Max(K)} \cup K
           pay == [y \in G |-> PayoffAt(P, y)]
           loss == [n \in 0 .. TopOf(t) |-> LossAt(t, Unit * n)]
           A == {PayoffAt(P, y) : y \in G}
           B == LossesOf(t)
<1>1. P = {PositionOf(k, t) : k \in RiskKeys(t)}
  BY PositionsAre
<1>2. {p.strike : p \in P} = K
  <2>1. \A k \in RiskKeys(t) : PositionOf(k, t).strike = k[1]
    BY DEF PositionOf
  <2>2. {p.strike : p \in P} = {PositionOf(k, t).strike : k \in RiskKeys(t)}
    BY <1>1
  <2>3. {PositionOf(k, t).strike : k \in RiskKeys(t)} = {k[1] : k \in RiskKeys(t)}
    BY <2>1
  <2>4. {k[1] : k \in RiskKeys(t)} = K
    <3>1. ASSUME NEW k \in RiskKeys(t) PROVE k[1] \in K
      <4>1. PICK i \in S : k = KeyOf(i)
        BY DEF RiskKeys
      <4> QED BY <4>1 DEF KeyOf, StrikesOf
    <3>2. ASSUME NEW s \in K PROVE \E k \in RiskKeys(t) : s = k[1]
      <4>1. PICK i \in S : s = raw[i].con.strike
        BY DEF StrikesOf
      <4>2. KeyOf(i) \in RiskKeys(t) /\ KeyOf(i)[1] = s
        BY <4>1 DEF KeyOf, RiskKeys
      <4> QED BY <4>2
    <3> HIDE DEF K
    <3> QED BY <3>1, <3>2
  <2> QED BY <2>2, <2>3, <2>4, Zenon
<1>3. P # {}
  BY <1>1 DEF RiskKeys
<1>4. Grid(P) = G
  BY <1>2, Zenon DEF Grid
<1>5. WorstLoss(P) = Min(A)
  BY <1>4, Zenon DEF WorstLoss
<1>6. K \in SUBSET Nat /\ IsFiniteSet(K) /\ K # {}
  BY StrikesAre
<1>7. Max(K) \in K
  <2>1. K \in SUBSET Int
    BY <1>6
  <2> HIDE DEF K
  <2> QED BY <1>6, <2>1, Extremes, Zenon
<1>8. Max(K) \in Nat /\ G \in SUBSET Nat
  BY <1>6, <1>7
<1>9. IsFiniteSet(G)
  <2> DEFINE d == 2 * Max(K)
  <2>1. G = (K \cup {0}) \cup {d}
    OBVIOUS
  <2> HIDE DEF G, K, d
  <2>2. IsFiniteSet(K \cup {0})
    BY <1>6, FS_AddElement
  <2>3. IsFiniteSet((K \cup {0}) \cup {d})
    BY <2>2, FS_AddElement
  <2> QED BY <2>1, <2>3
<1>10. Unit \in Nat \ {0} /\ TopOf(t) \in Nat
  BY BookAssumption, TopIs
<1>11. \A y \in Nat : PayoffAt(P, y) = LossAt(t, y) /\ LossAt(t, y) \in Int
  <2> SUFFICES ASSUME NEW y \in Nat PROVE PayoffAt(P, y) = LossAt(t, y) /\ LossAt(t, y) \in Int
    OBVIOUS
  <2>1. y \in Int
    OBVIOUS
  <2>2. PayoffAt(P, y) = PremiumOf(S, t) + WorthOf(S, t, y) /\ PremiumOf(S, t) \in Int /\ WorthOf(S, t, y) \in Int
    BY <2>1, PayoffIs
  <2> QED BY <2>2, SMT DEF LossAt
<1>12. ASSUME NEW y \in G PROVE \E n \in 0 .. TopOf(t) : y = Unit * n
  <2>1. CASE y = 0
    <3>1. 0 \in 0 .. TopOf(t) /\ Unit * 0 = 0
      BY <1>10
    <3> QED BY <2>1, <3>1
  <2>2. CASE y \in K
    <3> DEFINE n == y \div Unit
    <3>1. n \in Nat /\ y = Unit * n /\ 2 * n <= TopOf(t)
      BY <2>2, TopIs
    <3> HIDE DEF n
    <3>2. n \in 0 .. TopOf(t)
      BY <1>10, <3>1, SMT
    <3> QED BY <3>1, <3>2
  <2>3. CASE y = 2 * Max(K)
    <3> DEFINE s == Max(K)
               n == s \div Unit
    <3>1. s \in StrikesOf(t)
      BY <1>7
    <3>2. n \in Nat /\ s = Unit * n /\ 2 * n <= TopOf(t)
      <4> HIDE DEF s
      <4> QED BY <3>1, TopIs
    <3> HIDE DEF s, n
    <3>3. 2 * n \in 0 .. TopOf(t)
      BY <1>10, <3>2, SMT
    <3>4. 2 * (Unit * n) = Unit * (2 * n)
      BY <1>10, <3>2, SMT
    <3>5. y = Unit * (2 * n)
      BY <2>3, <3>2, <3>4 DEF s
    <3> QED BY <3>3, <3>5
  <2> QED BY <2>1, <2>2, <2>3
<1>13. ASSUME NEW n \in 0 .. TopOf(t) PROVE Unit * n \in Nat
  <2>1. n \in Nat /\ Unit \in Nat
    BY <1>10
  <2> QED BY <2>1, SMT
<1>14. A = {pay[y] : y \in G} /\ B = {loss[n] : n \in 0 .. TopOf(t)}
  BY Zenon DEF LossesOf
<1>15. 0 \in G /\ {0} \cup K \in SUBSET G
  OBVIOUS
<1>16. \A y \in {0} \cup K : y \in Nat
  BY <1>6
<1>17. CallsOf(t) >= 0 /\ OneSided(t)
  OBVIOUS
<1>18. ASSUME NEW n \in 0 .. TopOf(t) PROVE \E y \in G : LossAt(t, y) <= LossAt(t, Unit * n)
  <2> DEFINE x == Unit * n
  <2>1. x \in Nat
    BY <1>13
  <2> HIDE DEF x
  <2>2. PICK y \in {0} \cup StrikesOf(t) : WorthOf(S, t, y) <= WorthOf(S, t, x)
    BY <2>1, LowestAtABend
  <2>3. y \in Nat /\ y \in G
    BY <1>15, <1>16
  <2>4. PremiumOf(S, t) \in Int /\ WorthOf(S, t, y) \in Int /\ WorthOf(S, t, x) \in Int
    <3>1. x \in Int /\ y \in Int
      BY <2>1, <2>3
    <3> QED BY <3>1, PayoffIs
  <2>5. LossAt(t, y) <= LossAt(t, x)
    BY <2>2, <2>4, SMT DEF LossAt
  <2> QED BY <2>3, <2>5 DEF x
<1> HIDE DEF S, P, K, G, pay, loss
<1>19. A \in SUBSET Int /\ A # {} /\ \A x \in A : \E y \in G : x = LossAt(t, y)
  BY <1>8, <1>11, <1>15
<1>20. IsFiniteSet(A)
  BY <1>9, <1>14, ImageFinite
<1>21. IsFiniteSet(B)
  <2>1. IsFiniteSet(0 .. TopOf(t))
    BY <1>10, FS_Interval
  <2>2. IsFiniteSet({loss[n] : n \in 0 .. TopOf(t)})
    BY <2>1, ImageFinite, Zenon
  <2> QED BY <1>14, <2>2
<1>22. B = {LossAt(t, Unit * n) : n \in 0 .. TopOf(t)}
  BY DEF LossesOf
<1>23. B \in SUBSET Int /\ B # {}
  <2>1. 0 \in 0 .. TopOf(t)
    BY <1>10
  <2> QED BY <1>11, <1>13, <1>22, <2>1
<1>24. ASSUME NEW x \in A PROVE \E z \in B : z <= x
  <2>1. PICK y \in G : x = LossAt(t, y)
    BY <1>19
  <2>2. PICK n \in 0 .. TopOf(t) : y = Unit * n
    BY <1>12
  <2>3. x \in B /\ x \in Int
    BY <1>19, <1>22, <2>1, <2>2
  <2>4. x <= x
    BY <2>3
  <2> QED BY <2>3, <2>4
<1>25. ASSUME NEW z \in B PROVE \E x \in A : x <= z
  <2>1. PICK n \in 0 .. TopOf(t) : z = LossAt(t, Unit * n)
    BY <1>22
  <2>2. PICK y \in G : LossAt(t, y) <= LossAt(t, Unit * n)
    BY <1>18
  <2>3. PayoffAt(P, y) = LossAt(t, y) /\ PayoffAt(P, y) \in A
    BY <1>8, <1>11
  <2> QED BY <2>1, <2>2, <2>3
<1> HIDE DEF A, B
<1>26. Min(A) = Min(B)
  BY <1>19, <1>20, <1>21, <1>23, <1>24, <1>25, SameMin
<1>27. Min(B) \in Int
  BY <1>21, <1>23, Extremes, Zenon
<1> QED BY <1>3, <1>5, <1>26, <1>27 DEF B, P, S


\* The price a defined-risk trade's risk is read at (get_risk_grid_rows looks at zero, each
\* strike and twice the highest) is the worst of all: what a trade with no call uncovered
\* makes is a line between two strikes and never falls beyond the last.
THEOREM ResultsRisk == ResultSpec => []RiskIsTheWorst
<1>1. ASSUME ExecutionInv, AmountsInv PROVE RiskIsTheWorst
  <2> SUFFICES ASSUME NEW t \in Trades, RiskFills(t) # {}, CallsOf(t) >= 0, Min(LossesOf(t)) < 0, OneSided(t)
               PROVE  MaxRisk(0, 0, t) = -Min(LossesOf(t))
    BY Zenon DEF RiskIsTheWorst, RiskFills, CallsOf, CallFills, OneSided, KeyOf, LossesOf, LossAt, TopOf, PremiumOf, WorthOf
  <2> DEFINE P == NetPositions(RiskFills(t), t)
             w == Min(LossesOf(t))
  <2>1. WorstLoss(P) = w /\ P # {} /\ w \in Int
    BY <1>1, WorstIs
  <2>2. ~Unlimited(P)
    <3>1. CallsOf(t) \in Int /\ (Unlimited(P) <=> CallsOf(t) < 0)
      BY <1>1, CallsAre
    <3>2. ~(CallsOf(t) < 0)
      BY <3>1, SMT
    <3> QED BY <3>1, <3>2
  <2>3. MaxRisk(0, 0, t) = IF P # {} /\ ~Unlimited(P) /\ WorstLoss(P) < 0 THEN -WorstLoss(P) ELSE UnderlyingCost(t)
    BY Zenon DEF MaxRisk, RiskFills
  <2> HIDE DEF P
  <2> QED BY <2>1, <2>2, <2>3
<1> QED BY <1>1, ResultsInvariant, PTL
=============================================================================
