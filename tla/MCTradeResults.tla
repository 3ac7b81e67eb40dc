--------------------------- MODULE MCTradeResults --------------------------
(* Instances of the executions and what is computed from them, for TLC.    *)
EXTENDS TradeResults

Stock == [sym |-> "x", strike |-> 0, right |-> "-", expiry |-> 0]
Option(strike, right) == [sym |-> "x", strike |-> Unit * strike, right |-> right, expiry |-> 2]
Other(s) == [s EXCEPT !.con.sym = "y"]

Shape(via, sec, buy, qty, price, rp, time) ==
    [via |-> via, acct |-> "u1", con |-> IF sec = "OPT" THEN Option(2, "C") ELSE Stock, sec |-> sec,
     buy |-> buy, qty |-> qty, price |-> Unit * price, close |-> 0,
     rp |-> rp, fee |-> Unit, time |-> time, timed |-> TRUE, dated |-> TRUE, alias |-> FALSE]

\* Fills Flex gives its own exec_id or no trade date, a combination, an evening, another
\* underlying's option of the same terms.
ViewShapes == {Shape("ib", "OPT", TRUE, 1, 5, 0, t) : t \in 1 .. 3}
              \cup {[Shape("ib", "OPT", TRUE, 1, 5, 0, t) EXCEPT !.alias = TRUE] : t \in 2 .. 3}
              \cup {[Shape("ib", "OPT", FALSE, 1, 5, 0, 3) EXCEPT !.alias = TRUE, !.dated = FALSE],
                    Shape("ib", "BAG", TRUE, 1, 5, 0, 1), Shape("journal", "OPT", FALSE, 1, 5, 0, 1),
                    Other(Shape("ib", "OPT", TRUE, 1, 5, 0, 1))}

\* Rows of the same evening, whose day is another when Flex tells it, with no time, with no date.
WalkShapes == {Shape("ib", "STK", TRUE, 1, 5, 0, 2),
               [Shape("ib", "STK", TRUE, 1, 5, 0, 1) EXCEPT !.dated = FALSE],
               [Shape("journal", "STK", TRUE, 1, 5, 0, 1) EXCEPT !.timed = FALSE]}

\* Option fills of both sides over two days.
PairShapes == {Shape("ib", "OPT", TRUE, 2, t, 0, t) : t \in {1, 3}}
              \cup {Shape("ib", "OPT", FALSE, q, t + q, 0, t) : q \in {1, 3}, t \in {1, 3}}

\* A gain and a loss, a stock fill in the evening, one with no time.
ShareShapes == {Shape("ib", "OPT", FALSE, 3, 5, 600, 1), Shape("ib", "STK", TRUE, 1, 5, -300, 2),
                [Shape("journal", "OPT", TRUE, 2, 5, 120, 3) EXCEPT !.timed = FALSE]}

\* A call sold or bought, another of a lower strike and one of another underlying, a put sold
\* and bought back in part, and the stock of its assignment with a close.
ResultShapes == {Shape("ib", "OPT", buy, 2, 1, 0, 1) : buy \in BOOLEAN}
                \cup {[Shape("ib", "OPT", TRUE, 1, 2, 0, 3) EXCEPT !.con = Option(1, "C")],
                      Other(Shape("ib", "OPT", TRUE, 2, 1, 0, 1))}
                \cup {[Shape("ib", "OPT", buy, IF buy THEN 1 ELSE 2, IF buy THEN 3 ELSE 1, 0, 3)
                           EXCEPT !.con = Option(2, "P")] : buy \in BOOLEAN}
                \cup {[Shape("ib", "STK", TRUE, 2, 3, 300, 3) EXCEPT !.close = 120]}

AllShapes == ViewShapes \cup WalkShapes \cup PairShapes \cup ShareShapes \cup ResultShapes
SomeLines == {[tx |-> 1, ts |-> 1, amount |-> 5], [tx |-> 2, ts |-> 1, amount |-> 7],
              [tx |-> 1, ts |-> 2, amount |-> 5], [tx |-> 0, ts |-> 2, amount |-> 5],
              [tx |-> 0, ts |-> 3, amount |-> 7]}

Cast(shapes, number, sources, kinds, changes) ==
    [shapes |-> shapes, fills |-> number, sources |-> sources, may |-> kinds, edits |-> changes,
     list |-> "none", faults |-> 0, lines |-> 0]

SomeCasts ==
    [views |-> Cast(ViewShapes, 2, {"tws", "flex", "journal"}, {"attribute", "delete"}, 1),
     rows |-> [Cast(WalkShapes, 3, {"tws", "flex", "journal"}, {"delete"}, 1) EXCEPT
                   !.list = "executions"],
     lines |-> [Cast({}, 0, {}, {}, 0) EXCEPT !.list = "transactions", !.faults = 1, !.lines = 3],
     pairs |-> Cast(PairShapes, 4, {"flex"}, {}, 0),
     shares |-> Cast(ShareShapes, 2, {"flex", "journal"}, {"insert", "attribute", "correct"}, 2),
     results |-> Cast(ResultShapes, 2, {"flex"}, {"attribute", "link", "strict"}, 2)]

Structures == [t \in Trades |-> IF t = "t1" THEN "condor" ELSE "put"]

SomeParts == {-2, -1, 1, 2}
=============================================================================
