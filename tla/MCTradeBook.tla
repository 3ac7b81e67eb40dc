----------------------------- MODULE MCTradeBook -----------------------------
(* Instances of TradeBook for TLC.                                         *)
EXTENDS TradeBook

\* A whole plan on each account, one without a leg and one without an exit.
SomeBodies ==
    {[account |-> a, legs |-> TRUE, exit |-> TRUE, expiry |-> 0] : a \in Accounts}
    \cup {[account |-> FillAccount, legs |-> l, exit |-> ~l, expiry |-> 0] : l \in BOOLEAN}
=============================================================================
