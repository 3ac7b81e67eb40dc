------------------------------ MODULE Payoff ------------------------------
(***************************************************************************)
(* The payoff at expiration of a group of option positions and its worst   *)
(* case (portfolio/model/payoff.py), for a group whose calls no shares     *)
(* cover, as the win rate asks for it. A position is a record              *)
(* [strike, right, qty, cost]; qty is signed, cost is avg_cost times what  *)
(* is held, the premium of the position.                                   *)
(***************************************************************************)
EXTENDS Integers, FiniteSetsExt, Functions

Multiplier == 100
AbsOf(n) == IF n < 0 THEN -n ELSE n

Intrinsic(strike, right, price) ==
    Max({0, IF right = "C" THEN price - strike ELSE strike - price})

\* payoff_options_at_price.
PayoffAt(ps, price) ==
    SumFunction([p \in ps |->
        (Intrinsic(p.strike, p.right, price) * p.qty - IF p.qty > 0 THEN p.cost ELSE -p.cost) * Multiplier])

\* Mutant: the price is not looked at beyond the strikes.
GridOfStrikes(ps) == {p.strike : p \in ps}

\* get_risk_grid_rows: zero, the strikes and twice the highest.
Grid(ps) == LET strikes == {p.strike : p \in ps} IN {0, 2 * Max(strikes)} \cup strikes

Calls(ps, short) ==
    SumFunction([p \in {x \in ps : x.right = "C" /\ (x.qty < 0) = short} |-> AbsOf(p.qty)])

\* _compute_envelope: more calls sold than bought lose without limit, else the worst row
\* of the grid is the worst case.
Unlimited(ps) == Calls(ps, TRUE) > Calls(ps, FALSE)
WorstLoss(ps) == Min({PayoffAt(ps, price) : price \in Grid(ps)})
=============================================================================
