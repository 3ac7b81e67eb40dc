--------------------------- MODULE MCBookSnapshot ---------------------------
(* Instances of BookSnapshot for TLC: a call of strike 1000.               *)
EXTENDS BookSnapshot

Closes == [d \in 1 .. Days |-> IF d = 1 THEN 1200 ELSE 1250]

Offer(behind, greeks, close, traded, model) ==
    [behind |-> behind, greeks |-> greeks, close |-> close, traded |-> traded, model |-> model]

\* Yesterday's Greeks with no close, a close under intrinsic, an earlier session's trade,
\* a morning's trade far from the vendor-IV price, a trade at the close with delta alone.
SomeOffers ==
    {Offer(1, 2, Missing, "late", Missing), Offer(0, 2, 150, "late", Missing),
     Offer(0, 2, 300, "earlier", 310), Offer(0, 2, 800, "early", 310),
     Offer(0, 1, 300, "late", Missing)}

Best == Offer(0, 2, 300, "late", 310)
Better == Offer(0, 2, 320, "late", 330)
AllOffers == SomeOffers \cup {Best, Better}

Cast(js, days, os, p, s, r, f) ==
    [jobs |-> js, days |-> days, offers |-> os, partial |-> p, syncs |-> s, runs |-> r, faults |-> f]

\* One session with repeated runs and every vendor row; partial syncs before and after
\* the close; two jobs that meet; the sessions before and after the holiday.
SomeCasts ==
    {Cast({"j"}, 1, SomeOffers, FALSE, 1, 3, 2), Cast({"j"}, 1, {Best}, TRUE, 2, 2, 1),
     Cast({"j", "k"}, 1, {Best, Offer(0, 1, 300, "late", Missing)}, FALSE, 2, 2, 0), Cast({"j"}, 3, {Best, Better}, FALSE, 2, 2, 0),
     Cast({"j"}, 3, {Best}, FALSE, 1, 1, 1)}
=============================================================================
