-------------------------- MODULE MCFillAttribution --------------------------
(* Instances of FillAttribution for TLC.                                   *)
EXTENDS FillAttribution, TLC

\* One call after another, failing and crashing; and all the writers meeting.
SomeCasts ==
    [serial |-> [ops |-> {"patch", "replace", "delete", "delete_one"}, editors |-> 1, calls |-> 5, faults |-> 1],
     meeting |-> [ops |-> AllOps, editors |-> 2, calls |-> 3, faults |-> 0]]

PatchCasts == [patches |-> [ops |-> {"patch"}, editors |-> 2, calls |-> 3, faults |-> 0]]

EditorSymmetry == Permutations(Sessions) \cup Permutations(Trades)
=============================================================================
