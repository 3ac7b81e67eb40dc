----------------------------- MODULE MCRuleChain -----------------------------
(* Instances of RuleChain for TLC: one gate set, one rule, one allocation. *)
EXTENDS RuleChain, TLC

TwoKeys == {"days", "dates"}

Rule(op, o, sends, g, watch, symbols) ==
    [op |-> op, row |-> o, sends |-> sends, gate |-> g, watch |-> watch, symbols |-> symbols]

GateCalls == UNION {
    {[op |-> "new_gate", row |-> g], [op |-> "drop_gate", row |-> g],
     [op |-> "put_gate", row |-> g, params |-> [k \in Keys |-> 0]]}
    \cup [op : {"patch_gate"}, row : {g}, key : Keys, value : {1}] : g \in Gates}
RuleCalls == UNION {
    {Rule("new_rule", o, {"gate", "watch", "symbols"}, None, FALSE, TRUE),
     Rule("edit_rule", o, {"watch"}, None, TRUE, FALSE),
     Rule("edit_rule", o, {"symbols"}, None, FALSE, FALSE),
     Rule("edit_rule", o, {"gate", "watch", "symbols"}, None, FALSE, TRUE)}
    \cup {Rule("edit_rule", o, {"gate"}, g, FALSE, FALSE) : g \in Gates}
    \cup [op : {"drop_rule", "trade"}, row : {o}] : o \in Rules}
Alloc(op, a, sends, g, list) ==
    [op |-> op, row |-> a, sends |-> sends, gate |-> g, list |-> list]
AllocCalls == UNION {
    {Alloc("new_alloc", a, {"gate", "list"}, None, Rules),
     Alloc("edit_alloc", a, {"list"}, None, Rules),
     Alloc("edit_alloc", a, {"gate", "list"}, None, {}),
     [op |-> "drop_alloc", row |-> a]}
    \cup {Alloc("edit_alloc", a, {"gate"}, g, {}) : g \in Gates}
    \cup [op : {"relink"}, row : {a}, sends : {{"list"}}, list : {{}, Rules}] : a \in Allocs}
ActiveCalls ==
    [op : {"activate"}, row : {"settings"}, sends : {{"gate", "alloc"}},
     gate : Gates, alloc : Allocs]
    \cup {[op |-> "activate", row |-> "settings", sends |-> {"gate", "alloc"},
           gate |-> None, alloc |-> None]}

AllCalls == GateCalls \cup RuleCalls \cup AllocCalls \cup ActiveCalls
SessionSymmetry == Permutations(Sessions)
=============================================================================
