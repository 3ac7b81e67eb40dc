------------------------------ MODULE RuleChain ------------------------------
(***************************************************************************)
(* The Desk's rule objects in the env database: gate sets, opportunities   *)
(* (rules), allocations with their list of rules, and the daemon's         *)
(* settings row that points at them (monitor/reader/gate_safety_write.py,  *)
(* strategy_opportunity_write.py, strategy_allocation_write.py,            *)
(* strategy_rules_delete.py, settings.py; tables of postgres/ddl.py).      *)
(*                                                                         *)
(* A call is one READ COMMITTED transaction, each statement a step or two. *)
(* Locks are PostgreSQL's: SELECT FOR UPDATE and DELETE take "update", an  *)
(* UPDATE of other columns "write", a foreign key "share" on the row it    *)
(* names. What a call writes is seen by others when it commits.            *)
(***************************************************************************)
EXTENDS Integers

CONSTANTS
    Sessions,               \* callers of the writers
    Gates, Rules, Allocs,   \* ids; one that was deleted is not used again
    Keys, Values,           \* gate params: a value for each key
    Default,                \* GateParams' own value
    Calls,                  \* what callers ask for
    None                    \* NULL; also what a call without an answer asked for

ListOps == {"new_alloc", "edit_alloc", "relink"}
DropOps == {"drop_gate", "drop_rule", "drop_alloc"}

\* "put_gate" is update_gate_safety; "edit_rule" patch_opportunity and, sending gate
\* and watch at least, update_opportunity; "edit_alloc" patch_allocation and an
\* update_allocation that changes a column; "relink" one that sends the list alone.
Requests ==
         [op : {"new_gate", "drop_gate"}, row : Gates]
    \cup [op : {"put_gate"}, row : Gates, params : [Keys -> Values]]
    \cup [op : {"patch_gate"}, row : Gates, key : Keys, value : Values]
    \cup [op : {"new_rule", "edit_rule"}, row : Rules,
          sends : (SUBSET {"gate", "watch", "symbols"}) \ {{}},
          gate : Gates \cup {None}, watch : BOOLEAN, symbols : BOOLEAN]
    \cup [op : {"drop_rule", "trade"}, row : Rules]
    \cup [op : {"new_alloc", "edit_alloc"}, row : Allocs, sends : (SUBSET {"gate", "list"}) \ {{}},
          gate : Gates \cup {None}, list : SUBSET Rules]
    \cup [op : {"relink"}, row : Allocs, sends : {{"list"}}, list : SUBSET Rules]
    \cup [op : {"drop_alloc"}, row : Allocs]
    \cup [op : {"activate"}, row : {"settings"}, sends : (SUBSET {"gate", "alloc"}) \ {{}},
          gate : Gates \cup {None}, alloc : Allocs \cup {None}]

ASSUME RuleAssumption ==
    /\ {None, "settings"} \cap (Gates \cup Rules \cup Allocs) = {}
    /\ Gates \cap Rules = {} /\ Gates \cap Allocs = {} /\ Rules \cap Allocs = {}
    /\ Default \in Values
    /\ Calls \subseteq Requests

VARIABLES
    gate,           \* committed gate_safety_strategy rows
    rule,           \* committed strategy_opportunity rows
    alloc,          \* committed strategy_allocation rows
    member,         \* committed strategy_allocation_opportunity rows {alloc, rule}
    active,         \* the daemon's settings: a gate set and an allocation
    traded,         \* rules with trade rows
    at,             \* each session's step
    req,            \* its request
    held,           \* its locks <<row, mode>>, a row the set of ids in its key
    read,           \* the gate params it has read
    seen,           \* the member rows it deletes
    mixed,          \* history: sessions whose list write met a relink's
    listed          \* history: the list last committed for an allocation, or None

tables == <<gate, rule, alloc, member, active, traded>>
ruleVars == <<tables, at, req, held, read, seen, mixed, listed>>

Life == {"none", "there", "gone"}
GateThere(g) == gate[g].is = "there"
RuleThere(o) == rule[o].is = "there"
AllocThere(a) == alloc[a].is = "there"
There(x) == CASE x \in Gates -> GateThere(x) [] x \in Rules -> RuleThere(x)
              [] x \in Allocs -> AllocThere(x) [] x = "settings" -> TRUE

NoReq == [op |-> "idle", row |-> None]
Sends(q, column) == "sends" \in DOMAIN q /\ column \in q.sends
Pairs(a, list) == {{a, o} : o \in list}
Rows(x) == {m \in member : x \in m}

TypeOK ==
    /\ gate \in [Gates -> [is : Life, params : [Keys -> Values]]]
    /\ rule \in [Rules -> [is : Life, gate : Gates \cup {None}, watch : BOOLEAN,
                           symbols : BOOLEAN]]
    /\ alloc \in [Allocs -> [is : Life, gate : Gates \cup {None}]]
    /\ \A m \in member : \E a \in Allocs, o \in Rules : m = {a, o}
    /\ active \in [gate : Gates \cup {None}, alloc : Allocs \cup {None}]
    /\ traded \subseteq Rules
    /\ at \in [Sessions -> {"idle", "lock", "share", "look", "unlink", "link", "check",
                            "erase", "commit"}]
    /\ \A s \in Sessions : IF at[s] = "idle" THEN req[s] = NoReq /\ held[s] = {}
                           ELSE req[s] \in Calls
    /\ read \in [Sessions -> [Keys -> Values]]
    /\ mixed \subseteq Sessions
    /\ listed \in [Allocs -> (SUBSET Rules) \cup {None}]

Fresh == [k \in Keys |-> Default]
NoGate == [is |-> "none", params |-> Fresh]
NoRule == [is |-> "none", gate |-> None, watch |-> FALSE, symbols |-> FALSE]
NoAlloc == [is |-> "none", gate |-> None]

Init ==
    /\ gate = [g \in Gates |-> NoGate]
    /\ rule = [o \in Rules |-> NoRule]
    /\ alloc = [a \in Allocs |-> NoAlloc]
    /\ member = {} /\ traded = {}
    /\ active = [gate |-> None, alloc |-> None]
    /\ at = [s \in Sessions |-> "idle"] /\ req = [s \in Sessions |-> NoReq]
    /\ held = [s \in Sessions |-> {}] /\ seen = [s \in Sessions |-> {}]
    /\ read = [s \in Sessions |-> Fresh]
    /\ mixed = {} /\ listed = [a \in Allocs |-> None]

-----------------------------------------------------------------------------
(* Locks.                                                                  *)

\* "update" keeps everyone out, "write" other writers.
Excludes(m, n) == "update" \in {m, n} \/ (m = "write" /\ n = "write")

\* Mutant: the row to delete is read without FOR UPDATE.
LockModeShare(op) == IF op \in DropOps THEN "share" ELSE
                     IF op = "patch_gate" THEN "update" ELSE "write"
\* Mutant: the gate set to patch is read without FOR UPDATE.
LockModePlain(op) == IF op \in DropOps THEN "update" ELSE
                     IF op = "patch_gate" THEN "share" ELSE "write"
\* Mutant: a list is replaced without touching its allocation.
LockModeNoTouch(op) == IF op \in DropOps \cup {"patch_gate"} THEN "update" ELSE
                       IF op = "edit_alloc" THEN "share" ELSE "write"

\* patch_gate_safety and the deletes select FOR UPDATE, the rest just UPDATE.
LockMode(op) == IF op \in DropOps \cup {"patch_gate"} THEN "update" ELSE "write"

\* The rows a request's foreign keys come to name, beyond those its row names already.
Naming(q) ==
    CASE q.op = "trade" -> {q.row}
      [] q.op \in {"new_rule", "edit_rule"} ->
             IF Sends(q, "gate") THEN {q.gate} \ {None, rule[q.row].gate} ELSE {}
      [] q.op \in {"new_alloc", "edit_alloc"} ->
             IF Sends(q, "gate") THEN {q.gate} \ {None, alloc[q.row].gate} ELSE {}
      [] q.op = "activate" ->
             (IF Sends(q, "gate") THEN {q.gate} \ {None, active.gate} ELSE {})
             \cup (IF Sends(q, "alloc") THEN {q.alloc} \ {None, active.alloc} ELSE {})

\* A delete's cascades and SET NULL.
Cascade(q) ==
    Rows(q.row) \cup (IF q.row \in {active.gate, active.alloc} THEN {{"settings"}} ELSE {})

\* The locks a session's next step takes. The rows of one statement are taken together.
Wants(s) ==
    LET q == req[s]
    IN  CASE at[s] = "lock" -> {<<{q.row}, LockMode(q.op)>>}
          [] at[s] = "share" -> {<<{x}, "share">> : x \in Naming(q)}
          [] at[s] = "unlink" -> seen[s] \X {"update"}
          [] at[s] = "link" ->
                 {<<{o}, "share">> : o \in q.list} \cup (Pairs(q.row, q.list) \X {"update"})
                 \cup {<<{q.row}, "share">> : o \in q.list}
          [] at[s] = "erase" -> ({{q.row}} \cup Cascade(q)) \X {"update"}
          [] OTHER -> {}

WaitsFor(s, t) ==
    s # t /\ \E w \in Wants(s), h \in held[t] : w[1] = h[1] /\ Excludes(w[2], h[2])
Ready(s) == \A t \in Sessions : ~WaitsFor(s, t)

Take(s, step) ==
    /\ held' = [held EXCEPT ![s] = @ \cup Wants(s)]
    /\ at' = [at EXCEPT ![s] = step]
    /\ UNCHANGED <<req, tables, listed>>

\* The transaction ends, committed or rolled back, and its locks go. Member rows it has
\* deleted are no more for others to delete, even where it has put new ones in their place.
Over(s, deleted) ==
    /\ at' = [at EXCEPT ![s] = "idle"] /\ req' = [req EXCEPT ![s] = NoReq]
    /\ held' = [held EXCEPT ![s] = {}] /\ read' = [read EXCEPT ![s] = Fresh]
    /\ seen' = [t \in Sessions |-> IF t = s THEN {} ELSE seen[t] \ deleted]
    /\ mixed' = mixed \ {s}

Refused(s) == Over(s, {}) /\ UNCHANGED <<tables, listed>>

-----------------------------------------------------------------------------
(* Statements.                                                             *)

FirstStep(op) ==
    CASE op = "new_gate" -> "commit"
      [] op \in {"new_rule", "new_alloc", "trade"} -> "share"
      [] op = "relink" -> "look"
      [] OTHER -> "lock"

\* An INSERT draws an id nobody else has; the other calls name one that was answered.
Drawn(x) == CASE x \in Gates -> gate[x].is # "none" [] x \in Rules -> rule[x].is # "none"
              [] x \in Allocs -> alloc[x].is # "none" [] x = "settings" -> TRUE

Begin(s, q) ==
    /\ at[s] = "idle"
    /\ IF q.op \in {"new_gate", "new_rule", "new_alloc"}
       THEN ~Drawn(q.row) /\ \A t \in Sessions : req[t].row # q.row
       ELSE Drawn(q.row)
    /\ at' = [at EXCEPT ![s] = FirstStep(q.op)]
    /\ req' = [req EXCEPT ![s] = q]
    /\ UNCHANGED <<tables, held, read, seen, mixed, listed>>

\* The UPDATE or SELECT ... FOR UPDATE a call begins with; no row, no call.
Lock(s) ==
    LET q == req[s]
    IN  /\ at[s] = "lock" /\ Ready(s)
        /\ IF ~There(q.row)
           THEN Refused(s)
           ELSE /\ Take(s, IF q.op \in DropOps THEN "check"
                           ELSE IF q.op \in {"put_gate", "patch_gate"} THEN "commit"
                           ELSE "share")
                /\ read' = IF q.op = "patch_gate" THEN [read EXCEPT ![s] = gate[q.row].params]
                           ELSE read
                /\ UNCHANGED <<seen, mixed>>

\* The foreign keys of the row written.
Share(s) ==
    LET q == req[s]
    IN  /\ at[s] = "share" /\ Ready(s)
        /\ IF \E x \in Naming(q) : ~There(x)
           THEN Refused(s)
           ELSE /\ Take(s, IF Sends(q, "list") THEN
                               IF q.op = "new_alloc" THEN "link" ELSE "look"
                           ELSE "commit")
                /\ UNCHANGED <<read, seen, mixed>>

\* DELETE FROM strategy_allocation_opportunity: the rows its snapshot has ...
Look(s) ==
    LET met == {t \in Sessions \ {s} :
                    /\ req[t].op \in ListOps /\ req[t].row = req[s].row
                    /\ at[t] \in {"unlink", "link", "commit"} /\ Sends(req[t], "list")
                    /\ "relink" \in {req[s].op, req[t].op}}
    IN  /\ at[s] = "look"
        /\ seen' = [seen EXCEPT ![s] = Rows(req[s].row)]
        /\ mixed' = IF met = {} THEN mixed ELSE mixed \cup met \cup {s}
        /\ Take(s, "unlink") /\ UNCHANGED read

\* ... go, once nobody else has them; one deleted meanwhile is passed over, and one put in
\* its place is not seen.
Unlink(s) ==
    /\ at[s] = "unlink" /\ Ready(s)
    /\ Take(s, "link") /\ UNCHANGED <<read, seen, mixed>>

\* The INSERTs of the list: every rule is there, and so is the allocation. A row that is
\* there already is taken over (update_allocation) or fails the call (patch_allocation).
Link(s) ==
    LET q == req[s]
    IN  /\ at[s] = "link" /\ Ready(s)
        /\ IF \/ \E o \in q.list : ~RuleThere(o)
              \/ q.op = "relink" /\ q.list # {} /\ ~AllocThere(q.row)
           THEN Refused(s)
           ELSE Take(s, "commit") /\ UNCHANGED <<read, seen, mixed>>

-----------------------------------------------------------------------------
(* Deletes.                                                                *)

RulesOn(g) == {o \in Rules : RuleThere(o) /\ rule[o].gate = g}
AllocsOn(g) == {a \in Allocs : AllocThere(a) /\ alloc[a].gate = g}

\* What the foreign keys of other tables refuse.
Restricted(q) ==
    CASE q.op = "drop_gate" -> RulesOn(q.row) \cup AllocsOn(q.row) # {}
      [] q.op = "drop_rule" -> q.row \in traded
      [] q.op = "drop_alloc" -> FALSE

\* Mutant: the daemon's settings are not asked.
InUseBooksOnly(q) == Restricted(q)

\* "is the object in use?" The counts are taken as one: the lock keeps new users out, so
\* the answer can only turn from yes to no between them.
InUse(q) ==
    \/ Restricted(q)
    \/ q.op = "drop_alloc" /\ active.alloc = q.row
    \/ q.op = "drop_gate" /\ active.gate = q.row

Check(s) ==
    /\ at[s] = "check"
    /\ IF InUse(req[s]) THEN Refused(s)
       ELSE Take(s, "erase") /\ UNCHANGED <<read, seen, mixed>>

\* The DELETE, its cascades, and the commit. A setting that names the row is set to NULL.
Erase(s) ==
    LET q == req[s]
        Dead(f, blank) ==
            IF q.row \in DOMAIN f THEN [f EXCEPT ![q.row] = [blank EXCEPT !.is = "gone"]] ELSE f
    IN  /\ at[s] = "erase" /\ Ready(s)
        /\ IF Restricted(q)
           THEN Refused(s)
           ELSE /\ gate' = Dead(gate, NoGate) /\ rule' = Dead(rule, NoRule)
                /\ alloc' = Dead(alloc, NoAlloc)
                /\ member' = member \ Cascade(q)
                /\ active' = [c \in DOMAIN active |-> IF active[c] = q.row THEN None ELSE active[c]]
                /\ Over(s, Cascade(q))
                /\ UNCHANGED <<traded, listed>>

-----------------------------------------------------------------------------
(* Writes and their commit.                                                *)

\* _deep_merge
Patched(q, params) == [params EXCEPT ![q.key] = q.value]

\* update_gate_safety writes all of the params; patch_gate_safety merges what was sent
\* into those it has read.
CommitGate(s) ==
    LET q == req[s]
    IN  /\ at[s] = "commit" /\ q.op \in {"new_gate", "put_gate", "patch_gate"}
        /\ gate' = [gate EXCEPT ![q.row] = [is |-> "there",
                        params |-> CASE q.op = "new_gate" -> Fresh
                                     [] q.op = "put_gate" -> q.params
                                     [] q.op = "patch_gate" -> Patched(q, read[s])]]
        /\ Over(s, {})
        /\ UNCHANGED <<rule, alloc, member, active, traded, listed>>

\* What the fields sent make of a row.
Merged(q, row) ==
    [is |-> "there",
     gate |-> IF Sends(q, "gate") THEN q.gate ELSE row.gate,
     watch |-> IF Sends(q, "watch") THEN q.watch ELSE row.watch,
     symbols |-> IF Sends(q, "symbols") THEN q.symbols ELSE row.symbols]

\* check_scope_symbols, on the merged row.
ScopeOK(q, row) == Merged(q, row).watch => Merged(q, row).symbols

CommitRule(s) ==
    LET q == req[s]
    IN  /\ at[s] = "commit" /\ q.op \in {"new_rule", "edit_rule"}
        /\ rule' = IF ScopeOK(q, rule[q.row])
                   THEN [rule EXCEPT ![q.row] = Merged(q, @)]
                   ELSE rule
        /\ Over(s, {})
        /\ UNCHANGED <<gate, alloc, member, active, traded, listed>>

CommitAlloc(s) ==
    LET q == req[s]
    IN  /\ at[s] = "commit" /\ q.op \in ListOps
        /\ alloc' = IF q.op = "relink" THEN alloc
                    ELSE [alloc EXCEPT ![q.row] = [is |-> "there",
                              gate |-> IF Sends(q, "gate") THEN q.gate ELSE @.gate]]
        /\ IF Sends(q, "list")
           THEN /\ member' = (member \ seen[s]) \cup Pairs(q.row, q.list)
                /\ listed' = [listed EXCEPT ![q.row] = IF s \in mixed THEN None ELSE q.list]
           ELSE UNCHANGED <<member, listed>>
        /\ Over(s, seen[s])
        /\ UNCHANGED <<gate, rule, active, traded>>

\* write_active_strategy_and_gates
CommitActive(s) ==
    LET q == req[s]
    IN  /\ at[s] = "commit" /\ q.op = "activate"
        /\ active' = [gate |-> IF Sends(q, "gate") THEN q.gate ELSE active.gate,
                      alloc |-> IF Sends(q, "alloc") THEN q.alloc ELSE active.alloc]
        /\ Over(s, {})
        /\ UNCHANGED <<gate, rule, alloc, member, traded, listed>>

\* create_instance_strict
CommitTrade(s) ==
    /\ at[s] = "commit" /\ req[s].op = "trade"
    /\ traded' = traded \cup {req[s].row}
    /\ Over(s, {})
    /\ UNCHANGED <<gate, rule, alloc, member, active, listed>>

\* A statement fails, a caller dies, or the server breaks a deadlock: rolled back.
Fail(s) == at[s] # "idle" /\ Refused(s)

Step(s) ==
    \/ Lock(s) \/ Share(s) \/ Look(s) \/ Unlink(s) \/ Link(s)
    \/ Check(s) \/ Erase(s)
    \/ CommitGate(s) \/ CommitRule(s) \/ CommitAlloc(s) \/ CommitActive(s) \/ CommitTrade(s)

Next == \E s \in Sessions : Step(s) \/ Fail(s) \/ \E q \in Calls : Begin(s, q)

Spec == Init /\ [][Next]_ruleVars

-----------------------------------------------------------------------------
(* Properties.                                                             *)

\* A delete "first asks the only question that can still stop it -- is the object in
\* use?": once it has been answered no, nobody comes to use the object, neither a row
\* whose foreign key would refuse the DELETE nor the settings the daemon starts from,
\* which it would silently empty.
NothingElseStopsIt ==
    \A s \in Sessions : at[s] = "erase" =>
        req[s].row \notin traded \cup {active.gate, active.alloc}
                        \cup {rule[o].gate : o \in Rules} \cup {alloc[a].gate : a \in Allocs}

\* "strategy_opportunity_ids replaces the membership": an allocation's rules are those
\* of the list committed last, less the deleted ones; never a mixture of two lists. (A
\* list sent alone to update_allocation locks no row and may mix with another.)
ListIsReplaced ==
    \A a \in Allocs : AllocThere(a) /\ listed[a] # None =>
        Rows(a) = Pairs(a, {o \in listed[a] : RuleThere(o)})

\* "The row as changed must keep a symbol when it is watchlist_stk": also when one call
\* sends the scope and another empties the symbols.
WatchlistHasSymbols == \A o \in Rules : RuleThere(o) /\ rule[o].watch => rule[o].symbols

\* What two calls write together is what one of them would have written: a list is one
\* caller's list, a scope and its symbols fit each other
\* (strategy_allocation_write, strategy_opportunity_write).
RowsStayWhole == ListIsReplaced /\ WatchlistHasSymbols

\* "keys it leaves out keep their values": a patch of a gate set takes nothing back that
\* another call has committed.
PatchKeepsOthers ==
    [][\A g \in Gates : GateThere(g) /\ GateThere(g)' =>
           \A k \in Keys : gate'[g].params[k] # gate[g].params[k] =>
               \E s \in Sessions :
                   /\ at[s] = "commit" /\ req[s].row = g
                   /\ req[s].op = "put_gate" \/ (req[s].op = "patch_gate" /\ req[s].key = k)
      ]_ruleVars

\* Two calls wait for one another only over list rows: a deleted rule's with a call that
\* replaces a list it is on, a deleted allocation's with a list sent alone, and two calls'
\* own where one list is sent alone. In every other pair one of the two can go on. (The
\* server ends one of the two: Fail.)
OnlyListsDeadlock ==
    \A s, t \in Sessions : WaitsFor(s, t) /\ WaitsFor(t, s) =>
        {req[s].op, req[t].op} \in {{"drop_rule", "edit_alloc"}, {"drop_rule", "relink"},
                                   {"drop_alloc", "relink"},
                                   {"edit_alloc", "relink"}, {"relink"}}
=============================================================================
