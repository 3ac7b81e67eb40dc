--------------------------- MODULE RuleChainProofs ---------------------------
(***************************************************************************)
(* Proofs about RuleChain: for any number of callers, gate sets, rules and *)
(* allocations, an object whose delete has found it unused stays unused,   *)
(* a patch of a gate set takes nothing back, an allocation's rules are one *)
(* caller's list, and two calls wait for one another only over list rows.  *)
(***************************************************************************)
EXTENDS RuleChain, TLAPS

Steps == {"idle", "lock", "share", "look", "unlink", "link", "check", "erase", "commit"}
NewOps == {"new_gate", "new_rule", "new_alloc"}

\* Calls that begin by locking their row, calls that come to name other rows.
LockOps == DropOps \cup {"put_gate", "patch_gate", "edit_rule", "edit_alloc", "activate"}
Users == {"trade", "new_rule", "edit_rule", "new_alloc", "edit_alloc", "activate"}

IsFun(f) == f \in [Sessions -> {f[s] : s \in Sessions}]

\* TypeOK, and what its parts are functions of.
Types ==
    /\ TypeOK
    /\ req \in [Sessions -> Calls \cup {NoReq}] /\ IsFun(held) /\ IsFun(seen)

\* A row that is not there names nothing.
Blank ==
    /\ \A o \in Rules : ~RuleThere(o) => rule[o].gate = None
    /\ \A a \in Allocs : ~AllocThere(a) => alloc[a].gate = None

\* No two sessions hold locks that exclude one another.
Mutex ==
    \A s, t \in Sessions : s # t =>
        \A h \in held[s], k \in held[t] : ~(h[1] = k[1] /\ Excludes(h[2], k[2]))

\* Which calls can be at a step.
Where(op, step) ==
    /\ step \in {"check", "erase"} => op \in DropOps
    /\ step = "share" => op \in Users
    /\ step \in {"look", "unlink", "link"} => op \in Users \cup {"relink"}
    /\ step = "lock" => op \in LockOps

\* Somebody uses the row.
Used(x) ==
    x \in traded \cup {active.gate, active.alloc}
            \cup {rule[o].gate : o \in Rules} \cup {alloc[a].gate : a \in Allocs}

\* What a call under way leans on: its new row is its own, its row is locked, what it
\* will name is shared, what it deletes is unused, what it has read is still so.
SessionOK(s) ==
    LET q == req[s] IN
    at[s] # "idle" =>
        /\ Where(q.op, at[s])
        /\ q.op \in NewOps => ~Drawn(q.row) /\ \A t \in Sessions \ {s} : req[t].row # q.row
        /\ q.op \in LockOps /\ at[s] # "lock" => <<{q.row}, LockMode(q.op)>> \in held[s]
        /\ q.op \in Users /\ at[s] \in {"look", "unlink", "link", "commit"} =>
               \A x \in Naming(q) : <<{x}, "share">> \in held[s]
        /\ at[s] = "erase" => ~Used(q.row)
        /\ q.op = "patch_gate" /\ at[s] = "commit" => read[s] = gate[q.row].params

RuleInv ==
    /\ Types /\ Blank /\ Mutex /\ WatchlistHasSymbols
    /\ \A s \in Sessions : SessionOK(s)

-----------------------------------------------------------------------------
(* What a request holds.                                                   *)

GateOps == {"new_gate", "drop_gate", "put_gate", "patch_gate"}
RuleOps == {"new_rule", "edit_rule", "drop_rule", "trade"}
AllocOps == {"new_alloc", "edit_alloc", "relink", "drop_alloc"}

RowFits(q) ==
    /\ q.op \in GateOps => q.row \in Gates
    /\ q.op \in RuleOps => q.row \in Rules
    /\ q.op \in AllocOps => q.row \in Allocs
    /\ q.op = "activate" => q.row = "settings"
    /\ q.op \in GateOps \cup RuleOps \cup AllocOps \cup {"activate"}

SendsFit(q) ==
    /\ q.op = "put_gate" => q.params \in [Keys -> Values]
    /\ q.op = "patch_gate" => q.key \in Keys /\ q.value \in Values
    /\ Sends(q, "gate") => q.gate \in Gates \cup {None}
    /\ Sends(q, "alloc") => q.alloc \in Allocs \cup {None}
    /\ Sends(q, "watch") => q.watch \in BOOLEAN
    /\ Sends(q, "symbols") => q.symbols \in BOOLEAN
    /\ Sends(q, "list") => q.op \in ListOps /\ q.list \subseteq Rules

\* What a call may say, by its kind (Requests).
LEMMA RequestFits ==
    ASSUME NEW q \in Requests
    PROVE  RowFits(q) /\ SendsFit(q)
<1>1. CASE q \in [op : {"new_gate", "drop_gate"}, row : Gates]
    BY <1>1 DEF RowFits, SendsFit, Sends, GateOps, RuleOps, AllocOps, ListOps
<1>2. CASE q \in [op : {"put_gate"}, row : Gates, params : [Keys -> Values]]
    BY <1>2 DEF RowFits, SendsFit, Sends, GateOps, RuleOps, AllocOps, ListOps
<1>3. CASE q \in [op : {"patch_gate"}, row : Gates, key : Keys, value : Values]
    BY <1>3 DEF RowFits, SendsFit, Sends, GateOps, RuleOps, AllocOps, ListOps
<1>4. CASE q \in [op : {"new_rule", "edit_rule"}, row : Rules,
                  sends : (SUBSET {"gate", "watch", "symbols"}) \ {{}},
                  gate : Gates \cup {None}, watch : BOOLEAN, symbols : BOOLEAN]
    BY <1>4 DEF RowFits, SendsFit, Sends, GateOps, RuleOps, AllocOps, ListOps
<1>5. CASE q \in [op : {"drop_rule", "trade"}, row : Rules]
    BY <1>5 DEF RowFits, SendsFit, Sends, GateOps, RuleOps, AllocOps, ListOps
<1>6. CASE q \in [op : {"new_alloc", "edit_alloc"}, row : Allocs,
                  sends : (SUBSET {"gate", "list"}) \ {{}},
                  gate : Gates \cup {None}, list : SUBSET Rules]
    BY <1>6 DEF RowFits, SendsFit, Sends, GateOps, RuleOps, AllocOps, ListOps
<1>7. CASE q \in [op : {"relink"}, row : Allocs, sends : {{"list"}}, list : SUBSET Rules]
    BY <1>7 DEF RowFits, SendsFit, Sends, GateOps, RuleOps, AllocOps, ListOps
<1>8. CASE q \in [op : {"drop_alloc"}, row : Allocs]
    BY <1>8 DEF RowFits, SendsFit, Sends, GateOps, RuleOps, AllocOps, ListOps
<1>9. CASE q \in [op : {"activate"}, row : {"settings"}, sends : (SUBSET {"gate", "alloc"}) \ {{}},
                  gate : Gates \cup {None}, alloc : Allocs \cup {None}]
    BY <1>9 DEF RowFits, SendsFit, Sends, GateOps, RuleOps, AllocOps, ListOps
<1> QED
    BY <1>1, <1>2, <1>3, <1>4, <1>5, <1>6, <1>7, <1>8, <1>9 DEF Requests

LEMMA CallFits ==
    \A q \in Calls : RowFits(q) /\ SendsFit(q)
BY RequestFits, RuleAssumption

\* The tables' names do not overlap (RuleAssumption).
LEMMA Names ==
    /\ None \notin Gates \cup Rules \cup Allocs
    /\ "settings" \notin Gates \cup Rules \cup Allocs
    /\ \A g \in Gates : g \notin Rules \cup Allocs
    /\ \A o \in Rules : o \notin Gates \cup Allocs
    /\ \A a \in Allocs : a \notin Gates \cup Rules
BY RuleAssumption

-----------------------------------------------------------------------------
(* The rows by their table.                                                *)

Tables ==
    /\ \A g \in Gates : (Drawn(g) <=> gate[g].is # "none") /\ (There(g) <=> GateThere(g))
    /\ \A o \in Rules : (Drawn(o) <=> rule[o].is # "none") /\ (There(o) <=> RuleThere(o))
    /\ \A a \in Allocs : (Drawn(a) <=> alloc[a].is # "none") /\ (There(a) <=> AllocThere(a))

\* An id belongs to one table.
LEMMA TablesLaw == Tables /\ Tables'
<1>1. Tables
    <2>1. \A g \in Gates : (Drawn(g) <=> gate[g].is # "none") /\ (There(g) <=> GateThere(g))
        BY Names DEF Drawn, There
    <2>2. \A o \in Rules : (Drawn(o) <=> rule[o].is # "none") /\ (There(o) <=> RuleThere(o))
        BY Names DEF Drawn, There
    <2>3. \A a \in Allocs : (Drawn(a) <=> alloc[a].is # "none") /\ (There(a) <=> AllocThere(a))
        BY Names DEF Drawn, There
    <2> QED BY <2>1, <2>2, <2>3 DEF Tables
<1>2. Tables'
    <2>1. \A g \in Gates : (Drawn(g)' <=> gate'[g].is # "none") /\ (There(g)' <=> GateThere(g)')
        BY Names DEF Drawn, There
    <2>2. \A o \in Rules : (Drawn(o)' <=> rule'[o].is # "none") /\ (There(o)' <=> RuleThere(o)')
        BY Names DEF Drawn, There
    <2>3. \A a \in Allocs : (Drawn(a)' <=> alloc'[a].is # "none") /\ (There(a)' <=> AllocThere(a)')
        BY Names DEF Drawn, There
    <2> QED BY <2>1, <2>2, <2>3 DEF Tables
<1> QED BY <1>1, <1>2

\* What a call comes to name, by its kind (Naming).
NamingIs(q) ==
    /\ q.op = "trade" => Naming(q) = {q.row}
    /\ q.op \in {"new_rule", "edit_rule"} /\ Sends(q, "gate") =>
           Naming(q) = {q.gate} \ {None, rule[q.row].gate}
    /\ q.op \in {"new_alloc", "edit_alloc"} /\ Sends(q, "gate") =>
           Naming(q) = {q.gate} \ {None, alloc[q.row].gate}
    /\ q.op \in {"new_rule", "edit_rule", "new_alloc", "edit_alloc"} /\ ~Sends(q, "gate") =>
           Naming(q) = {}
    /\ q.op = "activate" =>
           Naming(q) = (IF Sends(q, "gate") THEN {q.gate} \ {None, active.gate} ELSE {})
                       \cup (IF Sends(q, "alloc") THEN {q.alloc} \ {None, active.alloc} ELSE {})

LEMMA NamingLaw ==
    ASSUME NEW q
    PROVE  NamingIs(q) /\ NamingIs(q)'
<1>1. NamingIs(q)
    BY DEF NamingIs, Naming
<1>2. NamingIs(q)'
    BY DEF NamingIs, Naming
<1> QED BY <1>1, <1>2

-----------------------------------------------------------------------------
(* What a session's step does to the sessions (Take, Over).                *)

LEMMA ExceptFun ==
    ASSUME NEW f, NEW s \in Sessions, NEW x, IsFun(f), NEW g, g = [f EXCEPT ![s] = x]
    PROVE  IsFun(g) /\ g[s] = x /\ \A t \in Sessions : t # s => g[t] = f[t]
<1> DEFINE D == {f[t] : t \in Sessions}
<1>1. f \in [Sessions -> D]
    BY DEF IsFun
<1>2. g = [t \in Sessions |-> g[t]]
    BY <1>1
<1>3. g[s] = x /\ \A t \in Sessions : t # s => g[t] = f[t]
    BY <1>1
<1>4. IsFun(g)
    BY <1>2 DEF IsFun
<1> QED BY <1>3, <1>4

\* The tables' part of TypeOK.
TableTypes ==
    /\ gate \in [Gates -> [is : Life, params : [Keys -> Values]]]
    /\ rule \in [Rules -> [is : Life, gate : Gates \cup {None}, watch : BOOLEAN,
                           symbols : BOOLEAN]]
    /\ alloc \in [Allocs -> [is : Life, gate : Gates \cup {None}]]
    /\ \A m \in member : \E a \in Allocs, o \in Rules : m = {a, o}
    /\ active \in [gate : Gates \cup {None}, alloc : Allocs \cup {None}]
    /\ traded \subseteq Rules
    /\ listed \in [Allocs -> (SUBSET Rules) \cup {None}]

\* The sessions' part.
SessionTypes ==
    /\ at \in [Sessions -> Steps]
    /\ \A s \in Sessions : IF at[s] = "idle" THEN req[s] = NoReq /\ held[s] = {}
                           ELSE req[s] \in Calls
    /\ read \in [Sessions -> [Keys -> Values]]
    /\ mixed \subseteq Sessions
    /\ req \in [Sessions -> Calls \cup {NoReq}] /\ IsFun(held) /\ IsFun(seen)

LEMMA TypesParts == (Types <=> TableTypes /\ SessionTypes) /\ (Types' <=> TableTypes' /\ SessionTypes')
BY DEF Types, TypeOK, TableTypes, SessionTypes, Steps, GateThere, RuleThere, AllocThere

LEMMA FreshType == Fresh \in [Keys -> Values]
BY RuleAssumption DEF Fresh

\* A session under way has asked for something, an idle one for nothing.
LEMMA Asked ==
    ASSUME SessionTypes, NEW s \in Sessions
    PROVE  /\ at[s] \in Steps
           /\ at[s] # "idle" => req[s] \in Calls /\ RowFits(req[s]) /\ SendsFit(req[s])
           /\ at[s] = "idle" => req[s] = NoReq /\ held[s] = {}
BY CallFits DEF SessionTypes

LEMMA TakeDoes ==
    ASSUME SessionTypes, NEW s \in Sessions, at[s] # "idle",
           NEW step \in Steps \ {"idle"}, Take(s, step)
    PROVE  /\ at'[s] = step /\ held'[s] = held[s] \cup Wants(s)
           /\ \A t \in Sessions : t # s => at'[t] = at[t] /\ held'[t] = held[t]
           /\ req' = req /\ listed' = listed /\ UNCHANGED tables
           /\ at' \in [Sessions -> Steps] /\ IsFun(held')
           /\ \A t \in Sessions : IF at'[t] = "idle" THEN req'[t] = NoReq /\ held'[t] = {}
                                  ELSE req'[t] \in Calls
<1>1. at' = [at EXCEPT ![s] = step] /\ at \in [Sessions -> Steps]
    BY DEF Take, SessionTypes
<1>2. at'[s] = step /\ at' \in [Sessions -> Steps] /\ \A t \in Sessions : t # s => at'[t] = at[t]
    BY <1>1
<1>3. PICK x : x = held[s] \cup Wants(s)
    OBVIOUS
<1>4. held' = [held EXCEPT ![s] = x] /\ IsFun(held)
    BY <1>3 DEF Take, SessionTypes
<1>5. IsFun(held') /\ held'[s] = x /\ \A t \in Sessions : t # s => held'[t] = held[t]
    BY <1>4, ExceptFun DEF IsFun
<1>6. req' = req /\ listed' = listed /\ UNCHANGED tables
    BY DEF Take
<1>7. \A t \in Sessions : IF at'[t] = "idle" THEN req'[t] = NoReq /\ held'[t] = {}
                          ELSE req'[t] \in Calls
    BY <1>2, <1>5, <1>6, Asked
<1> QED BY <1>2, <1>3, <1>5, <1>6, <1>7

LEMMA OverDoes ==
    ASSUME SessionTypes, NEW s \in Sessions, NEW deleted, Over(s, deleted)
    PROVE  /\ at'[s] = "idle" /\ held'[s] = {} /\ req'[s] = NoReq
           /\ \A t \in Sessions : t # s =>
                  at'[t] = at[t] /\ held'[t] = held[t] /\ req'[t] = req[t] /\ read'[t] = read[t]
           /\ SessionTypes'
<1>1. at' = [at EXCEPT ![s] = "idle"] /\ at \in [Sessions -> Steps]
    BY DEF Over, SessionTypes
<1>2. at'[s] = "idle" /\ at' \in [Sessions -> Steps] /\ \A t \in Sessions : t # s => at'[t] = at[t]
    BY <1>1 DEF Steps
<1>3. held' = [held EXCEPT ![s] = {}] /\ IsFun(held)
    BY DEF Over, SessionTypes
<1>4. IsFun(held') /\ held'[s] = {} /\ \A t \in Sessions : t # s => held'[t] = held[t]
    BY <1>3, ExceptFun DEF IsFun
<1>5. /\ req' = [req EXCEPT ![s] = NoReq] /\ req \in [Sessions -> Calls \cup {NoReq}]
      /\ read' = [read EXCEPT ![s] = Fresh] /\ read \in [Sessions -> [Keys -> Values]]
    BY DEF Over, SessionTypes
<1>6. /\ req' \in [Sessions -> Calls \cup {NoReq}] /\ req'[s] = NoReq
      /\ \A t \in Sessions : t # s => req'[t] = req[t]
    BY <1>5
<1>7. read' \in [Sessions -> [Keys -> Values]] /\ \A t \in Sessions : t # s => read'[t] = read[t]
    BY <1>5, FreshType
<1>8. IsFun(seen')
    BY DEF Over, IsFun
<1>9. mixed' \subseteq Sessions
    BY DEF Over, SessionTypes
<1>10. \A t \in Sessions : IF at'[t] = "idle" THEN req'[t] = NoReq /\ held'[t] = {}
                           ELSE req'[t] \in Calls
    BY <1>2, <1>4, <1>6, Asked
<1>11. SessionTypes'
    BY <1>2, <1>4, <1>6, <1>7, <1>8, <1>9, <1>10 DEF SessionTypes, IsFun
<1> QED BY <1>2, <1>4, <1>6, <1>7, <1>11

LEMMA TakeTypes ==
    ASSUME Types, NEW s \in Sessions, at[s] # "idle", NEW step \in Steps \ {"idle"},
           Take(s, step), read' \in [Sessions -> [Keys -> Values]],
           mixed' \subseteq Sessions, IsFun(seen')
    PROVE  Types'
<1>1. TableTypes /\ SessionTypes
    BY TypesParts
<1>2. /\ req' = req /\ listed' = listed /\ UNCHANGED tables
      /\ at' \in [Sessions -> Steps] /\ IsFun(held')
      /\ \A t \in Sessions : IF at'[t] = "idle" THEN req'[t] = NoReq /\ held'[t] = {}
                             ELSE req'[t] \in Calls
    BY <1>1, TakeDoes
<1>3. TableTypes'
    BY <1>1, <1>2 DEF TableTypes, tables
<1>4. SessionTypes'
    BY <1>1, <1>2 DEF SessionTypes, IsFun
<1> QED BY <1>3, <1>4, TypesParts

-----------------------------------------------------------------------------
(* Locks that exclude one another.                                         *)

\* The locks of the first steps (Wants).
LEMMA WantsLaw ==
    ASSUME NEW s
    PROVE  /\ at[s] = "lock" => Wants(s) = {<<{req[s].row}, LockMode(req[s].op)>>}
           /\ at[s] = "share" => Wants(s) = {<<{x}, "share">> : x \in Naming(req[s])}
           /\ at[s] \in {"look", "check", "commit"} => Wants(s) = {}
BY DEF Wants

LEMMA TakeMutex ==
    ASSUME Mutex, SessionTypes, NEW s \in Sessions, at[s] # "idle",
           NEW step \in Steps \ {"idle"}, Take(s, step), Ready(s) \/ Wants(s) = {}
    PROVE  Mutex'
<1>1. held'[s] = held[s] \cup Wants(s) /\ \A t \in Sessions : t # s => held'[t] = held[t]
    BY TakeDoes
<1>2. \A t \in Sessions : t # s =>
          \A h \in held'[s], k \in held[t] : ~(h[1] = k[1] /\ Excludes(h[2], k[2]))
    BY <1>1 DEF Mutex, Ready, WaitsFor
<1>3. \A m, n : Excludes(m, n) <=> Excludes(n, m)
    BY DEF Excludes
<1>4. SUFFICES ASSUME NEW t \in Sessions, NEW u \in Sessions, t # u,
                      NEW h \in held'[t], NEW k \in held'[u], h[1] = k[1], Excludes(h[2], k[2])
               PROVE  FALSE
    BY DEF Mutex
<1>5. CASE t = s
    BY <1>1, <1>2, <1>4, <1>5
<1>6. CASE u = s
    <2>1. k \in held'[s] /\ h \in held[t] /\ k[1] = h[1] /\ Excludes(k[2], h[2])
        BY <1>1, <1>3, <1>4, <1>6
    <2> QED BY <1>2, <1>4, <1>6, <2>1
<1>7. CASE t # s /\ u # s
    BY <1>1, <1>4, <1>7 DEF Mutex
<1> QED BY <1>5, <1>6, <1>7

LEMMA OverMutex ==
    ASSUME Mutex, SessionTypes, NEW s \in Sessions, NEW deleted, Over(s, deleted)
    PROVE  Mutex'
<1>1. held'[s] = {} /\ \A t \in Sessions : t # s => held'[t] = held[t]
    BY OverDoes
<1> QED BY <1>1 DEF Mutex

\* Two sessions' locks on one row.
LEMMA ApartOn ==
    ASSUME Mutex, NEW s \in Sessions, NEW t \in Sessions, s # t,
           NEW x, NEW m, NEW n, <<{x}, m>> \in held[s], <<{x}, n>> \in held[t]
    PROVE  m # "update" /\ n # "update" /\ ~(m = "write" /\ n = "write")
BY DEF Mutex, Excludes

-----------------------------------------------------------------------------
(* What a step leaves the other calls.                                     *)

\* A call's row, what it comes to name, its emptiness and what it has read are as the
\* call knows them.
Stays(q, step) ==
    /\ q.op \in NewOps => (Drawn(q.row)' => Drawn(q.row))
    /\ q.op \in Users /\ step \in {"look", "unlink", "link", "commit"} =>
           Naming(q)' \subseteq Naming(q)
    /\ step = "erase" => (Used(q.row)' => Used(q.row))
    /\ q.op = "patch_gate" /\ step = "commit" => gate'[q.row].params = gate[q.row].params

LEMMA SameTables ==
    ASSUME UNCHANGED tables, NEW q
    PROVE  /\ Drawn(q.row)' <=> Drawn(q.row)
           /\ Naming(q)' = Naming(q)
           /\ Used(q.row)' <=> Used(q.row)
           /\ gate' = gate
           /\ \A step : Stays(q, step)
<1>1. gate' = gate /\ rule' = rule /\ alloc' = alloc /\ active' = active /\ traded' = traded
    BY DEF tables
<1>2. Drawn(q.row)' <=> Drawn(q.row)
    BY <1>1 DEF Drawn
<1>3. Naming(q)' = Naming(q)
    BY <1>1 DEF Naming
<1>4. Used(q.row)' <=> Used(q.row)
    BY <1>1 DEF Used
<1> QED BY <1>1, <1>2, <1>3, <1>4 DEF Stays

LEMMA OtherOK ==
    ASSUME NEW t \in Sessions, SessionOK(t), NEW q, q = req[t], q = req'[t],
           at'[t] = at[t], held'[t] = held[t], read'[t] = read[t],
           at[t] # "idle" /\ q.op \in NewOps => \A u \in Sessions : u # t => req'[u].row # q.row,
           at[t] # "idle" => Stays(q, at[t])
    PROVE  SessionOK(t)'
<1> SUFFICES ASSUME at[t] # "idle"
             PROVE  /\ Where(q.op, at[t])
                    /\ q.op \in NewOps => /\ ~Drawn(q.row)'
                                          /\ \A u \in Sessions \ {t} : req'[u].row # q.row
                    /\ q.op \in LockOps /\ at[t] # "lock" => <<{q.row}, LockMode(q.op)>> \in held[t]
                    /\ q.op \in Users /\ at[t] \in {"look", "unlink", "link", "commit"} =>
                           \A x \in Naming(q)' : <<{x}, "share">> \in held[t]
                    /\ at[t] = "erase" => ~Used(q.row)'
                    /\ q.op = "patch_gate" /\ at[t] = "commit" => read[t] = gate'[q.row].params
    BY DEF SessionOK
<1>1. /\ Where(q.op, at[t])
      /\ q.op \in NewOps => ~Drawn(q.row)
      /\ q.op \in LockOps /\ at[t] # "lock" => <<{q.row}, LockMode(q.op)>> \in held[t]
      /\ q.op \in Users /\ at[t] \in {"look", "unlink", "link", "commit"} =>
             \A x \in Naming(q) : <<{x}, "share">> \in held[t]
      /\ at[t] = "erase" => ~Used(q.row)
      /\ q.op = "patch_gate" /\ at[t] = "commit" => read[t] = gate[q.row].params
    BY DEF SessionOK
<1> QED BY <1>1 DEF Stays

\* A call's row is nobody else's new row, also when another call ends.
LEMMA OwnRow ==
    ASSUME SessionTypes, NEW t \in Sessions, at[t] # "idle", SessionOK(t),
           req[t].op \in NewOps, NEW u \in Sessions, u # t, req'[u] \in {req[u], NoReq}
    PROVE  req'[u].row # req[t].row
<1>1. req[u].row # req[t].row
    BY DEF SessionOK
<1>2. RowFits(req[t])
    BY Asked
<1>3. req[t].row # None
    BY <1>2, Names DEF RowFits, NewOps, GateOps, RuleOps, AllocOps
<1> QED BY <1>1, <1>3 DEF NoReq

LEMMA TakeKeeps ==
    ASSUME RuleInv, NEW s \in Sessions, at[s] # "idle", NEW step \in Steps \ {"idle"},
           Take(s, step), Ready(s) \/ Wants(s) = {},
           read' \in [Sessions -> [Keys -> Values]], \A t \in Sessions : t # s => read'[t] = read[t],
           mixed' \subseteq Sessions, IsFun(seen'),
           SessionOK(s)'
    PROVE  RuleInv'
<1>1. SessionTypes /\ Types /\ Mutex /\ \A t \in Sessions : SessionOK(t)
    BY TypesParts DEF RuleInv
<1>2. Types'
    BY <1>1, TakeTypes
<1>3. Mutex'
    BY <1>1, TakeMutex
<1>4. /\ req' = req /\ UNCHANGED tables
      /\ \A t \in Sessions : t # s => at'[t] = at[t] /\ held'[t] = held[t]
    BY <1>1, TakeDoes
<1>5. Blank' /\ WatchlistHasSymbols'
    BY <1>4 DEF RuleInv, Blank, WatchlistHasSymbols, RuleThere, AllocThere, tables
<1>6. ASSUME NEW t \in Sessions, t # s PROVE SessionOK(t)'
    <2>1. PICK q : q = req[t] OBVIOUS
    <2>2. at[t] # "idle" /\ q.op \in NewOps => \A u \in Sessions : u # t => req'[u].row # q.row
        BY <1>1, <1>4, <2>1, <1>6, OwnRow
    <2>3. Stays(q, at[t])
        BY <1>4, SameTables
    <2>4. q = req'[t] /\ SessionOK(t) /\ at'[t] = at[t] /\ held'[t] = held[t] /\ read'[t] = read[t]
        BY <1>1, <1>4, <1>6, <2>1
    <2> QED BY <2>1, <2>2, <2>3, <2>4, OtherOK
<1> QED BY <1>2, <1>3, <1>5, <1>6 DEF RuleInv

LEMMA OverKeeps ==
    ASSUME RuleInv, NEW s \in Sessions, NEW deleted, Over(s, deleted),
           TableTypes', Blank', WatchlistHasSymbols',
           \A t \in Sessions, q \in Calls :
               t # s /\ at[t] # "idle" /\ q = req[t] => Stays(q, at[t])
    PROVE  RuleInv'
<1>1. SessionTypes /\ Types /\ Mutex /\ \A t \in Sessions : SessionOK(t)
    BY TypesParts DEF RuleInv
<1>2. /\ at'[s] = "idle" /\ req'[s] = NoReq /\ SessionTypes'
      /\ \A t \in Sessions : t # s =>
             at'[t] = at[t] /\ held'[t] = held[t] /\ req'[t] = req[t] /\ read'[t] = read[t]
    BY <1>1, OverDoes
<1>3. Types'
    BY <1>2, TypesParts
<1>4. Mutex'
    BY <1>1, OverMutex
<1>5. SessionOK(s)'
    BY <1>2 DEF SessionOK
<1>6. ASSUME NEW t \in Sessions, t # s PROVE SessionOK(t)'
    <2>1. PICK q : q = req[t] OBVIOUS
    <2>2. at[t] # "idle" => q \in Calls
        BY <1>1, <2>1, Asked
    <2>3. at[t] # "idle" /\ q.op \in NewOps => \A u \in Sessions : u # t => req'[u].row # q.row
        BY <1>1, <1>2, <2>1, OwnRow
    <2>4. at[t] # "idle" => Stays(q, at[t])
        BY <1>6, <2>1, <2>2
    <2>5. q = req'[t] /\ SessionOK(t) /\ at'[t] = at[t] /\ held'[t] = held[t] /\ read'[t] = read[t]
        BY <1>1, <1>2, <1>6, <2>1
    <2> QED BY <2>1, <2>3, <2>4, <2>5, OtherOK
<1> QED BY <1>3, <1>4, <1>5, <1>6 DEF RuleInv

\* Rolled back, or failed.
LEMMA RefusedKeeps ==
    ASSUME RuleInv, NEW s \in Sessions, Refused(s)
    PROVE  RuleInv'
<1>1. Over(s, {}) /\ UNCHANGED tables /\ listed' = listed
    BY DEF Refused
<1>2. TableTypes'
    <2>1. TableTypes BY TypesParts DEF RuleInv
    <2> QED BY <1>1, <2>1 DEF TableTypes, tables
<1>3. Blank' /\ WatchlistHasSymbols'
    BY <1>1 DEF RuleInv, Blank, WatchlistHasSymbols, RuleThere, AllocThere, tables
<1>4. \A q, step : Stays(q, step)
    BY <1>1, SameTables
<1> QED BY <1>1, <1>2, <1>3, <1>4, OverKeeps

-----------------------------------------------------------------------------
(* The steps that take locks.                                              *)

LEMMA TakerOK ==
    ASSUME SessionTypes, NEW s \in Sessions, at[s] # "idle", SessionOK(s),
           NEW step \in Steps \ {"idle"}, Take(s, step), NEW q, q = req[s],
           Where(q.op, step),
           q.op \in LockOps /\ step # "lock" => <<{q.row}, LockMode(q.op)>> \in held[s] \cup Wants(s),
           q.op \in Users /\ step \in {"look", "unlink", "link", "commit"} =>
               \A x \in Naming(q) : <<{x}, "share">> \in held[s] \cup Wants(s),
           step = "erase" => ~Used(q.row),
           q.op = "patch_gate" /\ step = "commit" => read'[s] = gate[q.row].params
    PROVE  SessionOK(s)'
<1>1. /\ at'[s] = step /\ held'[s] = held[s] \cup Wants(s)
      /\ req' = req /\ UNCHANGED tables
    BY TakeDoes
<1>2. /\ Drawn(q.row)' <=> Drawn(q.row)
      /\ Naming(q)' = Naming(q)
      /\ Used(q.row)' <=> Used(q.row)
      /\ gate' = gate
    BY <1>1, SameTables
<1>3. q.op \in NewOps => ~Drawn(q.row) /\ \A t \in Sessions \ {s} : req[t].row # q.row
    BY DEF SessionOK
<1>4. /\ q.op \in NewOps => ~Drawn(q.row)' /\ \A t \in Sessions \ {s} : req'[t].row # q.row
      /\ q.op \in LockOps /\ step # "lock" => <<{q.row}, LockMode(q.op)>> \in held'[s]
      /\ q.op \in Users /\ step \in {"look", "unlink", "link", "commit"} =>
             \A x \in Naming(q)' : <<{x}, "share">> \in held'[s]
      /\ step = "erase" => ~Used(q.row)'
      /\ q.op = "patch_gate" /\ step = "commit" => read'[s] = gate'[q.row].params
    BY <1>1, <1>2, <1>3
<1>5. req'[s] = q /\ at'[s] = step
    BY <1>1
<1> QED BY <1>4, <1>5 DEF SessionOK

\* What is known of a call under way.
LEMMA Known ==
    ASSUME RuleInv, NEW s \in Sessions, at[s] # "idle", NEW q, q = req[s]
    PROVE  /\ SessionTypes /\ SessionOK(s) /\ q \in Calls /\ RowFits(q) /\ SendsFit(q)
           /\ Where(q.op, at[s])
           /\ q.op \in NewOps => ~Drawn(q.row) /\ \A t \in Sessions \ {s} : req[t].row # q.row
           /\ q.op \in LockOps /\ at[s] # "lock" => <<{q.row}, LockMode(q.op)>> \in held[s]
           /\ q.op \in Users /\ at[s] \in {"look", "unlink", "link", "commit"} =>
                  \A x \in Naming(q) : <<{x}, "share">> \in held[s]
           /\ at[s] = "erase" => ~Used(q.row)
           /\ q.op = "patch_gate" /\ at[s] = "commit" => read[s] = gate[q.row].params
<1>1. SessionTypes /\ SessionOK(s)
    BY TypesParts DEF RuleInv
<1> QED BY <1>1, Asked DEF SessionOK

LEMMA LockKeeps ==
    ASSUME RuleInv, NEW s \in Sessions, Lock(s)
    PROVE  RuleInv'
<1>1. PICK q : q = req[s] OBVIOUS
<1>2. at[s] = "lock" /\ Ready(s)
    BY DEF Lock
<1>3. CASE ~There(q.row)
    BY <1>1, <1>3, RefusedKeeps DEF Lock
<1>4. CASE There(q.row)
    <2> DEFINE step == IF q.op \in DropOps THEN "check"
                       ELSE IF q.op \in {"put_gate", "patch_gate"} THEN "commit" ELSE "share"
    <2>1. /\ Take(s, step) /\ UNCHANGED <<seen, mixed>>
          /\ read' = IF q.op = "patch_gate" THEN [read EXCEPT ![s] = gate[q.row].params] ELSE read
        BY <1>1, <1>4 DEF Lock
    <2>2. SessionTypes /\ SessionOK(s) /\ RowFits(q) /\ q.op \in LockOps
        BY <1>1, <1>2, Known DEF Where
    <2>3. step \in Steps \ {"idle"} /\ Where(q.op, step)
        BY <2>2 DEF Steps, Where, LockOps, DropOps, Users
    <2>4. q.op = "patch_gate" => gate[q.row].params \in [Keys -> Values]
        BY <2>2, TypesParts DEF RuleInv, TableTypes, RowFits, GateOps
    <2>5. /\ read' \in [Sessions -> [Keys -> Values]]
          /\ q.op = "patch_gate" => read'[s] = gate[q.row].params
          /\ \A t \in Sessions : t # s => read'[t] = read[t]
        BY <2>1, <2>2, <2>4 DEF SessionTypes
    <2>6. Wants(s) = {<<{q.row}, LockMode(q.op)>>}
        BY <1>1, <1>2, WantsLaw
    <2>7. ~(q.op \in Users /\ step \in {"look", "unlink", "link", "commit"}) /\ step # "erase"
        BY DEF Users, DropOps
    <2>8. mixed' \subseteq Sessions /\ IsFun(seen')
        BY <2>1, <2>2 DEF SessionTypes, IsFun
    <2> HIDE DEF step
    <2>9. SessionOK(s)'
        BY <1>1, <1>2, <2>1, <2>2, <2>3, <2>5, <2>6, <2>7, TakerOK
    <2> QED BY <1>2, <2>1, <2>3, <2>5, <2>8, <2>9, TakeKeeps
<1> QED BY <1>3, <1>4

\* Steps that only take locks, each where its call goes next.
LEMMA TakeOnlyKeeps ==
    ASSUME RuleInv, NEW s \in Sessions, NEW q, q = req[s],
           at[s] \in {"share", "look", "unlink", "link", "check"},
           NEW step \in Steps \ {"idle", "lock"}, Take(s, step), Ready(s) \/ Wants(s) = {},
           read' = read, mixed' \subseteq Sessions, IsFun(seen'),
           Where(q.op, step), step = "erase" => ~Used(q.row),
           at[s] = "check" => step = "erase", q.op = "patch_gate" => step # "commit"
    PROVE  RuleInv'
<1>1. SessionTypes /\ SessionOK(s) /\ at[s] # "idle"
    BY Known
<1>2. q.op \in LockOps => <<{q.row}, LockMode(q.op)>> \in held[s]
    BY Known
<1>3. q.op \in Users /\ step \in {"look", "unlink", "link", "commit"} =>
          \A x \in Naming(q) : <<{x}, "share">> \in held[s] \cup Wants(s)
    <2>1. at[s] = "share" => \A x \in Naming(q) : <<{x}, "share">> \in Wants(s)
        BY WantsLaw
    <2>2. q.op \in Users /\ at[s] \in {"look", "unlink", "link"} =>
              \A x \in Naming(q) : <<{x}, "share">> \in held[s]
        BY <1>1, Known
    <2> QED BY <2>1, <2>2
<1>4. SessionOK(s)'
    BY <1>1, <1>2, <1>3, TakerOK
<1>5. read' \in [Sessions -> [Keys -> Values]] /\ \A t \in Sessions : t # s => read'[t] = read[t]
    BY <1>1 DEF SessionTypes
<1> QED BY <1>1, <1>4, <1>5, TakeKeeps

LEMMA ShareKeeps ==
    ASSUME RuleInv, NEW s \in Sessions, Share(s)
    PROVE  RuleInv'
<1>1. PICK q : q = req[s] OBVIOUS
<1>2. at[s] = "share" /\ Ready(s) /\ q.op \in Users /\ SessionTypes
    BY <1>1, Known DEF Share, Where
<1>3. CASE \E x \in Naming(q) : ~There(x)
    BY <1>1, <1>3, RefusedKeeps DEF Share
<1>4. CASE ~\E x \in Naming(q) : ~There(x)
    <2> DEFINE step == IF Sends(q, "list") THEN IF q.op = "new_alloc" THEN "link" ELSE "look"
                       ELSE "commit"
    <2>1. Take(s, step) /\ read' = read /\ seen' = seen /\ mixed' = mixed
        BY <1>1, <1>4 DEF Share
    <2>2. /\ step \in Steps \ {"idle", "lock"} /\ step # "erase" /\ Where(q.op, step)
          /\ q.op # "patch_gate"
        BY <1>2 DEF Steps, Where, Users
    <2>3. mixed' \subseteq Sessions /\ IsFun(seen')
        BY <1>2, <2>1 DEF SessionTypes, IsFun
    <2> HIDE DEF step
    <2> QED BY <1>1, <1>2, <2>1, <2>2, <2>3, TakeOnlyKeeps
<1> QED BY <1>3, <1>4

LEMMA LookKeeps ==
    ASSUME RuleInv, NEW s \in Sessions, Look(s)
    PROVE  RuleInv'
<1>1. PICK q : q = req[s] OBVIOUS
<1>2. at[s] = "look" /\ q.op \in Users \cup {"relink"} /\ SessionTypes
    BY <1>1, Known DEF Look, Where
<1>3. Take(s, "unlink") /\ read' = read
    BY DEF Look
<1>4. Wants(s) = {}
    BY <1>2, WantsLaw
<1>5. mixed' \subseteq Sessions
    BY <1>2 DEF Look, SessionTypes
<1>6. PICK x : x = Rows(req[s].row) OBVIOUS
<1>7. IsFun(seen')
    <2>1. seen' = [seen EXCEPT ![s] = x] /\ IsFun(seen)
        BY <1>2, <1>6 DEF Look, SessionTypes
    <2> QED BY <2>1, ExceptFun DEF IsFun
<1>8. "unlink" \in Steps \ {"idle", "lock"} /\ Where(q.op, "unlink") /\ q.op # "patch_gate"
    BY <1>2 DEF Steps, Where, Users
<1> QED BY <1>1, <1>2, <1>3, <1>4, <1>5, <1>7, <1>8, TakeOnlyKeeps

LEMMA UnlinkKeeps ==
    ASSUME RuleInv, NEW s \in Sessions, Unlink(s)
    PROVE  RuleInv'
<1>1. PICK q : q = req[s] OBVIOUS
<1>2. at[s] = "unlink" /\ Ready(s) /\ q.op \in Users \cup {"relink"} /\ SessionTypes
    BY <1>1, Known DEF Unlink, Where
<1>3. Take(s, "link") /\ read' = read /\ seen' = seen /\ mixed' = mixed
    BY DEF Unlink
<1>4. mixed' \subseteq Sessions /\ IsFun(seen')
    BY <1>2, <1>3 DEF SessionTypes, IsFun
<1>5. "link" \in Steps \ {"idle", "lock"} /\ Where(q.op, "link") /\ q.op # "patch_gate"
    BY <1>2 DEF Steps, Where, Users
<1> QED BY <1>1, <1>2, <1>3, <1>4, <1>5, TakeOnlyKeeps

LEMMA LinkKeeps ==
    ASSUME RuleInv, NEW s \in Sessions, Link(s)
    PROVE  RuleInv'
<1>1. PICK q : q = req[s] OBVIOUS
<1>2. at[s] = "link" /\ Ready(s) /\ q.op \in Users \cup {"relink"} /\ SessionTypes
    BY <1>1, Known DEF Link, Where
<1>3. Refused(s) \/ (Take(s, "commit") /\ read' = read /\ seen' = seen /\ mixed' = mixed)
    BY DEF Link
<1>4. CASE Refused(s)
    BY <1>4, RefusedKeeps
<1>5. CASE Take(s, "commit") /\ read' = read /\ seen' = seen /\ mixed' = mixed
    <2>1. mixed' \subseteq Sessions /\ IsFun(seen')
        BY <1>2, <1>5 DEF SessionTypes, IsFun
    <2>2. "commit" \in Steps \ {"idle", "lock"} /\ Where(q.op, "commit") /\ q.op # "patch_gate"
        BY <1>2 DEF Steps, Where, Users
    <2> QED BY <1>1, <1>2, <1>5, <2>1, <2>2, TakeOnlyKeeps
<1> QED BY <1>3, <1>4, <1>5

\* The delete's question covers every use of its row (InUse, Used).
LEMMA UnusedIsUnused ==
    ASSUME TableTypes, Blank, NEW q, RowFits(q), q.op \in DropOps, ~InUse(q)
    PROVE  ~Used(q.row)
<1>1. q.row # None /\ q.row \in Gates \cup Rules \cup Allocs
    BY Names DEF RowFits, DropOps, GateOps, RuleOps, AllocOps
<1>2. active.gate \in Gates \cup {None} /\ active.alloc \in Allocs \cup {None}
    BY DEF TableTypes
<1>3. /\ \A o \in Rules : rule[o].gate \in Gates \cup {None} /\ (rule[o].gate # None => RuleThere(o))
      /\ \A a \in Allocs : alloc[a].gate \in Gates \cup {None} /\ (alloc[a].gate # None => AllocThere(a))
    BY DEF TableTypes, Blank
<1>4. CASE q.op = "drop_gate"
    <2>1. q.row \in Gates /\ q.row \notin Rules /\ q.row \notin Allocs
        BY <1>4, Names DEF RowFits, GateOps
    <2>2. active.gate # q.row /\ active.alloc # q.row /\ q.row \notin traded
        BY <1>1, <1>2, <1>4, <2>1 DEF InUse, TableTypes
    <2>3. RulesOn(q.row) = {} /\ AllocsOn(q.row) = {}
        BY <1>4 DEF InUse, Restricted
    <2>4. \A o \in Rules : rule[o].gate # q.row
        BY <1>1, <1>3, <2>3 DEF RulesOn
    <2>5. \A a \in Allocs : alloc[a].gate # q.row
        BY <1>1, <1>3, <2>3 DEF AllocsOn
    <2> QED BY <2>2, <2>4, <2>5 DEF Used
<1>5. CASE q.op = "drop_rule"
    <2>1. q.row \notin Gates /\ q.row \notin Allocs
        BY <1>5, Names DEF RowFits, RuleOps
    <2>2. q.row \notin traded
        BY <1>5 DEF InUse, Restricted
    <2> QED BY <1>1, <1>2, <1>3, <2>1, <2>2 DEF Used
<1>6. CASE q.op = "drop_alloc"
    <2>1. q.row \notin Gates /\ q.row \notin Rules
        BY <1>6, Names DEF RowFits, AllocOps
    <2>2. q.row # active.alloc /\ q.row \notin traded
        BY <1>6, <2>1 DEF InUse, TableTypes
    <2> QED BY <1>1, <1>2, <1>3, <2>1, <2>2 DEF Used
<1> QED BY <1>4, <1>5, <1>6 DEF DropOps

LEMMA CheckKeeps ==
    ASSUME RuleInv, NEW s \in Sessions, Check(s)
    PROVE  RuleInv'
<1>1. PICK q : q = req[s] OBVIOUS
<1>2. at[s] = "check" /\ q.op \in DropOps /\ RowFits(q) /\ SessionTypes
    BY <1>1, Known DEF Check, Where
<1>3. CASE InUse(q)
    BY <1>1, <1>3, RefusedKeeps DEF Check
<1>4. CASE ~InUse(q)
    <2>1. Take(s, "erase") /\ read' = read /\ seen' = seen /\ mixed' = mixed
        BY <1>1, <1>4 DEF Check
    <2>2. ~Used(q.row)
        BY <1>2, <1>4, UnusedIsUnused, TypesParts DEF RuleInv
    <2>3. mixed' \subseteq Sessions /\ IsFun(seen')
        BY <1>2, <2>1 DEF SessionTypes, IsFun
    <2>4. "erase" \in Steps \ {"idle", "lock"} /\ Where(q.op, "erase")
        BY <1>2 DEF Steps, Where
    <2>5. Wants(s) = {}
        BY <1>2, WantsLaw
    <2> QED BY <1>1, <1>2, <2>1, <2>2, <2>3, <2>4, <2>5, TakeOnlyKeeps
<1> QED BY <1>3, <1>4

LEMMA BeginKeeps ==
    ASSUME RuleInv, NEW s \in Sessions, NEW q \in Calls, Begin(s, q)
    PROVE  RuleInv'
<1>1. SessionTypes /\ \A t \in Sessions : SessionOK(t)
    BY TypesParts DEF RuleInv
<1>2. at[s] = "idle" /\ req[s] = NoReq /\ RowFits(q)
    BY <1>1, Asked, CallFits DEF Begin
<1>3. /\ held' = held /\ read' = read /\ seen' = seen /\ mixed' = mixed /\ listed' = listed
      /\ UNCHANGED tables
    BY DEF Begin
<1>4. /\ at' = [at EXCEPT ![s] = FirstStep(q.op)] /\ req' = [req EXCEPT ![s] = q]
      /\ at \in [Sessions -> Steps] /\ req \in [Sessions -> Calls \cup {NoReq}]
    BY <1>1 DEF Begin, SessionTypes
<1>5. at'[s] = FirstStep(q.op) /\ req'[s] = q
    BY <1>4
<1>6. \A t \in Sessions : t # s => at'[t] = at[t] /\ req'[t] = req[t]
    BY <1>4
<1>7. /\ FirstStep(q.op) \in Steps \ {"idle"} /\ Where(q.op, FirstStep(q.op))
      /\ q.op \in LockOps => FirstStep(q.op) = "lock"
      /\ q.op \in Users => FirstStep(q.op) \in {"share", "lock"}
      /\ FirstStep(q.op) # "erase" /\ (q.op = "patch_gate" => FirstStep(q.op) # "commit")
    BY <1>2 DEF FirstStep, Steps, Where, LockOps, DropOps, Users, RowFits, GateOps, RuleOps, AllocOps
<1>8. Types'
    <2>1. TableTypes'
        <3>1. TableTypes BY TypesParts DEF RuleInv
        <3> QED BY <1>3, <3>1 DEF TableTypes, tables
    <2>2. at' \in [Sessions -> Steps] /\ req' \in [Sessions -> Calls \cup {NoReq}]
        BY <1>4, <1>7
    <2>3. \A t \in Sessions : IF at'[t] = "idle" THEN req'[t] = NoReq /\ held'[t] = {}
                              ELSE req'[t] \in Calls
        BY <1>1, <1>3, <1>5, <1>6, <1>7, Asked
    <2>4. SessionTypes'
        BY <1>1, <1>3, <2>2, <2>3 DEF SessionTypes, IsFun
    <2> QED BY <2>1, <2>4, TypesParts
<1>9. Mutex'
    BY <1>3 DEF RuleInv, Mutex
<1>10. Blank' /\ WatchlistHasSymbols'
    BY <1>3 DEF RuleInv, Blank, WatchlistHasSymbols, RuleThere, AllocThere, tables
<1>11. IF q.op \in NewOps THEN ~Drawn(q.row) /\ \A t \in Sessions : req[t].row # q.row
       ELSE Drawn(q.row)
    BY DEF Begin, NewOps
<1>12. SessionOK(s)'
    <2>1. q.op \in NewOps => ~Drawn(q.row)' /\ \A t \in Sessions \ {s} : req'[t].row # q.row
        BY <1>3, <1>6, <1>11, SameTables
    <2> QED BY <1>5, <1>7, <2>1 DEF SessionOK
<1>13. ASSUME NEW t \in Sessions, t # s PROVE SessionOK(t)'
    <2>1. PICK r : r = req[t] OBVIOUS
    <2>2. ASSUME at[t] # "idle", r.op \in NewOps, NEW u \in Sessions, u # t
          PROVE  req'[u].row # r.row
        <3>1. ~Drawn(r.row) /\ \A v \in Sessions \ {t} : req[v].row # r.row
            BY <1>1, <2>1, <2>2, Known
        <3>2. CASE u = s
            <4>1. q.row # r.row
                <5>1. q.op \in NewOps => r.row # q.row BY <1>11, <2>1
                <5>2. q.op \notin NewOps => r.row # q.row BY <1>11, <3>1
                <5> QED BY <5>1, <5>2
            <4> QED BY <1>5, <3>2, <4>1
        <3>3. CASE u # s
            BY <1>6, <2>2, <3>1, <3>3
        <3> QED BY <3>2, <3>3
    <2>3. Stays(r, at[t])
        BY <1>3, SameTables
    <2>4. r = req'[t] /\ SessionOK(t) /\ at'[t] = at[t] /\ held'[t] = held[t] /\ read'[t] = read[t]
        BY <1>1, <1>3, <1>6, <1>13, <2>1
    <2> QED BY <2>1, <2>2, <2>3, <2>4, OtherOK
<1> QED BY <1>8, <1>9, <1>10, <1>12, <1>13 DEF RuleInv

-----------------------------------------------------------------------------
(* What two calls under way cannot both be doing.                          *)

\* A call's row is its own: it has locked it for writing, or drawn its id.
LEMMA RowsApart ==
    ASSUME RuleInv, NEW s \in Sessions, NEW t \in Sessions, s # t,
           at[s] \notin {"idle", "lock"}, at[t] \notin {"idle", "lock"},
           NEW q, q = req[s], NEW r, r = req[t],
           q.op \in LockOps \cup NewOps, r.op \in LockOps \cup NewOps
    PROVE  q.row # r.row
<1>1. CASE q.op \in NewOps \/ r.op \in NewOps
    <2>1. q.op \in NewOps => \A u \in Sessions \ {s} : req[u].row # q.row
        BY Known, ZenonT(30)
    <2>2. r.op \in NewOps => \A u \in Sessions \ {t} : req[u].row # r.row
        BY Known
    <2> QED BY <1>1, <2>1, <2>2
<1>2. CASE q.op \in LockOps /\ r.op \in LockOps
    <2>1. <<{q.row}, LockMode(q.op)>> \in held[s] /\ <<{r.row}, LockMode(r.op)>> \in held[t]
        BY <1>2, Known
    <2>2. LockMode(q.op) \in {"update", "write"} /\ LockMode(r.op) \in {"update", "write"}
        BY DEF LockMode
    <2>3. SUFFICES ASSUME q.row = r.row PROVE FALSE
        OBVIOUS
    <2>4. <<{q.row}, LockMode(r.op)>> \in held[t]
        BY <2>1, <2>3
    <2>5. Mutex
        BY DEF RuleInv
    <2> QED BY <2>1, <2>2, <2>4, <2>5, ApartOn
<1> QED BY <1>1, <1>2

\* What a call is about to name is not being deleted.
LEMMA NamedStays ==
    ASSUME RuleInv, NEW s \in Sessions, NEW t \in Sessions, s # t,
           at[s] = "commit", at[t] = "erase", NEW q, q = req[s], NEW r, r = req[t],
           q.op \in Users, NEW x \in Naming(q)
    PROVE  x # r.row
<1>1. <<{x}, "share">> \in held[s]
    BY Known
<1>2. r.op \in DropOps
    BY Known DEF Where
<1>3. <<{r.row}, "update">> \in held[t]
    <2>1. r.op \in LockOps /\ LockMode(r.op) = "update"
        BY <1>2 DEF LockOps, LockMode
    <2> QED BY <2>1, Known
<1>4. Mutex
    BY DEF RuleInv
<1>5. SUFFICES ASSUME x = r.row PROVE FALSE
    OBVIOUS
<1>6. <<{x}, "update">> \in held[t]
    BY <1>3, <1>5
<1> QED BY <1>1, <1>4, <1>6, ApartOn

\* An id nobody has drawn is not drawn by a step that changes another row.
LEMMA NewStays ==
    ASSUME NEW r, RowFits(r), r.op \in NewOps, NEW x, r.row # x,
           \A g \in Gates : g # x => gate'[g].is = gate[g].is,
           \A o \in Rules : o # x => rule'[o].is = rule[o].is,
           \A a \in Allocs : a # x => alloc'[a].is = alloc[a].is
    PROVE  Drawn(r.row)' => Drawn(r.row)
<1>1. r.row \in Gates \cup Rules \cup Allocs
    BY DEF RowFits, NewOps, GateOps, RuleOps, AllocOps
<1> QED BY <1>1, TablesLaw DEF Tables

LEMMA CommitGateKeeps ==
    ASSUME RuleInv, NEW s \in Sessions, CommitGate(s)
    PROVE  RuleInv'
<1>1. PICK q : q = req[s] OBVIOUS
<1>2. /\ at[s] = "commit" /\ q.op \in {"new_gate", "put_gate", "patch_gate"} /\ Over(s, {})
      /\ rule' = rule /\ alloc' = alloc /\ member' = member /\ active' = active
      /\ traded' = traded /\ listed' = listed
    BY <1>1 DEF CommitGate
<1>3. PICK p : p = CASE q.op = "new_gate" -> Fresh
                     [] q.op = "put_gate" -> q.params
                     [] q.op = "patch_gate" -> Patched(q, read[s])
    OBVIOUS
<1>4. gate' = [gate EXCEPT ![q.row] = [is |-> "there", params |-> p]]
    BY <1>1, <1>3 DEF CommitGate
<1>5. SessionTypes /\ TableTypes /\ RowFits(q) /\ SendsFit(q)
    BY <1>1, <1>2, Known, TypesParts DEF RuleInv
<1>6. q.row \in Gates
    BY <1>2, <1>5 DEF RowFits, GateOps
<1>7. p \in [Keys -> Values]
    <2>1. CASE q.op = "new_gate"
        BY <1>3, <2>1, FreshType
    <2>2. CASE q.op = "put_gate"
        BY <1>3, <1>5, <2>2 DEF SendsFit
    <2>3. CASE q.op = "patch_gate"
        <3>1. read[s] \in [Keys -> Values]
            BY <1>5 DEF SessionTypes
        <3>2. q.key \in Keys /\ q.value \in Values
            BY <1>5, <2>3 DEF SendsFit
        <3>3. Patched(q, read[s]) \in [Keys -> Values]
            BY <3>1, <3>2 DEF Patched
        <3> QED BY <1>3, <2>3, <3>3
    <2> QED BY <1>2, <2>1, <2>2, <2>3
<1>8. gate' \in [Gates -> [is : Life, params : [Keys -> Values]]]
    <2>1. [is |-> "there", params |-> p] \in [is : Life, params : [Keys -> Values]]
        BY <1>7 DEF Life
    <2> QED BY <1>4, <1>5, <2>1 DEF TableTypes
<1>9. \A g \in Gates : g # q.row => gate'[g] = gate[g]
    BY <1>4, <1>5 DEF TableTypes
<1>10. TableTypes'
    BY <1>2, <1>5, <1>8 DEF TableTypes
<1>11. Blank' /\ WatchlistHasSymbols'
    BY <1>2 DEF RuleInv, Blank, WatchlistHasSymbols, RuleThere, AllocThere
<1>12. ASSUME NEW t \in Sessions, NEW r \in Calls, t # s, at[t] # "idle", r = req[t]
       PROVE  Stays(r, at[t])
    <2>1. RowFits(r)
        BY CallFits
    <2>2. r.op \in NewOps => (Drawn(r.row)' => Drawn(r.row))
        <3>1. r.op \in NewOps => q.row # r.row
            BY <1>1, <1>12, Known, ZenonT(30)
        <3> QED BY <1>2, <1>9, <2>1, <3>1, NewStays
    <2>3. Naming(r)' = Naming(r)
        BY <1>2 DEF Naming
    <2>4. Used(r.row)' <=> Used(r.row)
        BY <1>2 DEF Used
    <2>5. r.op = "patch_gate" /\ at[t] = "commit" => gate'[r.row].params = gate[r.row].params
        <3>1. r.op = "patch_gate" /\ at[t] = "commit" => q.row # r.row
            BY <1>1, <1>2, <1>12, RowsApart DEF LockOps, NewOps
        <3> QED BY <1>9, <2>1, <3>1 DEF RowFits, GateOps
    <2> QED BY <2>2, <2>3, <2>4, <2>5 DEF Stays
<1> QED BY <1>2, <1>10, <1>11, <1>12, OverKeeps

\* A row that keeps its name, or is another's, names what it named.
LEMMA NamingStays ==
    ASSUME NEW r, r.op \in Users, RowFits(r), NEW x, r.row # x,
           \A o \in Rules : o # x => rule'[o].gate = rule[o].gate,
           \A a \in Allocs : a # x => alloc'[a].gate = alloc[a].gate,
           r.op = "activate" => active' = active
    PROVE  Naming(r)' = Naming(r)
<1>1. NamingIs(r) /\ NamingIs(r)'
    BY NamingLaw
<1>2. CASE r.op = "trade"
    BY <1>1, <1>2 DEF NamingIs
<1>3. CASE r.op \in {"new_rule", "edit_rule"}
    <2>1. rule'[r.row].gate = rule[r.row].gate
        BY <1>3 DEF RowFits, RuleOps
    <2> QED BY <1>1, <1>3, <2>1 DEF NamingIs, Sends
<1>4. CASE r.op \in {"new_alloc", "edit_alloc"}
    <2>1. alloc'[r.row].gate = alloc[r.row].gate
        BY <1>4 DEF RowFits, AllocOps
    <2> QED BY <1>1, <1>4, <2>1 DEF NamingIs, Sends
<1>5. CASE r.op = "activate"
    BY <1>1, <1>5 DEF NamingIs, Sends
<1> QED BY <1>2, <1>3, <1>4, <1>5 DEF Users

LEMMA CommitRuleKeeps ==
    ASSUME RuleInv, NEW s \in Sessions, CommitRule(s)
    PROVE  RuleInv'
<1>1. PICK q : q = req[s] OBVIOUS
<1>2. /\ at[s] = "commit" /\ q.op \in {"new_rule", "edit_rule"} /\ Over(s, {})
      /\ gate' = gate /\ alloc' = alloc /\ member' = member /\ active' = active
      /\ traded' = traded /\ listed' = listed
    BY <1>1 DEF CommitRule
<1>3. SessionTypes /\ TableTypes /\ RowFits(q) /\ SendsFit(q)
    BY <1>1, <1>2, Known, TypesParts DEF RuleInv
<1>4. q.row \in Rules
    BY <1>2, <1>3 DEF RowFits, RuleOps
<1>5. PICK m : m = Merged(q, rule[q.row]) OBVIOUS
<1>6. rule' = rule \/ ((m.watch => m.symbols) /\ rule' = [rule EXCEPT ![q.row] = m])
    <2>1. [rule EXCEPT ![q.row] = Merged(q, @)] = [rule EXCEPT ![q.row] = m]
        BY <1>5
    <2> QED BY <1>1, <1>5, <2>1 DEF CommitRule, ScopeOK
<1>7. /\ m \in [is : Life, gate : Gates \cup {None}, watch : BOOLEAN, symbols : BOOLEAN]
      /\ m.is = "there" /\ m.gate = IF Sends(q, "gate") THEN q.gate ELSE rule[q.row].gate
    <2>1. rule[q.row] \in [is : Life, gate : Gates \cup {None}, watch : BOOLEAN, symbols : BOOLEAN]
        BY <1>3, <1>4 DEF TableTypes
    <2>2. (IF Sends(q, "gate") THEN q.gate ELSE rule[q.row].gate) \in Gates \cup {None}
        BY <1>3, <2>1 DEF SendsFit
    <2>3. (IF Sends(q, "watch") THEN q.watch ELSE rule[q.row].watch) \in BOOLEAN
        BY <1>3, <2>1 DEF SendsFit
    <2>4. (IF Sends(q, "symbols") THEN q.symbols ELSE rule[q.row].symbols) \in BOOLEAN
        BY <1>3, <2>1 DEF SendsFit
    <2> QED BY <1>5, <2>2, <2>3, <2>4 DEF Merged, Life
<1>8. rule' \in [Rules -> [is : Life, gate : Gates \cup {None}, watch : BOOLEAN, symbols : BOOLEAN]]
    BY <1>3, <1>6, <1>7 DEF TableTypes
<1>9. \A o \in Rules : o # q.row => rule'[o] = rule[o]
    BY <1>3, <1>6 DEF TableTypes
<1>10. rule'[q.row] \in {m, rule[q.row]} /\ (rule' # rule => rule'[q.row] = m /\ (m.watch => m.symbols))
    BY <1>3, <1>4, <1>6 DEF TableTypes
<1>11. TableTypes'
    BY <1>2, <1>3, <1>8 DEF TableTypes
<1>12. Blank' /\ WatchlistHasSymbols'
    <2>1. Blank'
        <3>1. \A o \in Rules : rule'[o].is # "there" => rule'[o].gate = None
            BY <1>7, <1>9, <1>10 DEF RuleInv, Blank, RuleThere
        <3> QED BY <1>2, <3>1 DEF RuleInv, Blank, RuleThere, AllocThere
    <2>2. WatchlistHasSymbols'
        <3>1. \A o \in Rules : rule'[o].is = "there" /\ rule'[o].watch => rule'[o].symbols
            BY <1>7, <1>9, <1>10 DEF RuleInv, WatchlistHasSymbols, RuleThere
        <3> QED BY <3>1 DEF WatchlistHasSymbols, RuleThere
    <2> QED BY <2>1, <2>2
<1>13. ASSUME NEW t \in Sessions, NEW r \in Calls, t # s, at[t] # "idle", r = req[t]
       PROVE  Stays(r, at[t])
    <2>1. RowFits(r)
        BY CallFits
    <2>2. r.op \in NewOps => (Drawn(r.row)' => Drawn(r.row))
        <3>1. r.op \in NewOps => q.row # r.row
            BY <1>1, <1>13, Known, ZenonT(30)
        <3> QED BY <1>2, <1>9, <2>1, <3>1, NewStays
    <2>3. r.op \in Users /\ at[t] \in {"look", "unlink", "link", "commit"} => Naming(r)' \subseteq Naming(r)
        <3>1. ASSUME r.op \in Users, at[t] \in {"look", "unlink", "link", "commit"}
              PROVE  Naming(r)' \subseteq Naming(r)
            <4>1. CASE r.op = "trade"
                BY <4>1, NamingLaw DEF NamingIs
            <4>2. CASE r.op # "trade"
                <5>1. q.row # r.row
                    BY <1>1, <1>2, <1>13, <3>1, <4>2, RowsApart DEF LockOps, NewOps, Users
                <5> QED BY <1>2, <1>9, <2>1, <3>1, <5>1, NamingStays
            <4> QED BY <4>1, <4>2
        <3> QED BY <3>1
    <2>4. at[t] = "erase" => (Used(r.row)' => Used(r.row))
        <3>1. ASSUME at[t] = "erase", Used(r.row)' PROVE Used(r.row)
            <4>1. r.row # None
                BY <2>1, Names, <1>13, <3>1, Known DEF RowFits, GateOps, RuleOps, AllocOps, Where, DropOps
            <4>2. CASE m.gate = r.row
                <5>1. CASE Sends(q, "gate") /\ q.gate # rule[q.row].gate
                    <6>1. r.row \in Naming(q)
                        BY <1>2, <1>7, <4>1, <4>2, <5>1, NamingLaw DEF NamingIs
                    <6> QED BY <1>1, <1>2, <1>13, <3>1, <6>1, NamedStays DEF Users
                <5>2. CASE ~(Sends(q, "gate") /\ q.gate # rule[q.row].gate)
                    BY <1>4, <1>7, <4>2, <5>2 DEF Used
                <5> QED BY <5>1, <5>2
            <4>3. CASE m.gate # r.row
                <5>1. \A o \in Rules : rule'[o].gate = r.row => rule[o].gate = r.row
                    BY <1>9, <1>10, <4>3
                <5> QED BY <1>2, <3>1, <5>1 DEF Used
            <4> QED BY <4>2, <4>3
        <3> QED BY <3>1
    <2> QED BY <1>2, <2>2, <2>3, <2>4 DEF Stays
<1> QED BY <1>2, <1>11, <1>12, <1>13, OverKeeps

LEMMA CommitAllocKeeps ==
    ASSUME RuleInv, NEW s \in Sessions, CommitAlloc(s)
    PROVE  RuleInv'
<1>1. PICK q : q = req[s] OBVIOUS
<1>2. /\ at[s] = "commit" /\ q.op \in ListOps /\ Over(s, seen[s])
      /\ gate' = gate /\ rule' = rule /\ active' = active /\ traded' = traded
    BY <1>1 DEF CommitAlloc
<1>3. SessionTypes /\ TableTypes /\ RowFits(q) /\ SendsFit(q)
    BY <1>1, <1>2, Known, TypesParts DEF RuleInv
<1>4. q.row \in Allocs
    BY <1>2, <1>3 DEF RowFits, AllocOps, ListOps
<1>5. PICK m : m = [is |-> "there",
                    gate |-> IF Sends(q, "gate") THEN q.gate ELSE alloc[q.row].gate]
    OBVIOUS
<1>6. \/ alloc' = alloc
      \/ q.op \in {"new_alloc", "edit_alloc"} /\ alloc' = [alloc EXCEPT ![q.row] = m]
    <2>1. [alloc EXCEPT ![q.row] = [is |-> "there",
                                    gate |-> IF Sends(q, "gate") THEN q.gate ELSE @.gate]]
              = [alloc EXCEPT ![q.row] = m]
        BY <1>5
    <2> QED BY <1>1, <1>2, <2>1 DEF CommitAlloc, ListOps
<1>7. /\ m \in [is : Life, gate : Gates \cup {None}] /\ m.is = "there"
      /\ m.gate = IF Sends(q, "gate") THEN q.gate ELSE alloc[q.row].gate
    <2>1. (IF Sends(q, "gate") THEN q.gate ELSE alloc[q.row].gate) \in Gates \cup {None}
        BY <1>3, <1>4 DEF SendsFit, TableTypes
    <2> QED BY <1>5, <2>1 DEF Life
<1>8. alloc' \in [Allocs -> [is : Life, gate : Gates \cup {None}]]
    BY <1>3, <1>6, <1>7 DEF TableTypes
<1>9. \A a \in Allocs : a # q.row => alloc'[a] = alloc[a]
    BY <1>3, <1>6 DEF TableTypes
<1>10. alloc'[q.row] \in {m, alloc[q.row]}
    BY <1>3, <1>4, <1>6 DEF TableTypes
<1>11. /\ \A x \in member' : \E a \in Allocs, o \in Rules : x = {a, o}
       /\ listed' \in [Allocs -> (SUBSET Rules) \cup {None}]
    <2>1. CASE ~Sends(q, "list")
        BY <1>1, <1>3, <2>1 DEF CommitAlloc, TableTypes
    <2>2. CASE Sends(q, "list")
        <3>1. q.list \subseteq Rules
            BY <1>3, <2>2 DEF SendsFit
        <3>2. /\ member' = (member \ seen[s]) \cup Pairs(q.row, q.list)
              /\ listed' = [listed EXCEPT ![q.row] = IF s \in mixed THEN None ELSE q.list]
            BY <1>1, <2>2 DEF CommitAlloc
        <3>3. \A x \in Pairs(q.row, q.list) : \E o \in Rules : x = {q.row, o}
            BY <3>1 DEF Pairs
        <3>4. \A x \in member' : \E a \in Allocs, o \in Rules : x = {a, o}
            BY <1>3, <1>4, <3>2, <3>3 DEF TableTypes
        <3>5. listed' \in [Allocs -> (SUBSET Rules) \cup {None}]
            <4>1. PICK v : v = IF s \in mixed THEN None ELSE q.list
                OBVIOUS
            <4>2. v \in (SUBSET Rules) \cup {None}
                BY <3>1, <4>1
            <4>3. listed \in [Allocs -> (SUBSET Rules) \cup {None}]
                BY <1>3 DEF TableTypes
            <4> QED BY <3>2, <4>1, <4>2, <4>3
        <3> QED BY <3>4, <3>5
    <2> QED BY <2>1, <2>2
<1>12. TableTypes'
    BY <1>2, <1>3, <1>8, <1>11 DEF TableTypes
<1>13. Blank' /\ WatchlistHasSymbols'
    <2>1. \A a \in Allocs : alloc'[a].is # "there" => alloc'[a].gate = None
        BY <1>7, <1>9, <1>10 DEF RuleInv, Blank, AllocThere
    <2> QED BY <1>2, <2>1 DEF RuleInv, Blank, WatchlistHasSymbols, RuleThere, AllocThere
<1>14. ASSUME NEW t \in Sessions, NEW r \in Calls, t # s, at[t] # "idle", r = req[t]
       PROVE  Stays(r, at[t])
    <2>1. RowFits(r)
        BY CallFits
    <2>2. r.op \in NewOps => (Drawn(r.row)' => Drawn(r.row))
        <3>1. r.op \in NewOps => q.row # r.row
            BY <1>1, <1>14, Known, ZenonT(30)
        <3> QED BY <1>2, <1>9, <2>1, <3>1, NewStays
    <2>3. r.op \in Users /\ at[t] \in {"look", "unlink", "link", "commit"} => Naming(r)' \subseteq Naming(r)
        <3>1. ASSUME r.op \in Users, at[t] \in {"look", "unlink", "link", "commit"}
              PROVE  Naming(r)' \subseteq Naming(r)
            <4>1. CASE r.op = "trade"
                BY <4>1, NamingLaw DEF NamingIs
            <4>2. CASE alloc' = alloc
                BY <1>2, <4>2 DEF Naming
            <4>3. CASE r.op # "trade" /\ alloc' # alloc
                <5>1. q.row # r.row
                    BY <1>1, <1>2, <1>6, <1>14, <3>1, <4>3, RowsApart DEF LockOps, NewOps, Users
                <5> QED BY <1>2, <1>9, <2>1, <3>1, <5>1, NamingStays
            <4> QED BY <4>1, <4>2, <4>3
        <3> QED BY <3>1
    <2>4. at[t] = "erase" => (Used(r.row)' => Used(r.row))
        <3>1. ASSUME at[t] = "erase", Used(r.row)' PROVE Used(r.row)
            <4>1. r.row # None
                BY <2>1, Names, <1>14, <3>1, Known DEF RowFits, GateOps, RuleOps, AllocOps, Where, DropOps
            <4>2. CASE alloc' # alloc /\ m.gate = r.row
                <5>1. CASE Sends(q, "gate") /\ q.gate # alloc[q.row].gate
                    <6>1. r.row \in Naming(q) /\ q.op \in Users
                        BY <1>6, <1>7, <4>1, <4>2, <5>1, NamingLaw DEF NamingIs, Users
                    <6> QED BY <1>1, <1>2, <1>14, <3>1, <6>1, NamedStays
                <5>2. CASE ~(Sends(q, "gate") /\ q.gate # alloc[q.row].gate)
                    BY <1>4, <1>7, <4>2, <5>2 DEF Used
                <5> QED BY <5>1, <5>2
            <4>3. CASE alloc' = alloc \/ m.gate # r.row
                <5>1. \A a \in Allocs : alloc'[a].gate = r.row => alloc[a].gate = r.row
                    BY <1>9, <1>10, <4>3
                <5> QED BY <1>2, <3>1, <5>1 DEF Used
            <4> QED BY <4>2, <4>3
        <3> QED BY <3>1
    <2> QED BY <1>2, <2>2, <2>3, <2>4 DEF Stays
<1> QED BY <1>2, <1>12, <1>13, <1>14, OverKeeps

LEMMA CommitActiveKeeps ==
    ASSUME RuleInv, NEW s \in Sessions, CommitActive(s)
    PROVE  RuleInv'
<1>1. PICK q : q = req[s] OBVIOUS
<1>2. /\ at[s] = "commit" /\ q.op = "activate" /\ Over(s, {})
      /\ gate' = gate /\ rule' = rule /\ alloc' = alloc /\ member' = member
      /\ traded' = traded /\ listed' = listed
    BY <1>1 DEF CommitActive
<1>3. active' = [gate |-> IF Sends(q, "gate") THEN q.gate ELSE active.gate,
                 alloc |-> IF Sends(q, "alloc") THEN q.alloc ELSE active.alloc]
    BY <1>1 DEF CommitActive
<1>4. SessionTypes /\ TableTypes /\ RowFits(q) /\ SendsFit(q)
    BY <1>1, <1>2, Known, TypesParts DEF RuleInv
<1>5. TableTypes'
    <2>1. /\ (IF Sends(q, "gate") THEN q.gate ELSE active.gate) \in Gates \cup {None}
          /\ (IF Sends(q, "alloc") THEN q.alloc ELSE active.alloc) \in Allocs \cup {None}
        BY <1>4 DEF SendsFit, TableTypes
    <2>2. active' \in [gate : Gates \cup {None}, alloc : Allocs \cup {None}]
        BY <1>3, <2>1
    <2> QED BY <1>2, <1>4, <2>2 DEF TableTypes
<1>6. Blank' /\ WatchlistHasSymbols'
    BY <1>2 DEF RuleInv, Blank, WatchlistHasSymbols, RuleThere, AllocThere
<1>7. ASSUME NEW t \in Sessions, NEW r \in Calls, t # s, at[t] # "idle", r = req[t]
      PROVE  Stays(r, at[t])
    <2>1. RowFits(r)
        BY CallFits
    <2>2. r.op \in NewOps => (Drawn(r.row)' => Drawn(r.row))
        BY <1>2 DEF Drawn
    <2>3. r.op \in Users /\ at[t] \in {"look", "unlink", "link", "commit"} => Naming(r)' \subseteq Naming(r)
        <3>1. ASSUME r.op \in Users, at[t] \in {"look", "unlink", "link", "commit"}
              PROVE  Naming(r)' \subseteq Naming(r)
            <4>1. CASE r.op = "activate"
                <5>1. q.row = r.row
                    BY <1>2, <1>4, <2>1, <4>1 DEF RowFits
                <5> QED BY <1>1, <1>2, <1>7, <3>1, <4>1, <5>1, RowsApart DEF LockOps
            <4>2. CASE r.op # "activate"
                <5>1. NamingIs(r) /\ NamingIs(r)'
                    BY NamingLaw
                <5>2. r.op \in {"trade", "new_rule", "edit_rule", "new_alloc", "edit_alloc"}
                    BY <3>1, <4>2 DEF Users
                <5> QED BY <1>2, <5>1, <5>2 DEF NamingIs, Sends
            <4> QED BY <4>1, <4>2
        <3> QED BY <3>1
    <2>4. at[t] = "erase" => (Used(r.row)' => Used(r.row))
        <3>1. ASSUME at[t] = "erase", Used(r.row)' PROVE Used(r.row)
            <4>1. r.row # None
                BY <2>1, Names, <1>7, <3>1, Known DEF RowFits, GateOps, RuleOps, AllocOps, Where, DropOps
            <4>2. r.row \notin Naming(q)
                BY <1>1, <1>2, <1>7, <3>1, NamedStays DEF Users
            <4>3. active'.gate = r.row => active.gate = r.row
                BY <1>2, <1>3, <4>1, <4>2, NamingLaw DEF NamingIs
            <4>4. active'.alloc = r.row => active.alloc = r.row
                BY <1>2, <1>3, <4>1, <4>2, NamingLaw DEF NamingIs
            <4> QED BY <1>2, <3>1, <4>3, <4>4 DEF Used
        <3> QED BY <3>1
    <2> QED BY <1>2, <2>2, <2>3, <2>4 DEF Stays
<1> QED BY <1>2, <1>5, <1>6, <1>7, OverKeeps

LEMMA CommitTradeKeeps ==
    ASSUME RuleInv, NEW s \in Sessions, CommitTrade(s)
    PROVE  RuleInv'
<1>1. PICK q : q = req[s] OBVIOUS
<1>2. /\ at[s] = "commit" /\ q.op = "trade" /\ traded' = traded \cup {q.row} /\ Over(s, {})
      /\ gate' = gate /\ rule' = rule /\ alloc' = alloc /\ member' = member /\ active' = active
      /\ listed' = listed
    BY <1>1 DEF CommitTrade
<1>3. TableTypes /\ RowFits(q)
    BY <1>1, <1>2, Known, TypesParts DEF RuleInv
<1>4. TableTypes'
    BY <1>2, <1>3 DEF TableTypes, RowFits, RuleOps
<1>5. Blank' /\ WatchlistHasSymbols'
    BY <1>2 DEF RuleInv, Blank, WatchlistHasSymbols, RuleThere, AllocThere
<1>6. ASSUME NEW t \in Sessions, NEW r \in Calls, t # s, at[t] # "idle", r = req[t]
      PROVE  Stays(r, at[t])
    <2>1. Drawn(r.row)' => Drawn(r.row)
        BY <1>2 DEF Drawn
    <2>2. Naming(r)' = Naming(r)
        BY <1>2 DEF Naming
    <2>3. at[t] = "erase" => (Used(r.row)' => Used(r.row))
        <3>1. at[t] = "erase" => q.row # r.row
            <4>1. q.row \in Naming(q)
                BY <1>2, NamingLaw DEF NamingIs
            <4> QED BY <1>1, <1>2, <1>6, <4>1, NamedStays DEF Users
        <3> QED BY <1>2, <3>1 DEF Used
    <2> QED BY <1>2, <2>1, <2>2, <2>3 DEF Stays
<1> QED BY <1>2, <1>4, <1>5, <1>6, OverKeeps

LEMMA EraseKeeps ==
    ASSUME RuleInv, NEW s \in Sessions, Erase(s)
    PROVE  RuleInv'
<1>1. PICK q : q = req[s] OBVIOUS
<1>2. at[s] = "erase" /\ SessionTypes /\ TableTypes /\ RowFits(q) /\ q.op \in DropOps /\ ~Used(q.row)
    BY <1>1, Known, TypesParts DEF Erase, RuleInv, Where
<1>3. CASE Restricted(q)
    BY <1>1, <1>3, RefusedKeeps DEF Erase
<1>4. CASE ~Restricted(q)
    <2> DEFINE Dead(f, blank) ==
            IF q.row \in DOMAIN f THEN [f EXCEPT ![q.row] = [blank EXCEPT !.is = "gone"]] ELSE f
    <2>1. /\ gate' = Dead(gate, NoGate) /\ rule' = Dead(rule, NoRule) /\ alloc' = Dead(alloc, NoAlloc)
          /\ member' = member \ Cascade(q) /\ Over(s, Cascade(q))
          /\ active' = [c \in DOMAIN active |-> IF active[c] = q.row THEN None ELSE active[c]]
          /\ traded' = traded /\ listed' = listed
        BY <1>1, <1>4 DEF Erase
    <2>2. active' = active
        <3>1. active.gate # q.row /\ active.alloc # q.row
            BY <1>2 DEF Used
        <3>2. active \in [gate : Gates \cup {None}, alloc : Allocs \cup {None}]
            BY <1>2 DEF TableTypes
        <3> QED BY <2>1, <3>1, <3>2
    <2>3. /\ gate' \in [Gates -> [is : Life, params : [Keys -> Values]]]
          /\ \A g \in Gates : g # q.row => gate'[g] = gate[g]
        <3>1. [NoGate EXCEPT !.is = "gone"] \in [is : Life, params : [Keys -> Values]]
            BY FreshType DEF NoGate, Life
        <3> QED BY <1>2, <2>1, <3>1 DEF TableTypes
    <2>4. PICK o1 : o1 = [NoRule EXCEPT !.is = "gone"]
        OBVIOUS
    <2>5. PICK a1 : a1 = [NoAlloc EXCEPT !.is = "gone"]
        OBVIOUS
    <2>6. /\ rule' \in [Rules -> [is : Life, gate : Gates \cup {None}, watch : BOOLEAN, symbols : BOOLEAN]]
          /\ \A o \in Rules : o # q.row => rule'[o] = rule[o]
          /\ rule' # rule => q.row \in Rules /\ rule'[q.row] = o1 /\ o1.gate = None /\ o1.watch = FALSE
        <3>1. /\ o1 \in [is : Life, gate : Gates \cup {None}, watch : BOOLEAN, symbols : BOOLEAN]
              /\ o1.gate = None /\ o1.watch = FALSE
            BY <2>4 DEF NoRule, Life
        <3>2. rule' = rule \/ (q.row \in DOMAIN rule /\ rule' = [rule EXCEPT ![q.row] = o1])
            BY <2>1, <2>4
        <3>3. rule \in [Rules -> [is : Life, gate : Gates \cup {None}, watch : BOOLEAN, symbols : BOOLEAN]]
            BY <1>2 DEF TableTypes
        <3> QED BY <3>1, <3>2, <3>3
    <2>7. /\ alloc' \in [Allocs -> [is : Life, gate : Gates \cup {None}]]
          /\ \A a \in Allocs : a # q.row => alloc'[a] = alloc[a]
          /\ alloc' # alloc => q.row \in Allocs /\ alloc'[q.row] = a1 /\ a1.gate = None
        <3>1. a1 \in [is : Life, gate : Gates \cup {None}] /\ a1.gate = None
            BY <2>5 DEF NoAlloc, Life
        <3>2. alloc' = alloc \/ (q.row \in DOMAIN alloc /\ alloc' = [alloc EXCEPT ![q.row] = a1])
            BY <2>1, <2>5
        <3>3. alloc \in [Allocs -> [is : Life, gate : Gates \cup {None}]]
            BY <1>2 DEF TableTypes
        <3> QED BY <3>1, <3>2, <3>3
    <2>8. TableTypes'
        BY <1>2, <2>1, <2>2, <2>3, <2>6, <2>7 DEF TableTypes
    <2>9. Blank'
        <3>1. \A o \in Rules : rule'[o].is # "there" => rule'[o].gate = None
            BY <2>6 DEF RuleInv, Blank, RuleThere
        <3>2. \A a \in Allocs : alloc'[a].is # "there" => alloc'[a].gate = None
            BY <2>7 DEF RuleInv, Blank, AllocThere
        <3> QED BY <3>1, <3>2 DEF Blank, RuleThere, AllocThere
    <2>10. WatchlistHasSymbols'
        <3>1. \A o \in Rules : rule'[o].is = "there" /\ rule'[o].watch => rule'[o].symbols
            BY <2>6 DEF RuleInv, WatchlistHasSymbols, RuleThere
        <3> QED BY <3>1 DEF WatchlistHasSymbols, RuleThere
    <2>11. \A o \in Rules : o # q.row => rule'[o] = rule[o]
        BY <2>6
    <2>12. \A a \in Allocs : a # q.row => alloc'[a] = alloc[a]
        BY <2>7
    <2>13. ASSUME NEW t \in Sessions, NEW r \in Calls, t # s, at[t] # "idle", r = req[t]
           PROVE  Stays(r, at[t])
        <3>1. RowFits(r)
            BY CallFits
        <3>2. r.op \in NewOps => (Drawn(r.row)' => Drawn(r.row))
            <4>1. r.op \in NewOps => q.row # r.row
                BY <1>1, <2>13, Known, ZenonT(30)
            <4> QED BY <2>3, <2>11, <2>12, <3>1, <4>1, NewStays
        <3>3. r.op \in LockOps \cup NewOps /\ at[t] # "lock" => q.row # r.row
            BY <1>1, <1>2, <2>13, RowsApart DEF LockOps
        <3>4. r.op \in Users /\ at[t] \in {"look", "unlink", "link", "commit"} => Naming(r)' \subseteq Naming(r)
            <4>1. ASSUME r.op \in Users, at[t] \in {"look", "unlink", "link", "commit"}
                  PROVE  Naming(r)' \subseteq Naming(r)
                <5>1. CASE r.op = "trade"
                    BY <5>1, NamingLaw DEF NamingIs
                <5>2. CASE r.op # "trade"
                    <6>1. q.row # r.row
                        BY <3>3, <4>1, <5>2 DEF LockOps, NewOps, Users
                    <6> QED BY <2>2, <2>11, <2>12, <3>1, <4>1, <6>1, NamingStays
                <5> QED BY <5>1, <5>2
            <4> QED BY <4>1
        <3>5. at[t] = "erase" => (Used(r.row)' => Used(r.row))
            <4>1. ASSUME at[t] = "erase", Used(r.row)' PROVE Used(r.row)
                <5>1. r.row # None
                    BY <2>13, <3>1, <4>1, Names, Known DEF RowFits, GateOps, RuleOps, AllocOps, Where, DropOps
                <5>2. \A o \in Rules : rule'[o].gate = r.row => rule[o].gate = r.row
                    BY <2>6, <5>1
                <5>3. \A a \in Allocs : alloc'[a].gate = r.row => alloc[a].gate = r.row
                    BY <2>7, <5>1
                <5> QED BY <2>1, <2>2, <4>1, <5>2, <5>3 DEF Used
            <4> QED BY <4>1
        <3>6. r.op = "patch_gate" /\ at[t] = "commit" => gate'[r.row].params = gate[r.row].params
            BY <2>3, <3>1, <3>3 DEF RowFits, GateOps, LockOps
        <3> QED BY <3>2, <3>4, <3>5, <3>6 DEF Stays
    <2> QED BY <2>1, <2>8, <2>9, <2>10, <2>13, OverKeeps
<1> QED BY <1>3, <1>4

-----------------------------------------------------------------------------
(* The theorems.                                                           *)

LEMMA InitInv == Init => RuleInv
<1> SUFFICES ASSUME Init PROVE RuleInv
    OBVIOUS
<1>1. NoGate \in [is : Life, params : [Keys -> Values]] /\ ~(NoGate.is = "there")
    BY FreshType DEF NoGate, Life
<1>2. /\ NoRule \in [is : Life, gate : Gates \cup {None}, watch : BOOLEAN, symbols : BOOLEAN]
      /\ NoRule.is = "none" /\ NoRule.gate = None
    BY DEF NoRule, Life
<1>3. /\ NoAlloc \in [is : Life, gate : Gates \cup {None}]
      /\ NoAlloc.is = "none" /\ NoAlloc.gate = None
    BY DEF NoAlloc, Life
<1>4. TableTypes
    BY <1>1, <1>2, <1>3 DEF Init, TableTypes
<1>5. SessionTypes
    BY FreshType DEF Init, SessionTypes, IsFun, Steps
<1>6. Blank /\ WatchlistHasSymbols
    BY <1>2, <1>3 DEF Init, Blank, WatchlistHasSymbols, RuleThere, AllocThere
<1>7. Mutex /\ \A s \in Sessions : SessionOK(s)
    BY DEF Init, Mutex, SessionOK
<1> QED BY <1>4, <1>5, <1>6, <1>7, TypesParts DEF RuleInv

LEMMA NextInv == RuleInv /\ [Next]_ruleVars => RuleInv'
<1> SUFFICES ASSUME RuleInv, [Next]_ruleVars PROVE RuleInv'
    OBVIOUS
<1>1. CASE UNCHANGED ruleVars
    <2>1. UNCHANGED tables /\ at' = at /\ req' = req /\ held' = held /\ read' = read /\ seen' = seen
          /\ mixed' = mixed /\ listed' = listed
        BY <1>1 DEF ruleVars
    <2>2. Types'
        <3>1. TableTypes' /\ SessionTypes'
            <4>1. TableTypes /\ SessionTypes BY TypesParts DEF RuleInv
            <4>2. TableTypes' BY <2>1, <4>1 DEF TableTypes, tables
            <4>3. SessionTypes' BY <2>1, <4>1 DEF SessionTypes, IsFun
            <4> QED BY <4>2, <4>3
        <3> QED BY <3>1, TypesParts
    <2>3. Blank' /\ WatchlistHasSymbols' /\ Mutex'
        BY <2>1 DEF RuleInv, Blank, WatchlistHasSymbols, RuleThere, AllocThere, Mutex, tables
    <2>4. ASSUME NEW t \in Sessions PROVE SessionOK(t)'
        <3>1. PICK q : q = req[t] OBVIOUS
        <3>2. at[t] # "idle" /\ q.op \in NewOps => \A u \in Sessions : u # t => req'[u].row # q.row
            BY <2>1, <3>1, Known, ZenonT(30)
        <3>3. Stays(q, at[t])
            BY <2>1, SameTables
        <3>4. SessionOK(t)
            BY DEF RuleInv
        <3> QED BY <2>1, <3>1, <3>2, <3>3, <3>4, OtherOK
    <2> QED BY <2>2, <2>3, <2>4 DEF RuleInv
<1>2. CASE Next
    <2>1. PICK s \in Sessions : Step(s) \/ Fail(s) \/ \E q \in Calls : Begin(s, q)
        BY <1>2 DEF Next
    <2>2. CASE Lock(s) BY <2>2, LockKeeps
    <2>3. CASE Share(s) BY <2>3, ShareKeeps
    <2>4. CASE Look(s) BY <2>4, LookKeeps
    <2>5. CASE Unlink(s) BY <2>5, UnlinkKeeps
    <2>6. CASE Link(s) BY <2>6, LinkKeeps
    <2>7. CASE Check(s) BY <2>7, CheckKeeps
    <2>8. CASE Erase(s) BY <2>8, EraseKeeps
    <2>9. CASE CommitGate(s) BY <2>9, CommitGateKeeps
    <2>10. CASE CommitRule(s) BY <2>10, CommitRuleKeeps
    <2>11. CASE CommitAlloc(s) BY <2>11, CommitAllocKeeps
    <2>12. CASE CommitActive(s) BY <2>12, CommitActiveKeeps
    <2>13. CASE CommitTrade(s) BY <2>13, CommitTradeKeeps
    <2>14. CASE Fail(s) BY <2>14, RefusedKeeps DEF Fail
    <2>15. CASE \E q \in Calls : Begin(s, q) BY <2>15, BeginKeeps
    <2> QED BY <2>1, <2>2, <2>3, <2>4, <2>5, <2>6, <2>7, <2>8, <2>9, <2>10, <2>11, <2>12, <2>13,
               <2>14, <2>15 DEF Step
<1> QED BY <1>1, <1>2

LEMMA AlwaysInv == Spec => []RuleInv
<1>1. Init => RuleInv BY InitInv
<1>2. RuleInv /\ [Next]_ruleVars => RuleInv' BY NextInv
<1> QED BY <1>1, <1>2, PTL DEF Spec

\* The rows of the rule objects, the settings, and the calls under way have their types,
\* whoever writes them and whatever fails.
THEOREM RuleTypes == Spec => []TypeOK
<1>1. RuleInv => TypeOK
    BY DEF RuleInv, Types
<1> QED BY <1>1, AlwaysInv, PTL

\* A delete of a gate set, a rule or an allocation that has found it unused: nobody comes
\* to use it, in the rows, in the trades or in the daemon's settings
\* (strategy_rules_delete.py, the FOR UPDATE and the in-use questions).
THEOREM RuleNothingElseStopsIt == Spec => []NothingElseStopsIt
<1>1. RuleInv => NothingElseStopsIt
    <2> SUFFICES ASSUME RuleInv, NEW s \in Sessions, at[s] = "erase"
                 PROVE  ~Used(req[s].row)
        BY DEF NothingElseStopsIt, Used
    <2> QED BY Known
<1> QED BY <1>1, AlwaysInv, PTL

\* Whatever calls overlap, no rule on the watchlist is without its symbols
\* (check_scope_symbols on the merged row).
THEOREM RuleWatchlistHasSymbols == Spec => []WatchlistHasSymbols
<1>1. RuleInv => WatchlistHasSymbols
    BY DEF RuleInv
<1> QED BY <1>1, AlwaysInv, PTL

\* A gate set's other keys.
KeysKept ==
    \A g \in Gates : GateThere(g) /\ GateThere(g)' =>
        \A k \in Keys : gate'[g].params[k] # gate[g].params[k] =>
            \E s \in Sessions :
                /\ at[s] = "commit" /\ req[s].row = g
                /\ req[s].op = "put_gate" \/ (req[s].op = "patch_gate" /\ req[s].key = k)

LEMMA GateUnchanged == gate' = gate => KeysKept
BY DEF KeysKept

LEMMA PatchStep == RuleInv /\ [Next]_ruleVars => KeysKept
<1> SUFFICES ASSUME RuleInv, [Next]_ruleVars PROVE KeysKept
    OBVIOUS
<1>1. CASE gate' = gate
    BY <1>1, GateUnchanged
<1>2. ASSUME NEW s \in Sessions, CommitGate(s) PROVE KeysKept
    <2>1. PICK q : q = req[s] OBVIOUS
    <2>2. at[s] = "commit" /\ q.op \in {"new_gate", "put_gate", "patch_gate"}
        BY <1>2, <2>1 DEF CommitGate
    <2>3. TableTypes /\ RowFits(q) /\ SendsFit(q) /\ (q.op = "new_gate" => ~Drawn(q.row))
        BY <2>1, <2>2, Known, TypesParts DEF RuleInv, NewOps
    <2>4. q.row \in Gates
        BY <2>2, <2>3 DEF RowFits, GateOps
    <2>5. PICK p : p = CASE q.op = "new_gate" -> Fresh
                         [] q.op = "put_gate" -> q.params
                         [] q.op = "patch_gate" -> Patched(q, read[s])
        OBVIOUS
    <2>6. gate' = [gate EXCEPT ![q.row] = [is |-> "there", params |-> p]]
        BY <1>2, <2>1, <2>5 DEF CommitGate
    <2>7. gate'[q.row].params = p /\ \A g \in Gates : g # q.row => gate'[g] = gate[g]
        BY <2>3, <2>4, <2>6 DEF TableTypes
    <2>8. q.op = "new_gate" => ~GateThere(q.row)
        BY <2>3, <2>4, TablesLaw DEF Tables, GateThere
    <2>9. q.op = "patch_gate" => \A k \in Keys : k # q.key => p[k] = gate[q.row].params[k]
        <3>1. q.op = "patch_gate" => read[s] = gate[q.row].params
            BY <2>1, <2>2, Known
        <3>2. gate[q.row].params \in [Keys -> Values]
            BY <2>3, <2>4 DEF TableTypes
        <3> QED BY <2>5, <3>1, <3>2 DEF Patched
    <2> SUFFICES ASSUME NEW g \in Gates, GateThere(g), NEW k \in Keys,
                        gate'[g].params[k] # gate[g].params[k]
                 PROVE  \E t \in Sessions :
                            /\ at[t] = "commit" /\ req[t].row = g
                            /\ req[t].op = "put_gate" \/ (req[t].op = "patch_gate" /\ req[t].key = k)
        BY DEF KeysKept
    <2>10. g = q.row
        BY <2>7
    <2>11. q.op = "put_gate" \/ (q.op = "patch_gate" /\ q.key = k)
        BY <2>2, <2>7, <2>8, <2>9, <2>10
    <2> QED BY <2>1, <2>2, <2>10, <2>11
<1>3. ASSUME NEW s \in Sessions, Erase(s) PROVE KeysKept
    <2>1. PICK q : q = req[s] OBVIOUS
    <2>2. CASE gate' = gate
        BY <2>2, GateUnchanged
    <2>3. CASE gate' # gate
        <3>1. q.row \in DOMAIN gate /\ gate' = [gate EXCEPT ![q.row] = [NoGate EXCEPT !.is = "gone"]]
            BY <1>3, <2>1, <2>3 DEF Erase, Refused, tables
        <3>2. DOMAIN gate = Gates
            BY TypesParts DEF RuleInv, TableTypes
        <3>3. gate'[q.row].is = "gone" /\ \A g \in Gates : g # q.row => gate'[g] = gate[g]
            BY <3>1, <3>2 DEF NoGate
        <3> QED BY <3>3 DEF KeysKept, GateThere
    <2> QED BY <2>2, <2>3
<1>4. gate' = gate \/ \E s \in Sessions : CommitGate(s) \/ Erase(s)
    BY DEF Next, Step, Fail, Begin, Lock, Share, Look, Unlink, Link, Check, CommitRule, CommitAlloc,
           CommitActive, CommitTrade, Refused, Take, tables, ruleVars
<1> QED BY <1>1, <1>2, <1>3, <1>4

\* For any callers, gate sets and keys: a patch takes back nothing another call has
\* committed (patch_gate_safety reads the params it merges into FOR UPDATE).
THEOREM RulePatchKeepsOthers == Spec => PatchKeepsOthers
<1>1. RuleInv /\ [Next]_ruleVars => KeysKept
    BY PatchStep
<1>2. Spec => [][KeysKept]_ruleVars
    BY <1>1, AlwaysInv, PTL DEF Spec
<1> QED BY <1>2, PTL DEF PatchKeepsOthers, KeysKept
-----------------------------------------------------------------------------
(* Lists of rules.                                                         *)

\* Between its DELETE's snapshot and its commit, a call that sends a list.
Listing(s) == at[s] \in {"unlink", "link", "commit"} /\ Sends(req[s], "list")

\* What was put in a list was there; list rows are an allocation's and a rule's.
RowsDrawn ==
    /\ \A m \in member : \E a \in Allocs, o \in Rules : m = {a, o} /\ alloc[a].is # "none"
    /\ \A a \in Allocs : listed[a] # None =>
           alloc[a].is # "none" /\ \A o \in listed[a] : rule[o].is # "none"

\* A call's row was drawn, an edited one is there; the rules it will list are there and
\* locked; what its DELETE saw is what its allocation still has, and its alone.
ListOK(s) ==
    /\ at[s] # "idle" /\ req[s].op \notin NewOps => Drawn(req[s].row)
    /\ req[s].op \in {"edit_rule", "edit_alloc"} /\ at[s] # "lock" => There(req[s].row)
    /\ at[s] \in {"look", "unlink", "link"} => Sends(req[s], "list")
    /\ at[s] \in {"look", "unlink"} => req[s].op # "new_alloc"
    /\ Listing(s) /\ at[s] = "commit" =>
           \A o \in req[s].list : <<{o}, "share">> \in held[s] /\ RuleThere(o)
    /\ Listing(s) /\ s \notin mixed => seen[s] = Rows(req[s].row)
    /\ \A m \in seen[s] : Listing(s) /\ \E o \in Rules : m = {req[s].row, o}

\* A list sent alone that meets another of its allocation makes both mixed.
Met(s, t) ==
    s # t /\ Listing(s) /\ Listing(t) /\ req[s].row = req[t].row
          /\ "relink" \in {req[s].op, req[t].op} => s \in mixed /\ t \in mixed

ListInv ==
    /\ RowsDrawn /\ ListIsReplaced
    /\ \A s \in Sessions : ListOK(s)
    /\ \A s, t \in Sessions : Met(s, t)

\* The locks a call can have: its row's, those of the rows it names, and the list rows it
\* has deleted or put in.
HeldOK(s) ==
    \A h \in held[s] :
        \/ h = <<{req[s].row}, LockMode(req[s].op)>> /\ req[s].op \in LockOps /\ at[s] # "lock"
        \/ /\ h[2] = "share" /\ (\E x \in Rules \cup Allocs \cup Gates : h[1] = {x})
           /\ req[s].op \in Users \cup {"relink"} /\ at[s] \notin {"lock", "share"}
        \/ /\ \E o \in Rules : h = <<{req[s].row, o}, "update">>
           /\ Listing(s) /\ at[s] # "unlink" /\ (at[s] = "link" => req[s].op # "new_alloc")

\* A list sent alone sends its list.
LEMMA RelinkSends == \A q \in Calls : q.op = "relink" => Sends(q, "list")
<1>1. \A q \in Requests : q.op = "relink" => Sends(q, "list")
    BY DEF Requests, Sends
<1> QED BY <1>1, RuleAssumption

Named == Gates \cup Rules \cup Allocs \cup {"settings"}

\* What a step of s leaves of the rows: only its own changes, for good it is drawn, and
\* only a DELETE takes one away or an INSERT brings one.
RowStep(s) ==
    \E x \in Named :
        /\ x = req[s].row
        /\ \A g \in Gates : g # x => gate'[g].is = gate[g].is
        /\ \A o \in Rules : o # x => rule'[o] = rule[o]
        /\ \A a \in Allocs : a # x => alloc'[a] = alloc[a]
        /\ Drawn(x) => Drawn(x)'
        /\ at[s] # "erase" /\ Drawn(x) /\ x \in Rules \cup Allocs => (There(x)' <=> There(x))

LEMMA RowStays ==
    ASSUME NEW s \in Sessions, RowStep(s)
    PROVE  /\ \A y \in Named : Drawn(y) => Drawn(y)'
           /\ \A y \in Rules \cup Allocs : Drawn(y) /\ (y # req[s].row \/ at[s] # "erase") =>
                  (There(y)' <=> There(y))
<1>1. PICK x \in Named :
          /\ x = req[s].row
          /\ \A g \in Gates : g # x => gate'[g].is = gate[g].is
          /\ \A o \in Rules : o # x => rule'[o] = rule[o]
          /\ \A a \in Allocs : a # x => alloc'[a] = alloc[a]
          /\ Drawn(x) => Drawn(x)'
          /\ at[s] # "erase" /\ Drawn(x) /\ x \in Rules \cup Allocs => (There(x)' <=> There(x))
    BY DEF RowStep
<1>2. ASSUME NEW y \in Named, Drawn(y) PROVE Drawn(y)'
    <2>1. CASE y = x
        BY <1>1, <1>2, <2>1
    <2>2. CASE y # x /\ y = "settings"
        BY <2>2, Names DEF Drawn
    <2>3. CASE y # x /\ y \in Gates \cup Rules \cup Allocs
        BY <1>1, <1>2, <2>3, TablesLaw DEF Tables
    <2> QED BY <2>1, <2>2, <2>3 DEF Named
<1>3. ASSUME NEW y \in Rules \cup Allocs, Drawn(y), y # x \/ at[s] # "erase"
      PROVE  There(y)' <=> There(y)
    <2>1. CASE y = x
        BY <1>1, <1>3, <2>1
    <2>2. CASE y # x
        BY <1>1, <2>2, TablesLaw DEF Tables, RuleThere, AllocThere
    <2> QED BY <2>1, <2>2
<1> QED BY <1>1, <1>2, <1>3

LEMMA SameRows ==
    ASSUME UNCHANGED tables, NEW s \in Sessions
    PROVE  /\ req[s].row \in Named => RowStep(s)
           /\ RowsDrawn /\ listed' = listed => RowsDrawn'
           /\ ListIsReplaced /\ listed' = listed => ListIsReplaced'
           /\ \A x : Rows(x)' = Rows(x)
<1>1. gate' = gate /\ rule' = rule /\ alloc' = alloc /\ member' = member
    BY DEF tables
<1>2. \A x : (Drawn(x)' <=> Drawn(x)) /\ (There(x)' <=> There(x))
    BY <1>1 DEF Drawn, There, GateThere, RuleThere, AllocThere
<1>3. req[s].row \in Named => RowStep(s)
    BY <1>1, <1>2 DEF RowStep
<1>4. RowsDrawn /\ listed' = listed => RowsDrawn'
    BY <1>1 DEF RowsDrawn
<1>5. \A x : Rows(x)' = Rows(x)
    BY <1>1 DEF Rows
<1>6. ListIsReplaced /\ listed' = listed => ListIsReplaced'
    BY <1>1 DEF ListIsReplaced, AllocThere, RuleThere, Rows
<1> QED BY <1>3, <1>4, <1>5, <1>6

\* A delete holds its row, a call that is to list a rule the rule's: never the same.
LEMMA ListedStays ==
    ASSUME RuleInv, ListInv, NEW s \in Sessions, NEW t \in Sessions, s # t, at[s] = "erase",
           Listing(t), at[t] = "commit", NEW o \in req[t].list
    PROVE  o # req[s].row
<1>1. <<{o}, "share">> \in held[t]
    BY DEF ListInv, ListOK
<1>2. PICK q : q = req[s] OBVIOUS
<1>3. q.op \in DropOps
    BY <1>2, Known DEF Where
<1>4. <<{q.row}, "update">> \in held[s]
    <2>1. q.op \in LockOps /\ LockMode(q.op) = "update"
        BY <1>3 DEF LockOps, LockMode
    <2> QED BY <1>2, <2>1, Known
<1>5. Mutex
    BY DEF RuleInv
<1>6. SUFFICES ASSUME o = q.row PROVE FALSE
    BY <1>2
<1>7. <<{q.row}, "share">> \in held[t]
    BY <1>1, <1>6
<1> QED BY <1>4, <1>5, <1>7, ApartOn

\* What another call knows of its row and its list stays so.
LEMMA OtherListOK ==
    ASSUME RuleInv, ListInv, NEW s \in Sessions, RowStep(s) \/ UNCHANGED tables,
           NEW t \in Sessions, t # s,
           at'[t] = at[t], held'[t] = held[t], req'[t] = req[t],
           t \in mixed => t \in mixed', seen'[t] \subseteq seen[t],
           Listing(t) /\ t \notin mixed => seen'[t] = Rows(req[t].row)'
    PROVE  ListOK(t)'
<1>1. PICK r : r = req[t] /\ r = req'[t]
    OBVIOUS
<1>2. SessionTypes /\ ListOK(t)
    BY TypesParts DEF RuleInv, ListInv
<1>4. /\ \A y \in Named : Drawn(y) => Drawn(y)'
      /\ \A y \in Rules \cup Allocs : Drawn(y) /\ (y # req[s].row \/ at[s] # "erase") =>
             (There(y)' <=> There(y))
    <2>1. UNCHANGED tables =>
              \A y : (Drawn(y)' <=> Drawn(y)) /\ (There(y)' <=> There(y))
        BY DEF tables, Drawn, There, GateThere, RuleThere, AllocThere
    <2> QED BY <2>1, RowStays
<1>5. at[t] # "idle" => RowFits(r) /\ SendsFit(r)
    BY <1>1, Known
<1>6. at[t] # "idle" /\ r.op \notin NewOps => Drawn(r.row)'
    <2>1. at[t] # "idle" => r.row \in Named
        BY <1>5 DEF RowFits, Named
    <2> QED BY <1>1, <1>2, <1>4, <2>1 DEF ListOK
<1>7. r.op \in {"edit_rule", "edit_alloc"} /\ at[t] # "lock" => There(r.row)'
    <2>1. SUFFICES ASSUME r.op \in {"edit_rule", "edit_alloc"}, at[t] # "lock" PROVE There(r.row)'
        OBVIOUS
    <2>2. at[t] # "idle"
        BY <1>1, <1>2, <2>1, Asked DEF NoReq
    <2>3. r.row \in Rules \cup Allocs /\ There(r.row) /\ Drawn(r.row)
        BY <1>1, <1>2, <1>5, <2>1, <2>2 DEF ListOK, RowFits, RuleOps, AllocOps, NewOps
    <2>4. at[s] = "erase" => r.row # req[s].row
        <3>1. at[s] = "erase" => req[s].op \in LockOps
            BY Known DEF Where, LockOps
        <3> QED BY <1>1, <2>1, <2>2, <3>1, RowsApart DEF LockOps
    <2> QED BY <1>4, <2>3, <2>4
<1>8. Listing(t)' <=> Listing(t)
    BY DEF Listing
<1>9. Listing(t) /\ at[t] = "commit" =>
          \A o \in r.list : <<{o}, "share">> \in held'[t] /\ RuleThere(o)'
    <2>1. SUFFICES ASSUME Listing(t), at[t] = "commit", NEW o \in r.list
                   PROVE  <<{o}, "share">> \in held'[t] /\ RuleThere(o)'
        OBVIOUS
    <2>2. <<{o}, "share">> \in held[t] /\ RuleThere(o)
        BY <1>1, <1>2, <2>1 DEF ListOK
    <2>3. o \in Rules
        BY <1>1, <1>5, <2>1 DEF SendsFit, Listing
    <2>4. o # req[s].row \/ at[s] # "erase"
        BY <1>1, <2>1, ListedStays
    <2>5. Drawn(o) /\ There(o) /\ (There(o)' <=> RuleThere(o)')
        BY <2>2, <2>3, TablesLaw DEF Tables, RuleThere
    <2> QED BY <1>4, <2>2, <2>3, <2>4, <2>5
<1>10. \A m \in seen'[t] : Listing(t)' /\ \E o \in Rules : m = {r.row, o}
    BY <1>1, <1>2, <1>8 DEF ListOK
<1>11. Listing(t)' /\ t \notin mixed' => seen'[t] = Rows(r.row)'
    BY <1>1, <1>8
<1> QED BY <1>1, <1>2, <1>6, <1>7, <1>8, <1>9, <1>10, <1>11 DEF ListOK

\* One session's step: what makes two lists meet is in its hands.
LEMMA MetStays ==
    ASSUME \A t, u \in Sessions : Met(t, u), NEW s \in Sessions,
           \A t \in Sessions : t # s =>
               at'[t] = at[t] /\ req'[t] = req[t] /\ (t \in mixed => t \in mixed'),
           \A t \in Sessions : Listing(s)' /\ t # s /\ Listing(t) /\ req'[s].row = req[t].row
                   /\ "relink" \in {req'[s].op, req[t].op} => s \in mixed' /\ t \in mixed'
    PROVE  \A t, u \in Sessions : Met(t, u)'
<1>1. \A t \in Sessions : t # s => (Listing(t)' <=> Listing(t))
    BY DEF Listing
<1>2. ASSUME NEW t \in Sessions, NEW u \in Sessions, t # u, Listing(t)', Listing(u)',
             req'[t].row = req'[u].row, "relink" \in {req'[t].op, req'[u].op}
      PROVE  t \in mixed' /\ u \in mixed'
    <2>1. CASE t = s
        BY <1>1, <1>2, <2>1
    <2>2. CASE u = s
        BY <1>1, <1>2, <2>2
    <2>3. CASE t # s /\ u # s
        <3>1. Met(t, u)
            OBVIOUS
        <3>2. Listing(t) /\ Listing(u) /\ req[t].row = req[u].row /\ "relink" \in {req[t].op, req[u].op}
            BY <1>1, <1>2, <2>3
        <3> QED BY <1>2, <2>3, <3>1, <3>2 DEF Met
    <2> QED BY <2>1, <2>2, <2>3
<1> QED BY <1>2 DEF Met

\* A step that takes locks and changes no row.
LEMMA TakeList ==
    ASSUME RuleInv, ListInv, NEW s \in Sessions, at[s] # "idle", NEW step \in Steps \ {"idle"},
           Take(s, step), ListOK(s)',
           \A t \in Sessions : t # s => seen'[t] = seen[t] /\ (t \in mixed => t \in mixed'),
           \A t \in Sessions : Listing(s)' /\ t # s /\ Listing(t) /\ req[s].row = req[t].row
                   /\ "relink" \in {req[s].op, req[t].op} => s \in mixed' /\ t \in mixed'
    PROVE  ListInv'
<1>1. SessionTypes
    BY TypesParts DEF RuleInv
<1>2. /\ \A t \in Sessions : t # s => at'[t] = at[t] /\ held'[t] = held[t]
      /\ req' = req /\ listed' = listed /\ UNCHANGED tables
    BY <1>1, TakeDoes
<1>3. RowsDrawn' /\ ListIsReplaced' /\ \A x : Rows(x)' = Rows(x)
    BY <1>2, SameRows DEF ListInv
<1>4. ASSUME NEW t \in Sessions, t # s PROVE ListOK(t)'
    <2>1. Listing(t) /\ t \notin mixed => seen'[t] = Rows(req[t].row)'
        <3>1. ListOK(t)
            BY DEF ListInv
        <3>2. Rows(req[t].row)' = Rows(req[t].row)
            BY <1>2 DEF Rows, tables
        <3> QED BY <1>4, <3>1, <3>2 DEF ListOK
    <2> QED BY <1>2, <1>4, <2>1, OtherListOK
<1>5. \A t, u \in Sessions : Met(t, u)'
    <2>1. \A t, u \in Sessions : Met(t, u)
        BY DEF ListInv
    <2> QED BY <1>2, <2>1, MetStays
<1> QED BY <1>3, <1>4, <1>5 DEF ListInv

\* A call ends: its own rows are another's no more, and who lists another allocation has
\* seen what that allocation still has.
LEMMA EndList ==
    ASSUME RuleInv, ListInv, NEW s \in Sessions, NEW deleted, Over(s, deleted),
           RowStep(s) \/ UNCHANGED tables, RowsDrawn', ListIsReplaced',
           \A t \in Sessions : t # s /\ Listing(t) /\ t \notin mixed =>
               seen[t] \ deleted = Rows(req[t].row)'
    PROVE  ListInv'
<1>1. SessionTypes
    BY TypesParts DEF RuleInv
<1>2. /\ at'[s] = "idle" /\ req'[s] = NoReq
      /\ \A t \in Sessions : t # s => at'[t] = at[t] /\ held'[t] = held[t] /\ req'[t] = req[t]
    BY <1>1, OverDoes
<1>3. /\ seen'[s] = {} /\ mixed' = mixed \ {s}
      /\ \A t \in Sessions : t # s => seen'[t] = seen[t] \ deleted
    BY DEF Over
<1>4. ~Listing(s)'
    BY <1>2 DEF Listing
<1>5. ListOK(s)'
    BY <1>2, <1>3, <1>4 DEF ListOK, NoReq
<1>6. ASSUME NEW t \in Sessions, t # s PROVE ListOK(t)'
    <2>1. Listing(t) /\ t \notin mixed => seen'[t] = Rows(req[t].row)'
        BY <1>3, <1>6
    <2>2. /\ at'[t] = at[t] /\ held'[t] = held[t] /\ req'[t] = req[t]
          /\ t \in mixed => t \in mixed'
          /\ seen'[t] \subseteq seen[t]
        BY <1>2, <1>3, <1>6
    <2> QED BY <1>6, <2>1, <2>2, OtherListOK
<1>7. \A t, u \in Sessions : Met(t, u)'
    <2>1. \A t, u \in Sessions : Met(t, u)
        BY DEF ListInv
    <2> QED BY <1>2, <1>3, <1>4, <2>1, MetStays
<1> QED BY <1>5, <1>6, <1>7 DEF ListInv

\* A step that changes no list and takes no row away.
LEMMA ListsStay ==
    ASSUME RuleInv, ListInv, NEW s \in Sessions, RowStep(s), at[s] # "erase",
           member' = member, listed' = listed
    PROVE  RowsDrawn' /\ ListIsReplaced'
<1>1. /\ \A y \in Named : Drawn(y) => Drawn(y)'
      /\ \A y \in Rules \cup Allocs : Drawn(y) => (There(y)' <=> There(y))
    BY RowStays
<1>2. /\ \A o \in Rules : rule[o].is # "none" =>
             rule'[o].is # "none" /\ (RuleThere(o)' <=> RuleThere(o))
      /\ \A a \in Allocs : alloc[a].is # "none" =>
             alloc'[a].is # "none" /\ (AllocThere(a)' <=> AllocThere(a))
    BY <1>1, TablesLaw DEF Tables, Named
<1>3. RowsDrawn'
    <2>1. \A m \in member' : \E a \in Allocs, o \in Rules : m = {a, o} /\ alloc'[a].is # "none"
        BY <1>2 DEF ListInv, RowsDrawn
    <2>2. \A a \in Allocs : listed'[a] # None =>
              alloc'[a].is # "none" /\ \A o \in listed'[a] : rule'[o].is # "none"
        <3>1. listed \in [Allocs -> (SUBSET Rules) \cup {None}]
            BY TypesParts DEF RuleInv, TableTypes
        <3> QED BY <1>2, <3>1 DEF ListInv, RowsDrawn
    <2> QED BY <2>1, <2>2 DEF RowsDrawn
<1>4. ASSUME NEW a \in Allocs, AllocThere(a)', listed'[a] # None
      PROVE  Rows(a)' = Pairs(a, {o \in listed'[a] : RuleThere(o)'})
    <2>1. alloc[a].is # "none" /\ listed[a] \subseteq Rules /\ \A o \in listed[a] : rule[o].is # "none"
        <3>1. listed \in [Allocs -> (SUBSET Rules) \cup {None}]
            BY TypesParts DEF RuleInv, TableTypes
        <3> QED BY <1>4, <3>1 DEF ListInv, RowsDrawn
    <2>2. AllocThere(a) /\ listed[a] # None
        BY <1>2, <1>4, <2>1
    <2>3. {o \in listed'[a] : RuleThere(o)'} = {o \in listed[a] : RuleThere(o)}
        BY <1>2, <2>1
    <2>4. Rows(a)' = Rows(a)
        BY DEF Rows
    <2> QED BY <2>2, <2>3, <2>4 DEF ListInv, ListIsReplaced
<1> QED BY <1>3, <1>4 DEF ListIsReplaced

\* Rolled back, or failed.
LEMMA RefusedList ==
    ASSUME RuleInv, ListInv, NEW s \in Sessions, Refused(s)
    PROVE  ListInv'
<1>1. Over(s, {}) /\ UNCHANGED tables /\ listed' = listed
    BY DEF Refused
<1>2. RowsDrawn' /\ ListIsReplaced' /\ \A x : Rows(x)' = Rows(x)
    BY <1>1, SameRows DEF ListInv
<1>3. ASSUME NEW t \in Sessions, t # s, Listing(t), t \notin mixed
      PROVE  seen[t] \ {} = Rows(req[t].row)'
    <2>1. req'[t] = req[t]
        BY <1>1, <1>3, OverDoes, TypesParts DEF RuleInv
    <2>2. seen[t] = Rows(req[t].row)
        BY <1>3 DEF ListInv, ListOK
    <2> QED BY <1>1, <2>1, <2>2 DEF Rows, tables
<1> QED BY <1>1, <1>2, <1>3, EndList

LEMMA LockList ==
    ASSUME RuleInv, ListInv, NEW s \in Sessions, Lock(s)
    PROVE  ListInv'
<1>1. PICK q : q = req[s] OBVIOUS
<1>2. at[s] = "lock"
    BY DEF Lock
<1>3. CASE ~There(q.row)
    BY <1>1, <1>3, RefusedList DEF Lock
<1>4. CASE There(q.row)
    <2> DEFINE step == IF q.op \in DropOps THEN "check"
                       ELSE IF q.op \in {"put_gate", "patch_gate"} THEN "commit" ELSE "share"
    <2>1. Take(s, step) /\ seen' = seen /\ mixed' = mixed
        BY <1>1, <1>4 DEF Lock
    <2>2. step \in {"check", "commit", "share"} /\ (step = "commit" => q.op \in {"put_gate", "patch_gate"})
        BY DEF DropOps
    <2> HIDE DEF step
    <2>3. SessionTypes /\ SendsFit(q) /\ ListOK(s)
        BY <1>1, <1>2, Known DEF ListInv
    <2>4. step \in Steps \ {"idle"}
        BY <2>2 DEF Steps
    <2>5. at'[s] = step /\ req' = req /\ UNCHANGED tables
        BY <1>2, <2>1, <2>3, <2>4, TakeDoes
    <2>6. ~Listing(s) /\ ~Listing(s)'
        BY <1>1, <1>2, <2>2, <2>3, <2>5 DEF Listing, SendsFit, ListOps
    <2>7. (Drawn(q.row)' <=> Drawn(q.row)) /\ (There(q.row)' <=> There(q.row))
        BY <2>5 DEF tables, Drawn, There, GateThere, RuleThere, AllocThere
    <2>8. ListOK(s)'
        BY <1>1, <1>2, <1>4, <2>1, <2>2, <2>3, <2>5, <2>6, <2>7 DEF ListOK
    <2> QED BY <1>2, <2>1, <2>4, <2>6, <2>8, TakeList
<1> QED BY <1>3, <1>4

LEMMA ShareList ==
    ASSUME RuleInv, ListInv, NEW s \in Sessions, Share(s)
    PROVE  ListInv'
<1>1. PICK q : q = req[s] OBVIOUS
<1>2. at[s] = "share"
    BY DEF Share
<1>3. CASE \E x \in Naming(q) : ~There(x)
    BY <1>1, <1>3, RefusedList DEF Share
<1>4. CASE ~\E x \in Naming(q) : ~There(x)
    <2> DEFINE step == IF Sends(q, "list") THEN IF q.op = "new_alloc" THEN "link" ELSE "look"
                       ELSE "commit"
    <2>1. Take(s, step) /\ seen' = seen /\ mixed' = mixed
        BY <1>1, <1>4 DEF Share
    <2>2. /\ step \in {"link", "look", "commit"} /\ (step = "commit" => ~Sends(q, "list"))
          /\ step # "commit" => Sends(q, "list")
          /\ step = "link" => q.op = "new_alloc"
          /\ step = "look" => q.op # "new_alloc"
        OBVIOUS
    <2> HIDE DEF step
    <2>3. SessionTypes /\ RowFits(q) /\ SendsFit(q) /\ ListOK(s)
        BY <1>1, <1>2, Known DEF ListInv
    <2>4. step \in Steps \ {"idle"}
        BY <2>2 DEF Steps
    <2>5. at'[s] = step /\ req' = req /\ UNCHANGED tables
        BY <1>2, <2>1, <2>3, <2>4, TakeDoes
    <2>6. ~Listing(s) /\ (Listing(s)' => q.op = "new_alloc" /\ step = "link")
        BY <1>1, <1>2, <2>2, <2>3, <2>5 DEF Listing, SendsFit, ListOps, Sends
    <2>7. (Drawn(q.row)' <=> Drawn(q.row)) /\ (There(q.row)' <=> There(q.row)) /\ Rows(q.row)' = Rows(q.row)
        BY <2>5 DEF tables, Drawn, There, GateThere, RuleThere, AllocThere, Rows
    <2>8. seen[s] = {}
        BY <2>3, <2>6 DEF ListOK
    <2>9. q.op = "new_alloc" => Rows(q.row) = {}
        <3>1. ASSUME q.op = "new_alloc", NEW m \in member, q.row \in m PROVE FALSE
            <4>1. q.row \in Allocs /\ ~Drawn(q.row)
                BY <1>1, <1>2, <2>3, <3>1, Known DEF RowFits, AllocOps, NewOps
            <4>2. PICK a \in Allocs, o \in Rules : m = {a, o} /\ alloc[a].is # "none"
                BY <3>1 DEF ListInv, RowsDrawn
            <4>3. q.row = a
                BY <3>1, <4>1, <4>2, Names
            <4> QED BY <4>1, <4>2, <4>3, TablesLaw DEF Tables
        <3> QED BY <3>1 DEF Rows
    <2>10. ListOK(s)'
        BY <1>1, <1>2, <2>1, <2>2, <2>3, <2>5, <2>6, <2>7, <2>8, <2>9 DEF ListOK, Listing
    <2>11. q.op = "new_alloc" => \A t \in Sessions : t # s => req[t].row # req[s].row
        <3>1. q.op \in NewOps => \A t \in Sessions \ {s} : req[t].row # q.row
            BY <1>1, <1>2, Known
        <3> QED BY <1>1, <3>1 DEF NewOps
    <2> QED BY <1>2, <2>1, <2>4, <2>6, <2>10, <2>11, TakeList
<1> QED BY <1>3, <1>4

LEMMA LookList ==
    ASSUME RuleInv, ListInv, NEW s \in Sessions, Look(s)
    PROVE  ListInv'
<1>1. PICK q : q = req[s] OBVIOUS
<1>2. PICK met : met = {t \in Sessions \ {s} :
                    /\ req[t].op \in ListOps /\ req[t].row = req[s].row
                    /\ at[t] \in {"unlink", "link", "commit"} /\ Sends(req[t], "list")
                    /\ "relink" \in {req[s].op, req[t].op}}
    OBVIOUS
<1>3. /\ at[s] = "look" /\ seen' = [seen EXCEPT ![s] = Rows(req[s].row)]
      /\ mixed' = IF met = {} THEN mixed ELSE mixed \cup met \cup {s}
      /\ Take(s, "unlink")
    BY <1>2 DEF Look
<1>4. SessionTypes /\ RowFits(q) /\ SendsFit(q) /\ ListOK(s)
    BY <1>1, <1>3, Known DEF ListInv
<1>5. "unlink" \in Steps \ {"idle"}
    BY DEF Steps
<1>6. at'[s] = "unlink" /\ req' = req /\ UNCHANGED tables
    BY <1>3, <1>4, <1>5, TakeDoes
<1>7. (Drawn(q.row)' <=> Drawn(q.row)) /\ (There(q.row)' <=> There(q.row)) /\ Rows(q.row)' = Rows(q.row)
    BY <1>6 DEF tables, Drawn, There, GateThere, RuleThere, AllocThere, Rows
<1>8. PICK x : x = Rows(q.row)
    OBVIOUS
<1>9. seen'[s] = x /\ \A t \in Sessions : t # s => seen'[t] = seen[t]
    <2>1. seen' = [seen EXCEPT ![s] = x] /\ IsFun(seen)
        BY <1>1, <1>3, <1>4, <1>8 DEF SessionTypes
    <2> QED BY <2>1, ExceptFun
<1>10. Listing(s)'
    BY <1>1, <1>3, <1>4, <1>6 DEF Listing, ListOK
<1>11. q.row \in Allocs
    BY <1>1, <1>3, <1>4 DEF ListOK, SendsFit, RowFits, ListOps, AllocOps
<1>12. \A m \in x : \E o \in Rules : m = {q.row, o}
    <2>1. ASSUME NEW m \in member, q.row \in m PROVE \E o \in Rules : m = {q.row, o}
        BY <1>11, <2>1, Names DEF ListInv, RowsDrawn
    <2> QED BY <1>8, <2>1 DEF Rows
<1>13. ListOK(s)'
    BY <1>1, <1>3, <1>4, <1>6, <1>7, <1>8, <1>9, <1>10, <1>12 DEF ListOK
<1>14. \A t \in Sessions : t \in mixed => t \in mixed'
    BY <1>3
<1>15. ASSUME NEW t \in Sessions, t # s, Listing(t), req[s].row = req[t].row,
              "relink" \in {req[s].op, req[t].op}
       PROVE  s \in mixed' /\ t \in mixed'
    <2>1. SendsFit(req[t])
        BY <1>15, Known DEF Listing
    <2>2. t \in met
        BY <1>2, <1>15, <2>1 DEF Listing, SendsFit
    <2> QED BY <1>3, <2>2
<1> QED BY <1>3, <1>5, <1>9, <1>13, <1>14, <1>15, TakeList

LEMMA UnlinkList ==
    ASSUME RuleInv, ListInv, NEW s \in Sessions, Unlink(s)
    PROVE  ListInv'
<1>1. PICK q : q = req[s] OBVIOUS
<1>2. at[s] = "unlink" /\ Take(s, "link") /\ seen' = seen /\ mixed' = mixed
    BY DEF Unlink
<1>3. SessionTypes /\ ListOK(s)
    BY <1>2, Known DEF ListInv
<1>4. "link" \in Steps \ {"idle"}
    BY DEF Steps
<1>5. at'[s] = "link" /\ req' = req /\ UNCHANGED tables
    BY <1>2, <1>3, <1>4, TakeDoes
<1>6. (Drawn(q.row)' <=> Drawn(q.row)) /\ (There(q.row)' <=> There(q.row)) /\ Rows(q.row)' = Rows(q.row)
    BY <1>5 DEF tables, Drawn, There, GateThere, RuleThere, AllocThere, Rows
<1>7. Listing(s) /\ Listing(s)'
    BY <1>2, <1>3, <1>5 DEF Listing, ListOK
<1>8. ListOK(s)'
    BY <1>1, <1>2, <1>3, <1>5, <1>6, <1>7 DEF ListOK
<1>9. \A t \in Sessions : Met(s, t)
    BY DEF ListInv
<1> QED BY <1>2, <1>4, <1>7, <1>8, <1>9, TakeList DEF Met

LEMMA LinkList ==
    ASSUME RuleInv, ListInv, NEW s \in Sessions, Link(s)
    PROVE  ListInv'
<1>1. PICK q : q = req[s] OBVIOUS
<1>2. at[s] = "link" /\ SessionTypes /\ ListOK(s)
    BY Known DEF Link, ListInv
<1>3. CASE Refused(s)
    BY <1>3, RefusedList
<1>4. CASE /\ Take(s, "commit") /\ seen' = seen /\ mixed' = mixed
           /\ \A o \in q.list : RuleThere(o)
    <2>1. "commit" \in Steps \ {"idle"}
        BY DEF Steps
    <2>2. at'[s] = "commit" /\ req' = req /\ held'[s] = held[s] \cup Wants(s) /\ UNCHANGED tables
        BY <1>2, <1>4, <2>1, TakeDoes
    <2>3. /\ (Drawn(q.row)' <=> Drawn(q.row)) /\ (There(q.row)' <=> There(q.row))
          /\ Rows(q.row)' = Rows(q.row) /\ \A o : RuleThere(o)' <=> RuleThere(o)
        BY <2>2 DEF tables, Drawn, There, GateThere, RuleThere, AllocThere, Rows
    <2>4. Listing(s) /\ Listing(s)'
        BY <1>2, <2>2 DEF Listing, ListOK
    <2>5. \A o \in q.list : <<{o}, "share">> \in Wants(s)
        BY <1>1, <1>2 DEF Wants
    <2>6. ListOK(s)'
        BY <1>1, <1>2, <1>4, <2>2, <2>3, <2>4, <2>5 DEF ListOK
    <2>7. \A t \in Sessions : Met(s, t)
        BY DEF ListInv
    <2> QED BY <1>2, <1>4, <2>1, <2>4, <2>6, <2>7, TakeList DEF Met
<1> QED BY <1>1, <1>3, <1>4 DEF Link

LEMMA CheckList ==
    ASSUME RuleInv, ListInv, NEW s \in Sessions, Check(s)
    PROVE  ListInv'
<1>1. PICK q : q = req[s] OBVIOUS
<1>2. at[s] = "check" /\ SessionTypes /\ ListOK(s) /\ q.op \in DropOps
    BY <1>1, Known DEF Check, ListInv, Where
<1>3. CASE Refused(s)
    BY <1>3, RefusedList
<1>4. CASE Take(s, "erase") /\ seen' = seen /\ mixed' = mixed
    <2>1. "erase" \in Steps \ {"idle"}
        BY DEF Steps
    <2>2. at'[s] = "erase" /\ req' = req /\ UNCHANGED tables
        BY <1>2, <1>4, <2>1, TakeDoes
    <2>3. Drawn(q.row)' <=> Drawn(q.row)
        BY <2>2 DEF tables, Drawn
    <2>4. ~Listing(s) /\ ~Listing(s)'
        BY <1>2, <2>2 DEF Listing
    <2>5. ListOK(s)'
        BY <1>1, <1>2, <1>4, <2>2, <2>3, <2>4 DEF ListOK, DropOps
    <2> QED BY <1>2, <1>4, <2>1, <2>4, <2>5, TakeList
<1> QED BY <1>1, <1>3, <1>4 DEF Check

LEMMA BeginList ==
    ASSUME RuleInv, ListInv, NEW s \in Sessions, NEW q \in Calls, Begin(s, q)
    PROVE  ListInv'
<1>1. SessionTypes /\ RowFits(q) /\ SendsFit(q) /\ ListOK(s)
    BY CallFits, TypesParts DEF RuleInv, ListInv
<1>2. /\ at[s] = "idle" /\ at' = [at EXCEPT ![s] = FirstStep(q.op)]
      /\ req' = [req EXCEPT ![s] = q]
      /\ UNCHANGED <<tables, held, read, seen, mixed, listed>>
      /\ q.op \notin NewOps => Drawn(q.row)
    BY DEF Begin, NewOps
<1>3. /\ at'[s] = FirstStep(q.op) /\ req'[s] = q
      /\ \A t \in Sessions : t # s => at'[t] = at[t] /\ req'[t] = req[t]
    <2>1. at \in [Sessions -> Steps] /\ req \in [Sessions -> Calls \cup {NoReq}]
        BY <1>1 DEF SessionTypes
    <2>2. at'[s] = FirstStep(q.op) /\ \A t \in Sessions : t # s => at'[t] = at[t]
        BY <1>2, <2>1
    <2>3. req'[s] = q /\ \A t \in Sessions : t # s => req'[t] = req[t]
        BY <1>2, <2>1
    <2> QED BY <2>2, <2>3
<1>4. /\ FirstStep(q.op) \in {"commit", "share", "look", "lock"}
      /\ FirstStep(q.op) = "commit" => q.op = "new_gate"
      /\ FirstStep(q.op) = "look" => q.op = "relink"
      /\ q.op \in {"edit_rule", "edit_alloc"} => FirstStep(q.op) = "lock"
    BY <1>1 DEF FirstStep, RowFits, GateOps, RuleOps, AllocOps
<1>5. ~Listing(s) /\ ~Listing(s)'
    BY <1>1, <1>2, <1>3, <1>4 DEF Listing, SendsFit, ListOps
<1>6. Drawn(q.row)' <=> Drawn(q.row)
    BY <1>2 DEF tables, Drawn
<1>7. seen'[s] = {}
    BY <1>1, <1>2, <1>5 DEF ListOK
<1>8. ListOK(s)'
    BY <1>2, <1>3, <1>4, <1>5, <1>6, <1>7, RelinkSends DEF ListOK
<1>9. RowsDrawn' /\ ListIsReplaced'
    BY <1>2, SameRows DEF ListInv
<1>10. ASSUME NEW t \in Sessions, t # s PROVE ListOK(t)'
    <2>1. Listing(t) /\ t \notin mixed => seen'[t] = Rows(req[t].row)'
        <3>1. Rows(req[t].row)' = Rows(req[t].row)
            BY <1>2, <1>3, <1>10 DEF Rows, tables
        <3> QED BY <1>2, <3>1 DEF ListInv, ListOK
    <2> QED BY <1>2, <1>3, <1>10, <2>1, OtherListOK
<1>11. \A t, u \in Sessions : Met(t, u)'
    <2>1. \A t, u \in Sessions : Met(t, u)
        BY DEF ListInv
    <2> QED BY <1>2, <1>3, <1>5, <2>1, MetStays
<1> QED BY <1>8, <1>9, <1>10, <1>11 DEF ListInv

\* A commit that writes no list.
LEMMA PlainList ==
    ASSUME RuleInv, ListInv, NEW s \in Sessions, at[s] # "erase", at[s] # "idle", Over(s, {}),
           RowStep(s), member' = member, listed' = listed
    PROVE  ListInv'
<1>1. RowsDrawn' /\ ListIsReplaced'
    BY ListsStay
<1>2. ASSUME NEW t \in Sessions, t # s, Listing(t), t \notin mixed
      PROVE  seen[t] \ {} = Rows(req[t].row)'
    <2>1. req'[t] = req[t]
        BY <1>2, OverDoes, TypesParts DEF RuleInv
    <2>2. seen[t] = Rows(req[t].row)
        BY <1>2 DEF ListInv, ListOK
    <2> QED BY <2>1, <2>2 DEF Rows
<1> QED BY <1>1, <1>2, EndList

LEMMA CommitGateList ==
    ASSUME RuleInv, ListInv, NEW s \in Sessions, CommitGate(s)
    PROVE  ListInv'
<1>1. PICK q : q = req[s] OBVIOUS
<1>2. /\ at[s] = "commit" /\ q.op \in {"new_gate", "put_gate", "patch_gate"} /\ Over(s, {})
      /\ rule' = rule /\ alloc' = alloc /\ member' = member /\ listed' = listed
    BY <1>1 DEF CommitGate
<1>3. PICK p : gate' = [gate EXCEPT ![q.row] = [is |-> "there", params |-> p]]
    BY <1>1 DEF CommitGate
<1>4. TableTypes /\ RowFits(q)
    BY <1>1, <1>2, Known, TypesParts DEF RuleInv
<1>5. q.row \in Gates /\ q.row \notin Rules /\ q.row \notin Allocs
    BY <1>2, <1>4, Names DEF RowFits, GateOps
<1>6. gate'[q.row].is = "there" /\ \A g \in Gates : g # q.row => gate'[g] = gate[g]
    BY <1>3, <1>4, <1>5 DEF TableTypes
<1>7. Drawn(q.row)'
    BY <1>5, <1>6, TablesLaw DEF Tables
<1>8. RowStep(s)
    BY <1>1, <1>2, <1>5, <1>6, <1>7 DEF RowStep, Named
<1> QED BY <1>2, <1>8, PlainList

LEMMA CommitRuleList ==
    ASSUME RuleInv, ListInv, NEW s \in Sessions, CommitRule(s)
    PROVE  ListInv'
<1>1. PICK q : q = req[s] OBVIOUS
<1>2. /\ at[s] = "commit" /\ q.op \in {"new_rule", "edit_rule"} /\ Over(s, {})
      /\ gate' = gate /\ alloc' = alloc /\ member' = member /\ listed' = listed
    BY <1>1 DEF CommitRule
<1>3. TableTypes /\ RowFits(q) /\ ListOK(s)
    BY <1>1, <1>2, Known, TypesParts DEF RuleInv, ListInv
<1>4. q.row \in Rules
    BY <1>2, <1>3 DEF RowFits, RuleOps
<1>5. PICK m : m = Merged(q, rule[q.row]) OBVIOUS
<1>6. rule' = rule \/ rule' = [rule EXCEPT ![q.row] = m]
    <2>1. [rule EXCEPT ![q.row] = Merged(q, @)] = [rule EXCEPT ![q.row] = m]
        BY <1>5
    <2> QED BY <1>1, <1>5, <2>1 DEF CommitRule
<1>7. m.is = "there"
    BY <1>5 DEF Merged
<1>8. /\ rule'[q.row] = rule[q.row] \/ rule'[q.row].is = "there"
      /\ \A o \in Rules : o # q.row => rule'[o] = rule[o]
    BY <1>3, <1>4, <1>6, <1>7 DEF TableTypes
<1>9. Drawn(q.row) => RuleThere(q.row)
    <2>1. q.op = "new_rule" => ~Drawn(q.row)
        BY <1>1, <1>2, Known DEF NewOps
    <2>2. q.op = "edit_rule" => There(q.row)
        BY <1>1, <1>2, <1>3 DEF ListOK
    <2> QED BY <1>2, <1>4, <2>1, <2>2, TablesLaw DEF Tables
<1>10. /\ Drawn(q.row) => Drawn(q.row)'
       /\ Drawn(q.row) => (There(q.row)' <=> There(q.row))
    BY <1>4, <1>8, <1>9, TablesLaw DEF Tables, RuleThere
<1>11. RowStep(s)
    BY <1>1, <1>2, <1>4, <1>8, <1>10 DEF RowStep, Named
<1> QED BY <1>2, <1>11, PlainList

LEMMA CommitActiveList ==
    ASSUME RuleInv, ListInv, NEW s \in Sessions, CommitActive(s)
    PROVE  ListInv'
<1>1. /\ at[s] = "commit" /\ Over(s, {}) /\ req[s].op = "activate"
      /\ gate' = gate /\ rule' = rule /\ alloc' = alloc /\ member' = member /\ listed' = listed
    BY DEF CommitActive
<1>2. req[s].row \in Named
    BY <1>1, Known DEF RowFits, Named
<1>3. \A x : (Drawn(x)' <=> Drawn(x)) /\ (There(x)' <=> There(x))
    BY <1>1 DEF Drawn, There, GateThere, RuleThere, AllocThere
<1>4. RowStep(s)
    BY <1>1, <1>2, <1>3 DEF RowStep
<1> QED BY <1>1, <1>4, PlainList

LEMMA CommitTradeList ==
    ASSUME RuleInv, ListInv, NEW s \in Sessions, CommitTrade(s)
    PROVE  ListInv'
<1>1. /\ at[s] = "commit" /\ Over(s, {}) /\ req[s].op = "trade"
      /\ gate' = gate /\ rule' = rule /\ alloc' = alloc /\ member' = member /\ listed' = listed
    BY DEF CommitTrade
<1>2. req[s].row \in Named
    BY <1>1, Known DEF RowFits, RuleOps, Named
<1>3. \A x : (Drawn(x)' <=> Drawn(x)) /\ (There(x)' <=> There(x))
    BY <1>1 DEF Drawn, There, GateThere, RuleThere, AllocThere
<1>4. RowStep(s)
    BY <1>1, <1>2, <1>3 DEF RowStep
<1> QED BY <1>1, <1>4, PlainList

\* Two calls that list one allocation: one of the lists is sent alone, and both know.
LEMMA OneListAtATime ==
    ASSUME RuleInv, ListInv, NEW s \in Sessions, NEW t \in Sessions, s # t,
           Listing(s), Listing(t), t \notin mixed
    PROVE  req[s].row # req[t].row
<1>1. PICK q, r : q = req[s] /\ r = req[t]
    OBVIOUS
<1>2. SendsFit(q) /\ SendsFit(r) /\ Met(s, t)
    BY <1>1, Known DEF Listing, ListInv
<1>3. q.op \in ListOps /\ r.op \in ListOps
    BY <1>1, <1>2 DEF Listing, SendsFit
<1>4. CASE "relink" \in {q.op, r.op}
    BY <1>1, <1>2, <1>4 DEF Met
<1>5. CASE "relink" \notin {q.op, r.op}
    <2>1. q.op \in LockOps \cup NewOps /\ r.op \in LockOps \cup NewOps
        BY <1>3, <1>5 DEF ListOps, LockOps, NewOps
    <2>2. at[s] \notin {"idle", "lock"} /\ at[t] \notin {"idle", "lock"}
        BY DEF Listing
    <2> QED BY <1>1, <2>1, <2>2, RowsApart
<1> QED BY <1>4, <1>5

LEMMA CommitAllocList ==
    ASSUME RuleInv, ListInv, NEW s \in Sessions, CommitAlloc(s)
    PROVE  ListInv'
<1>1. PICK q : q = req[s] OBVIOUS
<1>2. PICK w : w = seen[s] OBVIOUS
<1>3. /\ at[s] = "commit" /\ q.op \in ListOps /\ Over(s, w) /\ gate' = gate /\ rule' = rule
    BY <1>1, <1>2 DEF CommitAlloc
<1>4. TableTypes /\ RowFits(q) /\ SendsFit(q) /\ ListOK(s) /\ SessionTypes
    BY <1>1, <1>3, Known, TypesParts DEF RuleInv, ListInv
<1>5. q.row \in Allocs
    BY <1>3, <1>4 DEF RowFits, AllocOps, ListOps
<1>6. PICK m : m = [is |-> "there",
                    gate |-> IF Sends(q, "gate") THEN q.gate ELSE alloc[q.row].gate]
    OBVIOUS
<1>7. \/ q.op = "relink" /\ alloc' = alloc
      \/ q.op \in {"new_alloc", "edit_alloc"} /\ alloc' = [alloc EXCEPT ![q.row] = m]
    <2>1. [alloc EXCEPT ![q.row] = [is |-> "there",
                                    gate |-> IF Sends(q, "gate") THEN q.gate ELSE @.gate]]
              = [alloc EXCEPT ![q.row] = m]
        BY <1>6
    <2> QED BY <1>1, <1>3, <2>1 DEF CommitAlloc, ListOps
<1>8. /\ q.op = "relink" => alloc' = alloc
      /\ q.op # "relink" => alloc'[q.row].is = "there"
      /\ \A a \in Allocs : a # q.row => alloc'[a] = alloc[a]
    BY <1>4, <1>5, <1>6, <1>7 DEF TableTypes
<1>9. /\ Drawn(q.row)'
      /\ Drawn(q.row) => (There(q.row)' <=> There(q.row))
    <2>1. q.op = "relink" => Drawn(q.row)
        BY <1>1, <1>3, <1>4 DEF ListOK, NewOps
    <2>2. q.op = "new_alloc" => ~Drawn(q.row)
        BY <1>1, <1>3, Known DEF NewOps
    <2>3. q.op = "edit_alloc" => There(q.row)
        BY <1>1, <1>3, <1>4 DEF ListOK
    <2> QED BY <1>3, <1>5, <1>8, <2>1, <2>2, <2>3, TablesLaw DEF Tables, AllocThere, ListOps
<1>10. RowStep(s)
    BY <1>1, <1>3, <1>5, <1>8, <1>9 DEF RowStep, Named
<1>11. CASE ~Sends(q, "list")
    <2>1. w = {} /\ member' = member /\ listed' = listed
        BY <1>1, <1>2, <1>4, <1>11 DEF CommitAlloc, ListOK, Listing
    <2> QED BY <1>3, <1>10, <2>1, PlainList
<1>12. CASE Sends(q, "list")
    <2>1. /\ member' = (member \ w) \cup Pairs(q.row, q.list)
          /\ listed' = [listed EXCEPT ![q.row] = IF s \in mixed THEN None ELSE q.list]
        BY <1>1, <1>2, <1>12 DEF CommitAlloc
    <2>2. Listing(s) /\ q.list \subseteq Rules
        BY <1>1, <1>3, <1>4, <1>12 DEF Listing, SendsFit
    <2>3. /\ \A o \in q.list : RuleThere(o)
          /\ s \notin mixed => w = Rows(q.row)
          /\ \A k \in w : \E o \in Rules : k = {q.row, o}
        BY <1>1, <1>2, <1>3, <1>4, <2>2 DEF ListOK
    <2>4. \A k \in Pairs(q.row, q.list) : \E o \in Rules : k = {q.row, o}
        BY <2>2 DEF Pairs
    <2>5. \A a \in Allocs : a # q.row => Rows(a)' = Rows(a)
        <3>1. ASSUME NEW a \in Allocs, a # q.row, NEW k, a \in k
              PROVE  k \notin w /\ k \notin Pairs(q.row, q.list)
            BY <2>3, <2>4, <3>1, Names
        <3> QED BY <2>1, <3>1 DEF Rows
    <2>6. \A y \in Rules \cup Allocs : Drawn(y) => Drawn(y)' /\ (There(y)' <=> There(y))
        BY <1>3, <1>10, RowStays DEF Named
    <2>7. \A a \in Allocs : /\ alloc[a].is # "none" => alloc'[a].is # "none"
                            /\ alloc[a].is # "none" => (AllocThere(a)' <=> AllocThere(a))
        BY <2>6, TablesLaw DEF Tables
    <2>8. alloc'[q.row].is # "none"
        BY <1>5, <1>9, TablesLaw DEF Tables
    <2>9. /\ \A a \in Allocs : a # q.row => listed'[a] = listed[a]
          /\ listed'[q.row] = IF s \in mixed THEN None ELSE q.list
        <3>1. PICK v : v = IF s \in mixed THEN None ELSE q.list
            OBVIOUS
        <3>2. listed \in [Allocs -> (SUBSET Rules) \cup {None}]
            BY <1>4 DEF TableTypes
        <3> QED BY <1>5, <2>1, <3>1, <3>2
    <2>10. RowsDrawn'
        <3>1. \A k \in member' : \E a \in Allocs, o \in Rules : k = {a, o} /\ alloc'[a].is # "none"
            BY <1>5, <2>1, <2>4, <2>7, <2>8 DEF ListInv, RowsDrawn
        <3>2. \A a \in Allocs : listed'[a] # None =>
                  alloc'[a].is # "none" /\ \A o \in listed'[a] : rule'[o].is # "none"
            BY <1>3, <2>3, <2>7, <2>8, <2>9 DEF ListInv, RowsDrawn, RuleThere
        <3> QED BY <3>1, <3>2 DEF RowsDrawn
    <2>11. ListIsReplaced'
        <3>1. ASSUME NEW a \in Allocs, AllocThere(a)', listed'[a] # None, a # q.row
              PROVE  Rows(a)' = Pairs(a, {o \in listed'[a] : RuleThere(o)'})
            <4>1. AllocThere(a) /\ listed'[a] = listed[a] /\ listed[a] # None
                BY <2>7, <2>9, <3>1 DEF ListInv, RowsDrawn
            <4>2. Rows(a) = Pairs(a, {o \in listed[a] : RuleThere(o)})
                BY <4>1 DEF ListInv, ListIsReplaced
            <4>3. \A o : RuleThere(o)' <=> RuleThere(o)
                BY <1>3 DEF RuleThere
            <4> QED BY <2>5, <3>1, <4>1, <4>2, <4>3
        <3>2. ASSUME s \notin mixed
              PROVE  Rows(q.row)' = Pairs(q.row, {o \in q.list : RuleThere(o)'})
            <4>1. \A k \in Pairs(q.row, q.list) : q.row \in k
                BY <2>4
            <4>2. PICK x : x = q.row
                OBVIOUS
            <4>3. Rows(x)' = Pairs(x, q.list)
                BY <2>1, <2>3, <3>2, <4>1, <4>2 DEF Rows
            <4>4. {o \in q.list : RuleThere(o)'} = q.list
                BY <1>3, <2>3 DEF RuleThere
            <4> QED BY <4>2, <4>3, <4>4
        <3> QED BY <2>9, <3>1, <3>2 DEF ListIsReplaced
    <2>12. ASSUME NEW t \in Sessions, t # s, Listing(t), t \notin mixed
           PROVE  seen[t] \ w = Rows(req[t].row)'
        <3>1. PICK r : r = req[t] /\ r = req'[t]
            BY <1>3, <1>4, <2>12, OverDoes
        <3>2. q.row # r.row
            BY <1>1, <2>2, <2>12, <3>1, OneListAtATime
        <3>3. r.row \in Allocs
            <4>1. RowFits(r) /\ SendsFit(r)
                BY <2>12, <3>1, Known DEF Listing
            <4> QED BY <2>12, <3>1, <4>1 DEF Listing, SendsFit, RowFits, ListOps, AllocOps
        <3>4. seen[t] = Rows(r.row)
            BY <2>12, <3>1 DEF ListInv, ListOK
        <3>5. \A k \in seen[t] : k \notin w
            BY <2>3, <3>2, <3>3, <3>4, Names DEF Rows
        <3> QED BY <2>5, <3>1, <3>2, <3>3, <3>4, <3>5
    <2> QED BY <1>3, <1>10, <2>10, <2>11, <2>12, EndList
<1> QED BY <1>11, <1>12

LEMMA EraseList ==
    ASSUME RuleInv, ListInv, NEW s \in Sessions, Erase(s)
    PROVE  ListInv'
<1>1. PICK q : q = req[s] OBVIOUS
<1>2. /\ at[s] = "erase" /\ SessionTypes /\ TableTypes /\ RowFits(q) /\ q.op \in DropOps
      /\ ~Used(q.row) /\ ListOK(s)
    BY <1>1, Known, TypesParts DEF Erase, RuleInv, Where, ListInv
<1>3. CASE Restricted(q)
    BY <1>1, <1>3, RefusedList DEF Erase
<1>4. CASE ~Restricted(q)
    <2> DEFINE Dead(f, blank) ==
            IF q.row \in DOMAIN f THEN [f EXCEPT ![q.row] = [blank EXCEPT !.is = "gone"]] ELSE f
    <2>1. PICK w : w = Cascade(q) OBVIOUS
    <2>2. /\ gate' = Dead(gate, NoGate) /\ rule' = Dead(rule, NoRule) /\ alloc' = Dead(alloc, NoAlloc)
          /\ member' = member \ w /\ Over(s, w) /\ listed' = listed
        BY <1>1, <1>4, <2>1 DEF Erase
    <2>3. /\ q.row \in Gates => gate'[q.row].is = "gone"
          /\ \A g \in Gates : g # q.row => gate'[g] = gate[g]
        BY <1>2, <2>2 DEF TableTypes, NoGate
    <2>4. /\ q.row \in Rules => rule'[q.row].is = "gone"
          /\ \A o \in Rules : o # q.row => rule'[o] = rule[o]
        BY <1>2, <2>2 DEF TableTypes, NoRule
    <2>5. /\ q.row \in Allocs => alloc'[q.row].is = "gone"
          /\ \A a \in Allocs : a # q.row => alloc'[a] = alloc[a]
        BY <1>2, <2>2 DEF TableTypes, NoAlloc
    <2> HIDE DEF Dead
    <2>6. q.row \in Gates \cup Rules \cup Allocs
        BY <1>2 DEF RowFits, DropOps, GateOps, RuleOps, AllocOps
    <2>7. Drawn(q.row)'
        BY <2>3, <2>4, <2>5, <2>6, TablesLaw DEF Tables
    <2>8. RowStep(s)
        BY <1>1, <1>2, <2>3, <2>4, <2>5, <2>6, <2>7 DEF RowStep, Named
    <2>9. w = Rows(q.row)
        BY <1>2, <2>1 DEF Cascade, Used
    <2>10. /\ \A o \in Rules : /\ rule[o].is # "none" => rule'[o].is # "none"
                               /\ RuleThere(o)' <=> RuleThere(o) /\ o # q.row
           /\ \A a \in Allocs : /\ alloc[a].is # "none" => alloc'[a].is # "none"
                                /\ AllocThere(a)' <=> AllocThere(a) /\ a # q.row
        BY <2>4, <2>5 DEF RuleThere, AllocThere
    <2>11. RowsDrawn'
        <3>1. listed \in [Allocs -> (SUBSET Rules) \cup {None}]
            BY <1>2 DEF TableTypes
        <3>2. \A k \in member' : \E a \in Allocs, o \in Rules : k = {a, o} /\ alloc'[a].is # "none"
            BY <2>2, <2>10 DEF ListInv, RowsDrawn
        <3>3. \A a \in Allocs : listed'[a] # None =>
                  alloc'[a].is # "none" /\ \A o \in listed'[a] : rule'[o].is # "none"
            BY <2>2, <2>10, <3>1 DEF ListInv, RowsDrawn
        <3> QED BY <3>2, <3>3 DEF RowsDrawn
    <2>12. ASSUME NEW a \in Allocs, AllocThere(a)', listed'[a] # None
           PROVE  Rows(a)' = Pairs(a, {o \in listed'[a] : RuleThere(o)'})
        <3>1. AllocThere(a) /\ a # q.row /\ listed[a] # None /\ listed[a] \subseteq Rules
            BY <1>2, <2>2, <2>10, <2>12 DEF TableTypes
        <3>2. Rows(a) = Pairs(a, {o \in listed[a] : RuleThere(o)})
            BY <3>1 DEF ListInv, ListIsReplaced
        <3>3. Rows(a)' = {k \in Rows(a) : q.row \notin k}
            BY <2>2, <2>9 DEF Rows
        <3>4. \A k : k \in Rows(a)' <=> \E o \in listed[a] : RuleThere(o) /\ k = {a, o} /\ q.row \notin k
            BY <3>2, <3>3 DEF Pairs
        <3>5. \A o \in listed[a] : RuleThere(o)' <=> RuleThere(o) /\ q.row \notin {a, o}
            BY <2>10, <3>1
        <3>6. \A k : k \in Rows(a)' <=> \E o \in listed[a] : RuleThere(o)' /\ k = {a, o}
            BY <3>4, <3>5
        <3>7. \A k : k \in Pairs(a, {o \in listed'[a] : RuleThere(o)'})
                         <=> \E o \in listed[a] : RuleThere(o)' /\ k = {a, o}
            BY <2>2 DEF Pairs
        <3> QED BY <3>6, <3>7
    <2>13. ASSUME NEW t \in Sessions, t # s, Listing(t), t \notin mixed
           PROVE  seen[t] \ w = Rows(req[t].row)'
        <3>1. req'[t] = req[t]
            BY <1>2, <2>2, <2>13, OverDoes
        <3>2. seen[t] = Rows(req[t].row)
            BY <2>13 DEF ListInv, ListOK
        <3> QED BY <2>2, <3>1, <3>2 DEF Rows
    <2> QED BY <2>2, <2>8, <2>11, <2>12, <2>13, EndList DEF ListIsReplaced
<1> QED BY <1>3, <1>4

LEMMA NextList == RuleInv /\ ListInv /\ [Next]_ruleVars => ListInv'
<1> SUFFICES ASSUME RuleInv, ListInv, [Next]_ruleVars PROVE ListInv'
    OBVIOUS
<1>1. CASE UNCHANGED ruleVars
    <2>1. UNCHANGED tables /\ at' = at /\ req' = req /\ held' = held /\ seen' = seen
          /\ mixed' = mixed /\ listed' = listed
        BY <1>1 DEF ruleVars
    <2>2. RowsDrawn' /\ ListIsReplaced'
        BY <2>1, SameRows DEF ListInv, tables, RowsDrawn, ListIsReplaced, AllocThere, RuleThere, Rows
    <2>3. \A t \in Sessions : Listing(t)' <=> Listing(t)
        BY <2>1 DEF Listing
    <2>4. \A t \in Sessions : ListOK(t)'
        <3>1. \A x : /\ (Drawn(x)' <=> Drawn(x)) /\ (There(x)' <=> There(x)) /\ Rows(x)' = Rows(x)
                     /\ RuleThere(x)' <=> RuleThere(x)
            BY <2>1 DEF tables, Drawn, There, GateThere, RuleThere, AllocThere, Rows
        <3> SUFFICES ASSUME NEW t \in Sessions PROVE ListOK(t)'
            OBVIOUS
        <3>2. PICK q : q = req[t] /\ q = req'[t]
            BY <2>1
        <3> QED BY <2>1, <2>3, <3>1, <3>2 DEF ListInv, ListOK
    <2>5. \A t, u \in Sessions : Met(t, u)'
        BY <2>1, <2>3 DEF ListInv, Met
    <2> QED BY <2>2, <2>4, <2>5 DEF ListInv
<1>2. CASE Next
    <2>1. PICK s \in Sessions : Step(s) \/ Fail(s) \/ \E q \in Calls : Begin(s, q)
        BY <1>2 DEF Next
    <2>2. CASE Lock(s) BY <2>2, LockList
    <2>3. CASE Share(s) BY <2>3, ShareList
    <2>4. CASE Look(s) BY <2>4, LookList
    <2>5. CASE Unlink(s) BY <2>5, UnlinkList
    <2>6. CASE Link(s) BY <2>6, LinkList
    <2>7. CASE Check(s) BY <2>7, CheckList
    <2>8. CASE Erase(s) BY <2>8, EraseList
    <2>9. CASE CommitGate(s) BY <2>9, CommitGateList
    <2>10. CASE CommitRule(s) BY <2>10, CommitRuleList
    <2>11. CASE CommitAlloc(s) BY <2>11, CommitAllocList
    <2>12. CASE CommitActive(s) BY <2>12, CommitActiveList
    <2>13. CASE CommitTrade(s) BY <2>13, CommitTradeList
    <2>14. CASE Fail(s) BY <2>14, RefusedList DEF Fail
    <2>15. CASE \E q \in Calls : Begin(s, q) BY <2>15, BeginList
    <2> QED BY <2>1, <2>2, <2>3, <2>4, <2>5, <2>6, <2>7, <2>8, <2>9, <2>10, <2>11, <2>12, <2>13,
               <2>14, <2>15 DEF Step
<1> QED BY <1>1, <1>2

LEMMA InitList == Init => ListInv
<1> SUFFICES ASSUME Init PROVE ListInv
    OBVIOUS
<1>1. RowsDrawn /\ ListIsReplaced
    BY DEF Init, RowsDrawn, ListIsReplaced
<1>2. \A s \in Sessions : ListOK(s) /\ ~Listing(s)
    BY DEF Init, ListOK, Listing, NoReq
<1> QED BY <1>1, <1>2 DEF ListInv, Met

LEMMA AlwaysList == Spec => [](RuleInv /\ ListInv)
<1>1. Init => ListInv BY InitList
<1>2. RuleInv /\ ListInv /\ [Next]_ruleVars => ListInv' BY NextList
<1> QED BY <1>1, <1>2, InitInv, NextInv, PTL DEF Spec

\* Whoever edits an allocation and deletes rules meanwhile, and whatever fails: the rules
\* of an allocation are those of the list committed last, less the deleted ones, and no
\* rule on the watchlist is without its symbols (update_allocation, patch_allocation).
THEOREM RuleRowsStayWhole == Spec => []RowsStayWhole
<1>1. RuleInv /\ ListInv => RowsStayWhole
    BY DEF RuleInv, ListInv, RowsStayWhole
<1> QED BY <1>1, AlwaysList, PTL

-----------------------------------------------------------------------------
(* Deadlocks.                                                              *)

HeldInv == \A s \in Sessions : HeldOK(s)

\* Only the step of a call itself changes its locks.
LEMMA OtherHeld ==
    ASSUME NEW t \in Sessions, HeldOK(t), at'[t] = at[t], req'[t] = req[t], held'[t] = held[t]
    PROVE  HeldOK(t)'
<1>1. Listing(t)' <=> Listing(t)
    BY DEF Listing
<1> QED BY <1>1 DEF HeldOK

LEMMA NoneHeld ==
    ASSUME NEW t \in Sessions, held'[t] = {}
    PROVE  HeldOK(t)'
BY DEF HeldOK

\* What a call's foreign keys name are rows of the tables.
LEMMA NamingFits ==
    ASSUME TableTypes, NEW q, RowFits(q), SendsFit(q), q.op \in Users
    PROVE  \A x \in Naming(q) : x \in Rules \cup Allocs \cup Gates
<1>1. NamingIs(q)
    BY NamingLaw
<1>2. CASE q.op = "trade"
    BY <1>1, <1>2 DEF NamingIs, RowFits, RuleOps
<1>3. CASE q.op \in {"new_rule", "edit_rule", "new_alloc", "edit_alloc", "activate"}
    BY <1>1, <1>3 DEF NamingIs, SendsFit
<1> QED BY <1>2, <1>3 DEF Users

\* The locks a step takes are of the call's own kinds.
LEMMA TakerHeld ==
    ASSUME RuleInv, ListInv, HeldInv, NEW s \in Sessions,
           NEW q, q = req[s], at[s] # "idle", NEW step \in Steps \ {"idle", "lock"}, Take(s, step),
           at[s] = "lock" => step # "look",
           at[s] = "share" => step \in {"look", "link", "commit"}
                              /\ (step = "link" => q.op = "new_alloc"),
           at[s] # "lock" => step # "share",
           at[s] = "look" => step = "unlink", at[s] = "unlink" => step = "link",
           at[s] = "link" => step = "commit", at[s] = "check" => step = "erase",
           at[s] \notin {"erase", "commit"}
    PROVE  HeldOK(s)'
<1>1. /\ SessionTypes /\ TableTypes /\ RowFits(q) /\ SendsFit(q) /\ ListOK(s) /\ HeldOK(s)
      /\ Where(q.op, at[s])
    BY Known, TypesParts DEF RuleInv, ListInv, HeldInv
<1>2. at'[s] = step /\ held'[s] = held[s] \cup Wants(s) /\ req'[s] = q
    BY <1>1, TakeDoes
<1>3. Listing(s)' <=> step \in {"unlink", "link", "commit"} /\ Sends(q, "list")
    BY <1>2 DEF Listing
<1>4. ASSUME NEW h \in held'[s]
      PROVE  \/ h = <<{q.row}, LockMode(q.op)>> /\ q.op \in LockOps /\ step # "lock"
             \/ /\ h[2] = "share" /\ (\E x \in Rules \cup Allocs \cup Gates : h[1] = {x})
                /\ q.op \in Users \cup {"relink"} /\ step \notin {"lock", "share"}
             \/ /\ \E o \in Rules : h = <<{q.row, o}, "update">>
                /\ Listing(s)' /\ step # "unlink" /\ (step = "link" => q.op # "new_alloc")
    <2>1. CASE h \in held[s]
        <3>1. CASE h = <<{q.row}, LockMode(q.op)>> /\ q.op \in LockOps
            BY <3>1
        <3>2. CASE /\ h[2] = "share" /\ (\E x \in Rules \cup Allocs \cup Gates : h[1] = {x})
                   /\ q.op \in Users \cup {"relink"} /\ at[s] \notin {"lock", "share"}
            BY <3>2
        <3>3. CASE /\ \E o \in Rules : h = <<{q.row, o}, "update">>
                   /\ Listing(s) /\ at[s] # "unlink" /\ (at[s] = "link" => q.op # "new_alloc")
            BY <1>3, <3>3 DEF Listing
        <3> QED BY <1>1, <2>1, <3>1, <3>2, <3>3 DEF HeldOK
    <2>2. CASE h \in Wants(s) /\ at[s] = "lock"
        BY <1>1, <2>2, WantsLaw DEF Where
    <2>3. CASE h \in Wants(s) /\ at[s] = "share"
        <3>1. PICK x \in Naming(q) : h = <<{x}, "share">>
            BY <2>3, WantsLaw
        <3>2. q.op \in Users
            BY <1>1, <2>3 DEF Where
        <3>3. x \in Rules \cup Allocs \cup Gates
            BY <1>1, <3>2, NamingFits
        <3> QED BY <2>3, <3>1, <3>2, <3>3
    <2>4. CASE h \in Wants(s) /\ at[s] = "unlink"
        <3>1. PICK m \in seen[s] : h = <<m, "update">>
            BY <2>4 DEF Wants
        <3>2. Listing(s) /\ (\E o \in Rules : m = {q.row, o}) /\ q.op # "new_alloc"
            BY <1>1, <2>4, <3>1 DEF ListOK
        <3> QED BY <1>3, <2>4, <3>1, <3>2 DEF Listing
    <2>5. CASE h \in Wants(s) /\ at[s] = "link"
        <3>1. Sends(q, "list") /\ q.op \in ListOps /\ q.list \subseteq Rules
            BY <1>1, <2>5 DEF ListOK, SendsFit
        <3>2. q.row \in Allocs /\ q.op \in Users \cup {"relink"}
            BY <1>1, <3>1 DEF RowFits, ListOps, AllocOps, Users
        <3>3. h \in {<<{o}, "share">> : o \in q.list} \cup (Pairs(q.row, q.list) \X {"update"})
                      \cup {<<{q.row}, "share">> : o \in q.list}
            BY <2>5 DEF Wants
        <3>4. CASE h \in {<<{o}, "share">> : o \in q.list} \cup {<<{q.row}, "share">> : o \in q.list}
            BY <2>5, <3>1, <3>2, <3>4
        <3>5. CASE h \in Pairs(q.row, q.list) \X {"update"}
            <4>1. \E o \in Rules : h = <<{q.row, o}, "update">>
                BY <3>1, <3>5 DEF Pairs
            <4> QED BY <1>3, <2>5, <3>1, <4>1
        <3> QED BY <3>3, <3>4, <3>5
    <2>6. CASE h \in Wants(s) /\ at[s] \in {"look", "check"}
        BY <2>6, WantsLaw
    <2>7. at[s] \in {"lock", "share", "look", "unlink", "link", "check"}
        BY <1>1 DEF SessionTypes, Steps
    <2> QED BY <1>2, <2>1, <2>2, <2>3, <2>4, <2>5, <2>6, <2>7
<1> QED BY <1>2, <1>4 DEF HeldOK

LEMMA NextHeld == RuleInv /\ ListInv /\ HeldInv /\ [Next]_ruleVars => HeldInv'
<1> SUFFICES ASSUME RuleInv, ListInv, HeldInv, [Next]_ruleVars, NEW t \in Sessions
             PROVE  HeldOK(t)'
    BY DEF HeldInv
<1>1. SessionTypes /\ HeldOK(t)
    BY TypesParts DEF RuleInv, HeldInv
<1>2. CASE UNCHANGED ruleVars
    BY <1>1, <1>2, OtherHeld DEF ruleVars
<1>3. ASSUME NEW s \in Sessions, NEW deleted, Over(s, deleted) PROVE HeldOK(t)'
    <2>1. CASE t = s
        BY <1>1, <1>3, <2>1, OverDoes, NoneHeld
    <2>2. CASE t # s
        BY <1>1, <1>3, <2>2, OverDoes, OtherHeld
    <2> QED BY <2>1, <2>2
<1>4. ASSUME NEW s \in Sessions, at[s] # "idle", NEW step \in Steps \ {"idle"}, Take(s, step), t # s
      PROVE  HeldOK(t)'
    BY <1>1, <1>4, TakeDoes, OtherHeld
<1>5. ASSUME NEW s \in Sessions, Refused(s) PROVE HeldOK(t)'
    BY <1>3, <1>5 DEF Refused
<1>6. ASSUME NEW s \in Sessions, Lock(s) PROVE HeldOK(t)'
    <2> DEFINE step == IF req[s].op \in DropOps THEN "check"
                       ELSE IF req[s].op \in {"put_gate", "patch_gate"} THEN "commit" ELSE "share"
    <2>1. at[s] = "lock" /\ (Refused(s) \/ Take(s, step))
        BY <1>6 DEF Lock
    <2>2. step \in Steps \ {"idle", "lock"} /\ step # "look"
        BY DEF Steps
    <2> HIDE DEF step
    <2>3. CASE t = s /\ Take(s, step)
        BY <2>1, <2>2, <2>3, TakerHeld
    <2> QED BY <1>4, <1>5, <2>1, <2>2, <2>3
<1>7. ASSUME NEW s \in Sessions, Share(s) PROVE HeldOK(t)'
    <2> DEFINE step == IF Sends(req[s], "list") THEN IF req[s].op = "new_alloc" THEN "link" ELSE "look"
                       ELSE "commit"
    <2>1. at[s] = "share" /\ (Refused(s) \/ Take(s, step))
        BY <1>7 DEF Share
    <2>2. /\ step \in Steps \ {"idle", "lock"} /\ step \in {"look", "link", "commit"}
          /\ step = "link" => req[s].op = "new_alloc"
        BY DEF Steps
    <2> HIDE DEF step
    <2>3. CASE t = s /\ Take(s, step)
        BY <2>1, <2>2, <2>3, TakerHeld
    <2> QED BY <1>4, <1>5, <2>1, <2>2, <2>3
<1>8. ASSUME NEW s \in Sessions, NEW step \in {"unlink", "link", "commit", "erase"},
             at[s] # "idle", Refused(s) \/ Take(s, step),
             <<at[s], step>> \in {<<"look", "unlink">>, <<"unlink", "link">>, <<"link", "commit">>,
                                  <<"check", "erase">>}
      PROVE  HeldOK(t)'
    <2>1. step \in Steps \ {"idle", "lock"}
        BY DEF Steps
    <2>2. CASE t = s /\ Take(s, step)
        BY <1>8, <2>1, <2>2, TakerHeld
    <2> QED BY <1>4, <1>5, <1>8, <2>1, <2>2
<1>9. ASSUME NEW s \in Sessions, Look(s) \/ Unlink(s) \/ Link(s) \/ Check(s) PROVE HeldOK(t)'
    <2>1. CASE Look(s)
        BY <1>8, <2>1 DEF Look
    <2>2. CASE Unlink(s)
        BY <1>8, <2>2 DEF Unlink
    <2>3. CASE Link(s)
        BY <1>8, <2>3 DEF Link
    <2>4. CASE Check(s)
        BY <1>8, <2>4 DEF Check
    <2> QED BY <1>9, <2>1, <2>2, <2>3, <2>4
<1>10. ASSUME NEW s \in Sessions, NEW q \in Calls, Begin(s, q) PROVE HeldOK(t)'
    <2>1. held' = held /\ at' = [at EXCEPT ![s] = FirstStep(q.op)] /\ req' = [req EXCEPT ![s] = q]
          /\ at[s] = "idle"
        BY <1>10 DEF Begin
    <2>2. CASE t = s
        BY <1>1, <2>1, <2>2, Asked, NoneHeld
    <2>3. CASE t # s
        <3>1. at'[t] = at[t] /\ req'[t] = req[t]
            BY <1>1, <2>1, <2>3 DEF SessionTypes
        <3> QED BY <1>1, <2>1, <3>1, OtherHeld
    <2> QED BY <2>2, <2>3
<1>11. ASSUME NEW s \in Sessions, Erase(s) PROVE HeldOK(t)'
    BY <1>3, <1>5, <1>11 DEF Erase
<1>12. ASSUME NEW s \in Sessions,
              CommitGate(s) \/ CommitRule(s) \/ CommitAlloc(s) \/ CommitActive(s) \/ CommitTrade(s)
       PROVE  HeldOK(t)'
    BY <1>3, <1>12 DEF CommitGate, CommitRule, CommitAlloc, CommitActive, CommitTrade
<1> QED BY <1>2, <1>5, <1>6, <1>7, <1>9, <1>10, <1>11, <1>12 DEF Next, Step, Fail

\* A list row is two rows' and neither alone; a row of the tables is no setting.
LEMMA PairsApart ==
    ASSUME ListInv, RuleInv, NEW s \in Sessions, at[s] # "idle"
    PROVE  /\ \A m \in seen[s] : Listing(s) /\ \E o \in Rules : m = {req[s].row, o}
           /\ \A o \in Rules : \A x : Listing(s) => {req[s].row, o} # {x}
           /\ Listing(s) => req[s].row \in Allocs
<1>1. PICK q : q = req[s] OBVIOUS
<1>2. RowFits(q) /\ SendsFit(q) /\ ListOK(s)
    BY <1>1, Known DEF ListInv
<1>3. Listing(s) => q.row \in Allocs
    BY <1>1, <1>2 DEF Listing, SendsFit, RowFits, ListOps, AllocOps
<1>4. \A o \in Rules : \A x : Listing(s) => {q.row, o} # {x}
    BY <1>3, Names
<1> QED BY <1>1, <1>2, <1>3, <1>4 DEF ListOK

\* What each step waits for, by the step.
LEMMA WantsMore ==
    ASSUME NEW s
    PROVE  /\ at[s] = "unlink" => Wants(s) = seen[s] \X {"update"}
           /\ at[s] = "link" => Wants(s) =
                  {<<{o}, "share">> : o \in req[s].list} \cup (Pairs(req[s].row, req[s].list) \X {"update"})
                  \cup {<<{req[s].row}, "share">> : o \in req[s].list}
           /\ at[s] = "erase" => Wants(s) = ({{req[s].row}} \cup Cascade(req[s])) \X {"update"}
           /\ at[s] \in {"idle", "look", "check", "commit"} => Wants(s) = {}
BY DEF Wants

\* Who is waited for has a lock of a row the waiting call wants; so it has taken some.
LEMMA WhoWaits ==
    ASSUME RuleInv, ListInv, HeldInv, NEW s \in Sessions, NEW t \in Sessions, WaitsFor(s, t),
           WaitsFor(t, s)
    PROVE  at[s] \in {"unlink", "link", "erase"}
<1>1. PICK w \in Wants(s), h \in held[t] : w[1] = h[1] /\ Excludes(w[2], h[2])
    BY DEF WaitsFor
<1>2. PICK v \in Wants(t), k \in held[s] : v[1] = k[1] /\ Excludes(v[2], k[2])
    BY DEF WaitsFor
<1>3. s # t /\ SessionTypes
    BY TypesParts DEF WaitsFor, RuleInv
<1>4. at[s] \in Steps \ {"idle", "look", "check", "commit"} /\ at[t] \notin {"idle", "look", "check", "commit"}
    BY <1>1, <1>2, <1>3, WantsMore DEF SessionTypes
<1>5. PICK q, r : q = req[s] /\ r = req[t]
    OBVIOUS
<1>6. RowFits(q) /\ RowFits(r) /\ Where(q.op, at[s]) /\ Where(r.op, at[t]) /\ HeldOK(s) /\ HeldOK(t)
    BY <1>4, <1>5, Known DEF HeldInv
<1>7. at[s] # "lock"
    BY <1>2, <1>6 DEF HeldOK, Listing
<1>8. at[t] # "lock"
    BY <1>1, <1>6 DEF HeldOK, Listing
<1>9. ASSUME at[s] = "share" PROVE FALSE
    <2>1. k = <<{q.row}, LockMode(q.op)>> /\ q.op \in LockOps
        BY <1>2, <1>5, <1>6, <1>9 DEF HeldOK, Listing
    <2>2. q.op \in Users /\ LockMode(q.op) = "write" /\ q.op \notin DropOps
        BY <1>6, <1>9, <2>1 DEF Where, LockMode, Users, DropOps
    <2>3. v[1] = {q.row} /\ v[2] \in {"update", "write"}
        BY <1>2, <2>1, <2>2 DEF Excludes
    <2>4. CASE at[t] = "share"
        BY <1>2, <2>3, <2>4, WantsLaw
    <2>5. CASE at[t] = "unlink"
        <3>1. v \in seen[t] \X {"update"}
            BY <1>2, <2>5, WantsMore
        <3>2. PICK m \in seen[t] : v[1] = m
            BY <3>1
        <3>3. PICK o \in Rules : Listing(t) /\ m = {r.row, o}
            BY <1>4, <1>5, PairsApart
        <3>4. \A x : {r.row, o} # {x}
            BY <1>4, <1>5, <3>3, PairsApart, SMTT(30)
        <3> QED BY <2>3, <3>2, <3>3, <3>4
    <2>6. CASE at[t] = "link"
        <3>1. v \in Pairs(r.row, r.list) \X {"update"}
            BY <1>2, <1>5, <2>3, <2>6, WantsMore
        <3>2. PICK o \in r.list : v[1] = {r.row, o}
            BY <3>1 DEF Pairs
        <3>3. Listing(t) /\ r.list \subseteq Rules
            BY <1>4, <1>5, <2>6, Known DEF ListInv, ListOK, Listing, SendsFit
        <3>4. o \in Rules
            BY <3>2, <3>3
        <3>5. \A x : {r.row, o} # {x}
            BY <1>4, <1>5, <3>3, <3>4, PairsApart, SMTT(30)
        <3> QED BY <2>3, <3>2, <3>5
    <2>7. CASE at[t] = "erase"
        <3>1. v[1] = {r.row} \/ v[1] \in Cascade(r)
            BY <1>2, <1>5, <2>7, WantsMore
        <3>2. q.row # r.row
            <4>1. r.op \in LockOps
                BY <1>6, <2>7 DEF Where, LockOps
            <4> QED BY <1>3, <1>5, <1>9, <2>1, <2>7, <4>1, RowsApart
        <3>3. ~Used(r.row)
            BY <1>4, <1>5, <2>7, Known
        <3>4. v[1] \in member
            BY <2>3, <3>1, <3>2, <3>3 DEF Cascade, Used, Rows
        <3> QED BY <2>3, <3>4, Names DEF ListInv, RowsDrawn
    <2>8. at[t] \in Steps
        BY <1>3 DEF SessionTypes
    <2> QED BY <1>4, <1>8, <2>4, <2>5, <2>6, <2>7, <2>8 DEF Steps
<1> QED BY <1>4, <1>7, <1>9 DEF Steps

\* What a call waits for that has its own locks: a list row that another is putting in, or
\* the row another deletes and it lists.
LEMMA WhatBlocks ==
    ASSUME RuleInv, ListInv, HeldInv, NEW s \in Sessions, NEW t \in Sessions, WaitsFor(s, t),
           at[s] \in {"unlink", "link", "erase"}, at[t] \in {"unlink", "link", "erase"},
           NEW q, q = req[s], NEW r, r = req[t]
    PROVE  \/ at[s] = "erase" /\ at[t] = "link" /\ r.op # "new_alloc"
           \/ at[s] = "link" /\ at[t] = "erase" /\ (r.row = q.row \/ r.row \in q.list)
           \/ at[s] # "erase" /\ at[t] = "link" /\ q.row = r.row /\ r.op # "new_alloc"
<1>1. PICK w \in Wants(s), h \in held[t] : s # t /\ w[1] = h[1] /\ Excludes(w[2], h[2])
    BY DEF WaitsFor
<1>2. /\ RowFits(q) /\ SendsFit(q) /\ RowFits(r) /\ SendsFit(r)
      /\ Where(q.op, at[s]) /\ Where(r.op, at[t]) /\ HeldOK(t) /\ ListOK(s) /\ ListOK(t) /\ Mutex
    BY Known DEF HeldInv, ListInv, RuleInv
<1>3. \/ \E x : h[1] = {x}
      \/ /\ \E p \in Rules : h = <<{r.row, p}, "update">>
         /\ Listing(t) /\ at[t] # "unlink" /\ (at[t] = "link" => r.op # "new_alloc")
    <2>1. CASE h = <<{r.row}, LockMode(r.op)>>
        BY <2>1
    <2>2. CASE \E x \in Rules \cup Allocs \cup Gates : h[1] = {x}
        BY <2>2
    <2>3. CASE /\ \E o \in Rules : h = <<{r.row, o}, "update">>
               /\ Listing(t) /\ at[t] # "unlink" /\ (at[t] = "link" => r.op # "new_alloc")
        BY <2>3
    <2> QED BY <1>1, <1>2, <2>1, <2>2, <2>3 DEF HeldOK
<1>4. CASE at[s] = "unlink"
    <2>1. w \in seen[s] \X {"update"}
        BY <1>1, <1>4, WantsMore
    <2>2. PICK m \in seen[s] : w[1] = m
        BY <2>1
    <2>3. PICK o \in Rules : Listing(s) /\ m = {q.row, o}
        BY <1>4, PairsApart
    <2>4. q.row \in Allocs /\ \A x : {q.row, o} # {x}
        BY <1>4, <2>3, PairsApart
    <2>5. PICK p \in Rules : h = <<{r.row, p}, "update">> /\ Listing(t) /\ at[t] = "link" /\ r.op # "new_alloc"
        <3>1. \A x : h[1] # {x}
            BY <1>1, <2>2, <2>3, <2>4
        <3> QED BY <1>3, <3>1 DEF Listing
    <2>6. r.row \in Allocs
        BY <2>5, PairsApart
    <2>7. {q.row, o} = {r.row, p}
        BY <1>1, <2>2, <2>3, <2>5
    <2>8. q.row = r.row
        BY <2>4, <2>6, <2>7, Names
    <2> QED BY <1>4, <2>5, <2>8
<1>5. CASE at[s] = "link"
    <2>1. Listing(s) /\ q.list \subseteq Rules
        BY <1>2, <1>5 DEF ListOK, Listing, SendsFit
    <2>2. q.row \in Allocs
        BY <1>5, <2>1, PairsApart
    <2>3. w \in {<<{o}, "share">> : o \in q.list} \cup (Pairs(q.row, q.list) \X {"update"})
               \cup {<<{q.row}, "share">> : o \in q.list}
        BY <1>1, <1>5, WantsMore
    <2>4. CASE w \in Pairs(q.row, q.list) \X {"update"}
        <3>1. PICK o \in q.list : w[1] = {q.row, o}
            BY <2>4 DEF Pairs
        <3>2. o \in Rules /\ \A x : {q.row, o} # {x}
            BY <1>5, <2>1, <3>1, PairsApart
        <3>3. PICK p \in Rules : h = <<{r.row, p}, "update">> /\ Listing(t) /\ at[t] \in {"link", "commit"}
                                 /\ (at[t] = "link" => r.op # "new_alloc")
            <4>1. \A x : h[1] # {x}
                BY <1>1, <3>1, <3>2
            <4> QED BY <1>3, <4>1 DEF Listing
        <3>4. r.row \in Allocs
            BY <3>3, PairsApart
        <3>5. {q.row, o} = {r.row, p}
            BY <1>1, <3>1, <3>3
        <3>6. q.row = r.row
            BY <2>2, <3>2, <3>4, <3>5, Names
        <3> QED BY <1>5, <3>3, <3>6
    <2>5. CASE w \in {<<{o}, "share">> : o \in q.list} \cup {<<{q.row}, "share">> : o \in q.list}
        <3>1. PICK x : w = <<{x}, "share">> /\ (x = q.row \/ x \in q.list)
            BY <2>5
        <3>2. h[1] = {x} /\ h[2] = "update"
            BY <1>1, <3>1 DEF Excludes
        <3>3. CASE h = <<{r.row}, LockMode(r.op)>> /\ r.op \in LockOps
            <4>1. LockMode(r.op) = "update" /\ r.row = x
                BY <3>2, <3>3
            <4>2. r.op \in DropOps \cup {"patch_gate"}
                BY <4>1 DEF LockMode
            <4>3. at[t] = "erase"
                BY <1>2, <4>2 DEF Where, DropOps, Users
            <4> QED BY <1>5, <3>1, <4>1, <4>3
        <3>4. CASE Listing(t) /\ \E o \in Rules : h = <<{r.row, o}, "update">>
            <4>1. PICK o \in Rules : h = <<{r.row, o}, "update">>
                BY <3>4
            <4>2. {r.row, o} # {x}
                BY <3>4, PairsApart
            <4> QED BY <3>2, <4>1, <4>2
        <3> QED BY <1>2, <3>2, <3>3, <3>4 DEF HeldOK
    <2> QED BY <2>3, <2>4, <2>5
<1>6. CASE at[s] = "erase"
    <2>1. w[1] = {q.row} \/ w[1] \in Cascade(q)
        BY <1>1, <1>6, WantsMore
    <2>2. ~Used(q.row) /\ q.op \in DropOps
        BY <1>2, <1>6, Known DEF Where
    <2>3. w[1] = {q.row} \/ w[1] \in member
        BY <2>1, <2>2 DEF Cascade, Used, Rows
    <2>4. \A x : {x} \notin member
        BY Names DEF ListInv, RowsDrawn
    <2>5. q.op \in LockOps /\ LockMode(q.op) = "update"
        BY <2>2 DEF LockOps, LockMode
    <2>6. <<{q.row}, "update">> \in held[s]
        BY <1>6, <2>5, Known
    <2>7. ASSUME NEW x, NEW m, h = <<{x}, m>> PROVE FALSE
        <3>1. x = q.row
            BY <1>1, <2>3, <2>4, <2>7
        <3>2. <<{q.row}, m>> \in held[t]
            BY <1>1, <2>7, <3>1
        <3> QED BY <1>1, <1>2, <2>6, <3>2, ApartOn DEF Excludes
    <2>8. ASSUME NEW x, h[1] = {x}, h[2] = "share" PROVE FALSE
        <3>1. x = q.row
            BY <1>1, <2>3, <2>4, <2>8
        <3>2. <<{q.row}, "update">>[1] = h[1] /\ Excludes(<<{q.row}, "update">>[2], h[2])
            BY <2>8, <3>1 DEF Excludes
        <3> QED BY <1>1, <1>2, <2>6, <3>2 DEF Mutex
    <2>9. Listing(t) /\ at[t] # "unlink" /\ (at[t] = "link" => r.op # "new_alloc")
        BY <1>1, <1>2, <2>7, <2>8 DEF HeldOK
    <2> QED BY <1>6, <2>9 DEF Listing
<1> QED BY <1>4, <1>5, <1>6

\* A delete and a call that puts its list in: the row is a rule listed, or the allocation
\* of a list sent alone.
LEMMA EraseAndLink ==
    ASSUME RuleInv, ListInv, NEW s \in Sessions, NEW t \in Sessions, s # t,
           at[s] = "erase", at[t] = "link", NEW q, q = req[s], NEW r, r = req[t],
           r.op # "new_alloc", q.row = r.row \/ q.row \in r.list
    PROVE  {q.op, r.op} \in {{"drop_rule", "edit_alloc"}, {"drop_rule", "relink"},
                             {"drop_alloc", "relink"}}
<1>1. RowFits(q) /\ RowFits(r) /\ SendsFit(r) /\ ListOK(t) /\ q.op \in DropOps
    BY Known DEF ListInv, Where
<1>2. r.op \in {"edit_alloc", "relink"} /\ r.list \subseteq Rules /\ r.row \in Allocs
    BY <1>1 DEF ListOK, SendsFit, ListOps, RowFits, AllocOps
<1>3. CASE q.row \in r.list
    <2>1. q.op = "drop_rule"
        BY <1>1, <1>2, <1>3, Names DEF RowFits, DropOps, GateOps, RuleOps, AllocOps
    <2> QED BY <1>2, <2>1
<1>4. CASE q.row = r.row
    <2>1. q.op = "drop_alloc"
        BY <1>1, <1>2, <1>4, Names DEF RowFits, DropOps, GateOps, RuleOps, AllocOps
    <2>2. r.op # "edit_alloc"
        BY <1>1, <1>4, RowsApart DEF LockOps
    <2> QED BY <1>2, <2>1, <2>2
<1> QED BY <1>3, <1>4

\* Two calls that wait for one another do so over list rows: whoever writes what, the only
\* pairs are a delete with a call that lists the row it deletes, and two lists of one
\* allocation, one of them sent alone (update_allocation, which locks no row for it).
THEOREM RuleOnlyListsDeadlock == Spec => []OnlyListsDeadlock
<1>1. RuleInv /\ ListInv /\ HeldInv => OnlyListsDeadlock
    <2> SUFFICES ASSUME RuleInv, ListInv, HeldInv, NEW s \in Sessions, NEW t \in Sessions,
                        WaitsFor(s, t), WaitsFor(t, s)
                 PROVE  {req[s].op, req[t].op} \in
                            {{"drop_rule", "edit_alloc"}, {"drop_rule", "relink"},
                             {"drop_alloc", "relink"}, {"edit_alloc", "relink"}, {"relink"}}
        BY DEF OnlyListsDeadlock
    <2>1. PICK q, r : q = req[s] /\ r = req[t]
        OBVIOUS
    <2>2. s # t /\ at[s] \in {"unlink", "link", "erase"} /\ at[t] \in {"unlink", "link", "erase"}
        BY WhoWaits DEF WaitsFor
    <2>3. \/ at[s] = "erase" /\ at[t] = "link" /\ r.op # "new_alloc"
          \/ at[s] = "link" /\ at[t] = "erase" /\ (r.row = q.row \/ r.row \in q.list)
          \/ at[s] # "erase" /\ at[t] = "link" /\ q.row = r.row /\ r.op # "new_alloc"
        BY <2>1, <2>2, WhatBlocks
    <2>4. \/ at[t] = "erase" /\ at[s] = "link" /\ q.op # "new_alloc"
          \/ at[t] = "link" /\ at[s] = "erase" /\ (q.row = r.row \/ q.row \in r.list)
          \/ at[t] # "erase" /\ at[s] = "link" /\ r.row = q.row /\ q.op # "new_alloc"
        BY <2>1, <2>2, WhatBlocks
    <2>5. CASE at[s] = "erase"
        BY <2>1, <2>2, <2>3, <2>4, <2>5, EraseAndLink
    <2>6. CASE at[t] = "erase"
        <3>1. {r.op, q.op} \in {{"drop_rule", "edit_alloc"}, {"drop_rule", "relink"},
                                {"drop_alloc", "relink"}}
            BY <2>1, <2>2, <2>3, <2>4, <2>6, EraseAndLink
        <3>2. {q.op, r.op} = {r.op, q.op}
            OBVIOUS
        <3> QED BY <2>1, <3>1, <3>2
    <2>7. CASE at[s] # "erase" /\ at[t] # "erase"
        <3>1. at[s] = "link" /\ at[t] = "link" /\ q.row = r.row /\ q.op # "new_alloc" /\ r.op # "new_alloc"
            BY <2>3, <2>4, <2>7
        <3>2. SendsFit(q) /\ SendsFit(r) /\ ListOK(s) /\ ListOK(t)
            BY <2>1, <3>1, Known DEF ListInv
        <3>3. q.op \in {"edit_alloc", "relink"} /\ r.op \in {"edit_alloc", "relink"}
            BY <2>1, <3>1, <3>2 DEF ListOK, SendsFit, ListOps
        <3>4. ~(q.op = "edit_alloc" /\ r.op = "edit_alloc")
            BY <2>1, <2>2, <3>1, RowsApart DEF LockOps
        <3> QED BY <2>1, <3>3, <3>4
    <2> QED BY <2>5, <2>6, <2>7
<1>2. Init => HeldInv
    BY DEF Init, HeldInv, HeldOK
<1>3. Spec => []HeldInv
    BY <1>2, NextHeld, AlwaysList, PTL DEF Spec
<1> QED BY <1>1, <1>3, AlwaysList, PTL
=============================================================================
