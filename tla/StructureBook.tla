---------------------------- MODULE StructureBook ----------------------------
(***************************************************************************)
(* Templates, the structures made from them and the structure the daemon   *)
(* starts with (monitor/reader/template_config_write.py,                   *)
(* strategy_structure_write.py, settings.py; tables of postgres/ddl.py).   *)
(*                                                                         *)
(* A call is one READ COMMITTED transaction, each statement a step. Locks  *)
(* are PostgreSQL's: a DELETE, SELECT FOR UPDATE and an UPDATE of a unique *)
(* column take "update", another UPDATE "write", a foreign key "share" on  *)
(* the row it names. A code that a transaction gives or takes away is      *)
(* locked like a row. What a call writes is seen when it commits.          *)
(***************************************************************************)
EXTENDS Integers

CONSTANTS
    Sessions,       \* callers of the writers
    Templates,      \* ids; one that was deleted is not used again
    Structures,     \* ids; no writer deletes a structure
    Codes,          \* template codes
    LegLists,       \* lists of legs
    NoLegs,         \* the empty one
    Calls,          \* what callers ask for
    None

\* "new_template" and "put_template" send a code; "put_template" is update_template, which
\* reads the row before it writes, "patch_template" writes at once, and so does "put_params",
\* the parameters or the characteristics. "old_drop" is delete_template, "drop"
\* delete_template_strict. A structure names its template by id or
\* by code and is active unless told otherwise.
Requests ==
         [op : {"new_template", "put_template", "patch_template"}, row : Templates, code : Codes]
    \cup [op : {"put_legs"}, row : Templates, legs : LegLists]
    \cup [op : {"put_params", "old_drop", "drop"}, row : Templates]
    \cup [op : {"new_structure", "put_structure"}, row : Structures, of : Templates \cup Codes,
          active : BOOLEAN]
    \cup [op : {"patch_structure"}, row : Structures, active : BOOLEAN]
    \cup [op : {"deactivate"}, row : Structures]
    \cup [op : {"activate"}, row : {"settings"}, structure : Structures \cup {None}]

ASSUME StructureAssumption ==
    /\ NoLegs \in LegLists
    /\ Templates \cap Structures = {} /\ Templates \cap Codes = {} /\ Structures \cap Codes = {}
    /\ {None, "settings"} \cap (Templates \cup Structures \cup Codes) = {}
    /\ Calls \subseteq Requests

VARIABLES
    template,       \* committed strategy_template rows
    structure,      \* committed strategy_structure rows
    active,         \* settings.active_strategy_structure_id
    at, req,        \* each session's step and request
    held,           \* its locks <<row or code, mode>>
    got,            \* what it has read: a template or a code, and the template's legs
    during          \* history: the leg lists each template has had and the structures that
                    \* were activated since its call began

tables == <<template, structure, active>>
vars == <<tables, at, req, held, got, during>>

NoReq == [op |-> "idle", row |-> None]
NoRead == [of |-> None, legs |-> NoLegs]
NoTemplate == [is |-> "none", code |-> None, legs |-> NoLegs]
NoStructure == [is |-> "none", of |-> None, legs |-> NoLegs, active |-> FALSE]
NoHistory == [legs |-> [t \in Templates |-> {}], active |-> {}]
Stands(t) == t \in Templates /\ template[t].is = "there"
Saved(x) == x \in Structures /\ structure[x].is = "there"
There(row) == Stands(row) \/ Saved(row) \/ row = "settings"

TypeOK ==
    /\ template \in [Templates -> [is : {"none", "there", "gone"}, code : Codes \cup {None}, legs : LegLists]]
    /\ structure \in [Structures -> [is : {"none", "there"}, of : Templates \cup {None},
                                     legs : LegLists, active : BOOLEAN]]
    /\ active \in Structures \cup {None}
    /\ at \in [Sessions -> {"idle", "look", "resolve", "legs", "lock", "code", "share", "clear",
                           "check", "erase", "commit"}]
    /\ req \in [Sessions -> Calls \cup {NoReq}]
    /\ held \in [Sessions -> SUBSET ((Templates \cup Structures \cup Codes \cup {None, "settings"})
                                      \X {"share", "write", "update"})]
    /\ got \in [Sessions -> [of : Templates \cup Codes \cup {None}, legs : LegLists]]
    /\ during \in [Sessions -> [legs : [Templates -> SUBSET LegLists], active : SUBSET (Structures \cup {None})]]

Init ==
    /\ template = [t \in Templates |-> NoTemplate]
    /\ structure = [x \in Structures |-> NoStructure]
    /\ active = None
    /\ at = [s \in Sessions |-> "idle"] /\ req = [s \in Sessions |-> NoReq]
    /\ held = [s \in Sessions |-> {}] /\ got = [s \in Sessions |-> NoRead]
    /\ during = [s \in Sessions |-> NoHistory]

-----------------------------------------------------------------------------
(* Locks.                                                                  *)

Excludes(m, n) == "update" \in {m, n} \/ (m = "write" /\ n = "write")

\* Mutant: delete_template_strict selects without FOR UPDATE.
RowModePlain(s) == IF req[s].op = "drop" THEN "share" ELSE "write"

\* A template's code changes, and its old code with it; update_template compares with the
\* code it has read.
Recodes(s) ==
    LET q == req[s]
    IN /\ q.op \in {"put_template", "patch_template"} /\ template[q.row].code # q.code
       /\ q.op = "put_template" => got[s].of # q.code

\* The lock of the row a call selects FOR UPDATE, updates or deletes.
RowMode(s) == IF req[s].op \in {"drop", "old_drop"} \/ Recodes(s) THEN "update" ELSE "write"

\* Mutant: any setting is emptied.
ClearedAny(x) == IF active # None THEN {<<"settings", "write">>} ELSE {}

Cleared(x) == IF active = x THEN {<<"settings", "write">>} ELSE {}

\* The locks a session's next step takes.
Wants(s) ==
    LET q == req[s]
    IN CASE at[s] = "lock" ->
               {<<q.row, RowMode(s)>>} \cup IF Recodes(s) THEN {<<template[q.row].code, "update">>} ELSE {}
         [] at[s] = "code" -> {<<q.code, "update">>}
         [] at[s] = "erase" -> {<<q.row, "update">>, <<template[q.row].code, "update">>}
         [] at[s] = "share" -> {<<got[s].of, "share">>}
         [] at[s] = "clear" -> Cleared(q.row)
         [] OTHER -> {}

Ready(s) ==
    \A t \in Sessions \ {s} : \A w \in Wants(s), h \in held[t] :
        w[1] = h[1] => ~Excludes(w[2], h[2])

Take(s, step) ==
    /\ held' = [held EXCEPT ![s] = @ \cup Wants(s)]
    /\ at' = [at EXCEPT ![s] = step]
    /\ UNCHANGED <<tables, req, during>>

\* The transaction ends and its locks go.
Over(s) ==
    /\ at' = [at EXCEPT ![s] = "idle"] /\ req' = [req EXCEPT ![s] = NoReq]
    /\ held' = [held EXCEPT ![s] = {}] /\ got' = [got EXCEPT ![s] = NoRead]
    /\ during' = [r \in Sessions |->
           IF r = s \/ at[r] = "idle" THEN NoHistory
           ELSE [legs |-> [t \in Templates |-> during[r].legs[t] \cup {template'[t].legs}],
                 active |-> during[r].active \cup ({active'} \ {active})]]

Refused(s) == UNCHANGED tables /\ Over(s)

-----------------------------------------------------------------------------
(* Statements.                                                             *)

FirstStep(op) ==
    CASE op = "new_template" -> "code"
      [] op \in {"put_template", "put_legs", "activate"} -> "look"
      [] op = "old_drop" -> "check"
      [] op \in {"new_structure", "put_structure"} -> "resolve"
      [] OTHER -> "lock"

\* An INSERT draws an id nobody else has.
Begin(s, q) ==
    LET drawn == IF q.row \in Templates THEN template[q.row].is # "none" ELSE q.row = "settings" \/ Saved(q.row)
    IN /\ at[s] = "idle"
       /\ IF q.op \in {"new_template", "new_structure"}
          THEN ~drawn /\ \A t \in Sessions : req[t].row # q.row
          ELSE drawn
       /\ at' = [at EXCEPT ![s] = FirstStep(q.op)] /\ req' = [req EXCEPT ![s] = q]
       /\ during' = [during EXCEPT ![s].legs = [t \in Templates |-> {template[t].legs}]]
       /\ UNCHANGED <<tables, held, got>>

\* The SELECT a writer looks for its row with, without a lock: update_template remembers
\* the code, replace_template_legs and the settings writer only that there is a row.
Look(s) ==
    LET q == req[s]
        row == IF q.op = "activate" THEN q.structure ELSE q.row
    IN /\ at[s] = "look"
       /\ IF row # None /\ ~There(row)
          THEN Refused(s)
          ELSE /\ Take(s, "lock")
               /\ got' = IF q.op = "put_template" THEN [got EXCEPT ![s].of = template[row].code] ELSE got

\* _resolve_template_id, then get_template_legs: two reads, and the legs of a template that
\* went in between are none.
Resolve(s) ==
    LET of == req[s].of
        found == {t \in Templates : Stands(t) /\ of \in {t, template[t].code}}
    IN /\ at[s] = "resolve"
       /\ IF found = {} THEN Refused(s)
          ELSE \E t \in found : Take(s, "legs") /\ got' = [got EXCEPT ![s].of = t]

\* Mutant: the legs of a structure that keeps its template are not read again.
LegsKept(s) ==
    LET x == structure[req[s].row]
        t == got[s].of
    IN IF x.of = t THEN x.legs ELSE template[t].legs

LegsNow(s) == IF Stands(got[s].of) THEN template[got[s].of].legs ELSE NoLegs

ReadLegs(s) ==
    /\ at[s] = "legs"
    /\ Take(s, IF req[s].op = "new_structure" THEN "share" ELSE "lock")
    /\ got' = [got EXCEPT ![s].legs = LegsNow(s)]

\* The UPDATE or SELECT ... FOR UPDATE of the row. Those that looked before write no row
\* when it has gone since, and say they did.
Lock(s) ==
    LET q == req[s]
    IN /\ at[s] = "lock" /\ Ready(s)
       /\ IF ~There(q.row) THEN Refused(s)
          ELSE /\ Take(s, CASE q.op = "drop" -> "check"
                            [] q.op = "put_structure" /\ structure[q.row].of # got[s].of -> "share"
                            [] q.op = "deactivate" -> "clear"
                            [] Recodes(s) -> "code"
                            [] OTHER -> "commit")
               /\ UNCHANGED got

\* The unique index on template_code.
Code(s) ==
    LET c == req[s].code
    IN /\ at[s] = "code" /\ Ready(s)
       /\ IF \E t \in Templates : Stands(t) /\ template[t].code = c
          THEN Refused(s)
          ELSE Take(s, "commit") /\ UNCHANGED got

\* The foreign key of a structure on its template.
Share(s) ==
    /\ at[s] = "share" /\ Ready(s)
    /\ IF ~Stands(got[s].of) THEN Refused(s) ELSE Take(s, "commit") /\ UNCHANGED got

\* deactivate_structure's second UPDATE: only a setting that names the structure is written.
Clear(s) ==
    /\ at[s] = "clear" /\ Ready(s)
    /\ Take(s, "commit") /\ UNCHANGED got

-----------------------------------------------------------------------------
(* Deletes of templates.                                                   *)

UsersOf(t) == {x \in Structures : Saved(x) /\ structure[x].of = t}

\* Structures that use the template refuse the delete, and so does the foreign key.
Check(s) ==
    /\ at[s] = "check"
    /\ IF UsersOf(req[s].row) # {} THEN Refused(s) ELSE Take(s, "erase") /\ UNCHANGED got

Erase(s) ==
    LET t == req[s].row
    IN /\ at[s] = "erase" /\ Ready(s)
       /\ template' = IF UsersOf(t) = {} /\ Stands(t)
                      THEN [template EXCEPT ![t] = [NoTemplate EXCEPT !.is = "gone"]] ELSE template
       /\ UNCHANGED <<structure, active>> /\ Over(s)

-----------------------------------------------------------------------------
(* What is committed.                                                      *)

CommitTemplate(s) ==
    LET q == req[s]
    IN /\ at[s] = "commit" /\ q.op \in {"new_template", "put_template", "patch_template", "put_legs"}
       /\ template' = [template EXCEPT ![q.row] =
              CASE q.op = "new_template" -> [is |-> "there", code |-> q.code, legs |-> NoLegs]
                [] q.op = "put_legs" -> [@ EXCEPT !.legs = q.legs]
                [] q.op = "patch_template" -> [@ EXCEPT !.code = q.code]
                [] q.op = "put_template" -> IF q.code = got[s].of THEN @ ELSE [@ EXCEPT !.code = q.code]]
       /\ UNCHANGED <<structure, active>> /\ Over(s)

\* replace_template_params and replace_template_characteristics; no structure copies what
\* they write.
CommitParams(s) ==
    /\ at[s] = "commit" /\ req[s].op = "put_params"
    /\ UNCHANGED tables /\ Over(s)

CommitStructure(s) ==
    LET q == req[s]
    IN /\ at[s] = "commit" /\ q.row \in Structures
       /\ structure' = [structure EXCEPT ![q.row] =
              CASE q.op \in {"new_structure", "put_structure"} ->
                       [is |-> "there", of |-> got[s].of, legs |-> got[s].legs, active |-> q.active]
                [] q.op = "patch_structure" -> [@ EXCEPT !.active = q.active]
                [] q.op = "deactivate" -> [@ EXCEPT !.active = FALSE]]
       /\ active' = IF q.op = "deactivate" /\ <<"settings", "write">> \in held[s] THEN None ELSE active
       /\ UNCHANGED template /\ Over(s)

\* write_active_strategy_and_gates; it does not ask whether the structure is active.
CommitActive(s) ==
    /\ at[s] = "commit" /\ req[s].op = "activate"
    /\ active' = req[s].structure
    /\ UNCHANGED <<template, structure>> /\ Over(s)

\* A statement fails, the caller dies, or the server ends a deadlock.
Fail(s) == at[s] # "idle" /\ Refused(s)

Step(s) ==
    \/ Look(s) \/ Resolve(s) \/ ReadLegs(s) \/ Lock(s) \/ Code(s) \/ Share(s) \/ Clear(s)
    \/ Check(s) \/ Erase(s)
    \/ CommitTemplate(s) \/ CommitParams(s) \/ CommitStructure(s) \/ CommitActive(s)

Next == \E s \in Sessions : Step(s) \/ Fail(s) \/ \E q \in Calls : Begin(s, q)

Spec == Init /\ [][Next]_vars

-----------------------------------------------------------------------------
(* Properties.                                                             *)

\* A structure that is saved has legs its template had while it was saved: not those of
\* the template it had before, not those it was made with, whatever other callers do to
\* the templates meanwhile (strategy_structure_write.create_structure, update_structure).
LegsAreTheTemplates ==
    [][\A x \in Structures : structure'[x] # structure[x] =>
           \E s \in Sessions :
               /\ at[s] = "commit" /\ req[s].row = x /\ at'[s] = "idle"
               /\ IF req[s].op \in {"new_structure", "put_structure"}
                  THEN structure'[x].legs \in during[s].legs[structure'[x].of]
                  ELSE structure'[x] = [structure[x] EXCEPT !.active = structure'[x].active]
      ]_vars

\* A structure that was deactivated is not the one the daemon starts with unless a caller
\* activated it meanwhile, and no other structure loses its place
\* (strategy_structure_write.deactivate_structure).
DeactivatedIsNotStarted ==
    [][\A s \in Sessions :
           LET x == req[s].row
           IN at[s] = "commit" /\ req[s].op = "deactivate" /\ structure'[x] # structure[x] =>
                  /\ active' = x => x \in during[s].active
                  /\ active # x => active' = active
      ]_vars

\* "Hard-delete a template no structure uses": once delete_template_strict has found no
\* structure, none comes to use the template, so nothing but its own answer refuses the
\* delete (template_config_write.delete_template_strict).
UsersAreNamed ==
    \A s \in Sessions : at[s] = "erase" /\ req[s].op = "drop" => UsersOf(req[s].row) = {}
=============================================================================
