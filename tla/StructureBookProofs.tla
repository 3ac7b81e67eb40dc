------------------------- MODULE StructureBookProofs -------------------------
(***************************************************************************)
(* Proofs about StructureBook, for every set of sessions, templates,       *)
(* structures, codes, leg lists and calls. A session keeps its place by    *)
(* the locks it has taken (Locks, with Mutex), so what it has read (Reads, *)
(* Rows) is still so when it commits.                                      *)
(***************************************************************************)
EXTENDS StructureBook, TLAPS

Saves == {"new_structure", "put_structure"}
Rewrites == {"put_structure", "patch_structure", "deactivate"}

\* Where the calls of each kind can be, and that an idle session holds nothing.
Steps(s) ==
    /\ IF at[s] = "idle" THEN req[s] = NoReq /\ held[s] = {} ELSE req[s] \in Calls
    /\ at[s] = "look" => req[s].op \in {"put_template", "put_legs", "activate"}
    /\ at[s] \in {"resolve", "legs", "share"} => req[s].op \in Saves
    /\ at[s] = "lock" => req[s].op \notin {"new_template", "new_structure", "old_drop"}
    /\ at[s] = "code" => req[s].op \in {"new_template", "put_template", "patch_template"}
    /\ at[s] = "clear" => req[s].op = "deactivate"
    /\ at[s] \in {"check", "erase"} => req[s].op \in {"drop", "old_drop"}

\* What a session holds at each step.
Locks(s) ==
    /\ at[s] \in {"look", "resolve", "legs", "lock"} => held[s] = {}
    /\ req[s].op = "drop" /\ at[s] \in {"check", "erase"} => <<req[s].row, "update">> \in held[s]
    /\ req[s].op \in Rewrites /\ at[s] \in {"share", "clear", "commit"}
           => <<req[s].row, "write">> \in held[s]
    /\ req[s].op = "activate" /\ at[s] = "commit" => <<"settings", "write">> \in held[s]
    /\ at[s] = "clear" => <<"settings", "write">> \notin held[s]

\* The template a structure is saved with, and its legs.
Reads(s) ==
    /\ req[s].op \in Saves /\ at[s] \in {"legs", "lock", "share", "commit"}
           => got[s].of \in Templates
    /\ req[s].op \in Saves /\ at[s] \in {"lock", "share", "commit"}
           => got[s].legs \in during[s].legs[got[s].of]
    /\ req[s].op \in Saves /\ at[s] = "commit" =>
           \/ <<got[s].of, "share">> \in held[s]
           \/ Saved(req[s].row) /\ structure[req[s].row].of = got[s].of
    /\ at[s] # "idle" => \A t \in Templates : template[t].legs \in during[s].legs[t]

\* A structure to be made is nobody else's; what is to be written is there.
Rows(s) ==
    /\ at[s] # "idle" /\ req[s].op = "new_structure" =>
           ~Saved(req[s].row) /\ \A r \in Sessions \ {s} : req[r].row # req[s].row
    /\ at[s] # "idle" /\ req[s].op \in Rewrites => Saved(req[s].row)
    /\ at[s] = "commit" /\ req[s].op = "put_legs" =>
           Stands(req[s].row) /\ <<req[s].row, "write">> \in held[s]

\* A setting locked to be emptied names the structure; one that was not locked has named
\* it only since.
Setting(s) ==
    at[s] = "commit" /\ req[s].op = "deactivate" =>
        IF <<"settings", "write">> \in held[s] THEN active = req[s].row
        ELSE active = req[s].row => active \in during[s].active

Unused(s) == at[s] = "erase" /\ req[s].op = "drop" => UsersOf(req[s].row) = {}

SessionOK(s) == Steps(s) /\ Locks(s) /\ Reads(s) /\ Rows(s) /\ Setting(s) /\ Unused(s)

\* No two sessions hold locks that exclude one another.
Mutex ==
    \A r, s \in Sessions : r # s =>
        \A h \in held[r], k \in held[s] : h[1] = k[1] => ~Excludes(h[2], k[2])

\* A template that is not there has no legs.
Bare == \A t \in Templates : template[t].is # "there" => template[t].legs = NoLegs

StructureInv == TypeOK /\ Bare /\ Mutex /\ \A s \in Sessions : SessionOK(s)

-----------------------------------------------------------------------------
(* Requests, and the two kinds of steps.                                   *)

\* A request names what its operation needs.
LEMMA RequestFields ==
    ASSUME StructureAssumption, NEW q \in Calls
    PROVE  /\ q.op \in {"new_template", "put_template", "patch_template", "put_legs", "put_params",
                        "old_drop", "drop"} => q.row \in Templates
           /\ q.op \in {"new_template", "put_template", "patch_template"} => q.code \in Codes
           /\ q.op = "put_legs" => q.legs \in LegLists
           /\ q.op \in Saves \cup Rewrites => q.row \in Structures
           /\ q.op \in Saves => q.of \in Templates \cup Codes /\ q.active \in BOOLEAN
           /\ q.op = "patch_structure" => q.active \in BOOLEAN
           /\ q.op = "activate" => q.row = "settings" /\ q.structure \in Structures \cup {None}
           /\ q.op \in {"new_template", "put_template", "patch_template", "put_legs", "put_params",
                        "old_drop", "drop", "activate"} \cup Saves \cup Rewrites
BY DEF StructureAssumption, Requests, Saves, Rewrites

\* The session that takes a step keeps the others where they are, and goes on in its call.
Moves(s) ==
    /\ UNCHANGED <<template, structure, active, req, during>>
    /\ at[s] # "idle" /\ at'[s] # "idle"
    /\ Ready(s)
    /\ held' = [held EXCEPT ![s] = @ \cup Wants(s)]
    /\ \A r \in Sessions \ {s} : at'[r] = at[r] /\ got'[r] = got[r]

\* Its call is over.
Ends(s) ==
    /\ at[s] # "idle" /\ Over(s)

\* Of the locks that a step takes only those of five steps are any.
LEMMA NoWants ==
    ASSUME NEW s \in Sessions, at[s] \in {"look", "resolve", "legs", "check"}
    PROVE  Wants(s) = {} /\ Ready(s)
BY DEF Wants, Ready

LEMMA MoveOrEnd ==
    ASSUME TypeOK, NEW s \in Sessions, Step(s) \/ Fail(s)
    PROVE  Moves(s) \/ Ends(s)
<1> USE DEF TypeOK
<1>1. ASSUME NEW step, Take(s, step), step # "idle", Ready(s), at[s] # "idle",
             \/ UNCHANGED got
             \/ \E v : got' = [got EXCEPT ![s] = v]
             \/ \E v : got' = [got EXCEPT ![s].of = v]
             \/ \E v : got' = [got EXCEPT ![s].legs = v]
      PROVE  Moves(s)
  BY <1>1 DEF Take, Moves, tables
<1>2. CASE Look(s)
  <2>1. CASE Refused(s)
    BY <1>2, <2>1 DEF Look, Refused, Ends
  <2>2. CASE ~Refused(s)
    BY <1>1, <1>2, <2>2, NoWants DEF Look
  <2> QED BY <2>1, <2>2
<1>3. CASE Resolve(s)
  <2>1. CASE Refused(s)
    BY <1>3, <2>1 DEF Resolve, Refused, Ends
  <2>2. CASE ~Refused(s)
    BY <1>1, <1>3, <2>2, NoWants DEF Resolve
  <2> QED BY <2>1, <2>2
<1>4. CASE ReadLegs(s)
  <2>1. CASE req[s].op = "new_structure"
    BY <1>1, <1>4, <2>1, NoWants DEF ReadLegs
  <2>2. CASE req[s].op # "new_structure"
    BY <1>1, <1>4, <2>2, NoWants DEF ReadLegs
  <2> QED BY <2>1, <2>2
<1>5. CASE Lock(s)
  <2>1. CASE Refused(s)
    BY <1>5, <2>1 DEF Lock, Refused, Ends
  <2>2. CASE ~Refused(s)
    <3>1. PICK step \in {"check", "share", "clear", "code", "commit"} : Take(s, step) /\ UNCHANGED got
      BY <1>5, <2>2 DEF Lock
    <3> QED BY <1>1, <1>5, <3>1 DEF Lock
  <2> QED BY <2>1, <2>2
<1>6. CASE Code(s)
  BY <1>1, <1>6 DEF Code, Refused, Ends
<1>7. CASE Share(s)
  BY <1>1, <1>7 DEF Share, Refused, Ends
<1>8. CASE Clear(s)
  BY <1>1, <1>8 DEF Clear
<1>9. CASE Check(s)
  BY <1>1, <1>9, NoWants DEF Check, Refused, Ends
<1>10. CASE Erase(s)
  BY <1>10 DEF Erase, Ends
<1>11. CASE CommitTemplate(s)
  BY <1>11 DEF CommitTemplate, Ends
<1>12. CASE CommitParams(s)
  BY <1>12 DEF CommitParams, Ends
<1>13. CASE CommitStructure(s)
  BY <1>13 DEF CommitStructure, Ends
<1>14. CASE CommitActive(s)
  BY <1>14 DEF CommitActive, Ends
<1>15. CASE Fail(s)
  BY <1>15 DEF Fail, Refused, Ends
<1> QED
  BY <1>2, <1>3, <1>4, <1>5, <1>6, <1>7, <1>8, <1>9, <1>10, <1>11, <1>12, <1>13, <1>14, <1>15
  DEF Step

-----------------------------------------------------------------------------
(* Types.                                                                  *)

LEMMA WantsTyped ==
    ASSUME StructureAssumption, TypeOK, NEW s \in Sessions, Steps(s), at[s] \notin {"idle", "erase"}
    PROVE  Wants(s) \in SUBSET ((Templates \cup Structures \cup Codes \cup {None, "settings"})
                                \X {"share", "write", "update"})
<1>1. req[s] \in Calls
  BY DEF Steps
<1>2. req[s].row \in Templates \cup Structures \cup {"settings"}
  BY <1>1, RequestFields DEF Saves, Rewrites
<1>3. Recodes(s) => req[s].row \in Templates
  BY <1>1, RequestFields DEF Recodes
<1>4. \A t \in Templates : template[t].code \in Codes \cup {None}
  BY DEF TypeOK
<1>5. CASE at[s] = "lock"
  <2>1. CASE Recodes(s)
    BY <1>2, <1>3, <1>4, <1>5, <2>1 DEF Wants, RowMode
  <2>2. CASE ~Recodes(s)
    BY <1>2, <1>5, <2>2 DEF Wants, RowMode
  <2> QED BY <2>1, <2>2
<1>6. CASE at[s] = "code"
  <2>1. req[s].code \in Codes
    BY <1>1, <1>6, RequestFields DEF Steps
  <2> QED BY <1>6, <2>1 DEF Wants
<1>7. CASE at[s] = "share"
  BY <1>7 DEF Wants, TypeOK
<1>8. CASE at[s] = "clear"
  BY <1>8 DEF Wants, Cleared
<1>9. CASE at[s] \notin {"lock", "code", "share", "clear"}
  BY <1>9 DEF Wants
<1> QED BY <1>5, <1>6, <1>7, <1>8, <1>9

LEMMA OverTyped ==
    ASSUME StructureAssumption, TypeOK, NEW s \in Sessions, Over(s),
           template' \in [Templates -> [is : {"none", "there", "gone"}, code : Codes \cup {None}, legs : LegLists]],
           structure' \in [Structures -> [is : {"none", "there"}, of : Templates \cup {None},
                                          legs : LegLists, active : BOOLEAN]],
           active' \in Structures \cup {None}
    PROVE  TypeOK'
<1>1. NoHistory \in [legs : [Templates -> SUBSET LegLists], active : SUBSET (Structures \cup {None})]
  BY DEF NoHistory
<1>2. ASSUME NEW r \in Sessions
      PROVE  [legs |-> [t \in Templates |-> during[r].legs[t] \cup {template'[t].legs}],
              active |-> during[r].active \cup ({active'} \ {active})]
             \in [legs : [Templates -> SUBSET LegLists], active : SUBSET (Structures \cup {None})]
  BY DEF TypeOK
<1>3. during' \in [Sessions -> [legs : [Templates -> SUBSET LegLists], active : SUBSET (Structures \cup {None})]]
  BY <1>1, <1>2 DEF Over
<1>4. NoRead \in [of : Templates \cup Codes \cup {None}, legs : LegLists]
  BY DEF NoRead, StructureAssumption
<1>5. /\ at' = [at EXCEPT ![s] = "idle"] /\ req' = [req EXCEPT ![s] = NoReq]
      /\ held' = [held EXCEPT ![s] = {}] /\ got' = [got EXCEPT ![s] = NoRead]
  BY DEF Over
<1> QED
  BY <1>3, <1>4, <1>5 DEF TypeOK

LEMMA TakeTyped ==
    ASSUME StructureAssumption, TypeOK, NEW s \in Sessions, Steps(s), at[s] \notin {"idle", "erase"},
           NEW step \in {"look", "resolve", "legs", "lock", "code", "share", "clear", "check",
                         "erase", "commit"},
           Take(s, step),
           \/ UNCHANGED got
           \/ \E v \in Templates \cup Codes \cup {None} : got' = [got EXCEPT ![s].of = v]
           \/ \E v \in LegLists : got' = [got EXCEPT ![s].legs = v]
    PROVE  TypeOK'
<1>1. at' \in [Sessions -> {"idle", "look", "resolve", "legs", "lock", "code", "share", "clear",
                            "check", "erase", "commit"}]
  BY DEF TypeOK, Take
<1>2. held' \in [Sessions -> SUBSET ((Templates \cup Structures \cup Codes \cup {None, "settings"})
                                     \X {"share", "write", "update"})]
  BY WantsTyped DEF TypeOK, Take
<1>3. got' \in [Sessions -> [of : Templates \cup Codes \cup {None}, legs : LegLists]]
  <2>1. CASE UNCHANGED got
    BY <2>1 DEF TypeOK
  <2>2. got \in [Sessions -> [of : Templates \cup Codes \cup {None}, legs : LegLists]]
    BY DEF TypeOK
  <2>3. CASE \E v \in Templates \cup Codes \cup {None} : got' = [got EXCEPT ![s].of = v]
    BY <2>2, <2>3
  <2>4. CASE \E v \in LegLists : got' = [got EXCEPT ![s].legs = v]
    BY <2>2, <2>4
  <2> QED BY <2>1, <2>3, <2>4
<1> QED
  BY <1>1, <1>2, <1>3 DEF TypeOK, Take, tables

LEMMA RefusedTyped ==
    ASSUME StructureAssumption, TypeOK, NEW s \in Sessions, Refused(s)
    PROVE  TypeOK'
BY OverTyped DEF Refused, TypeOK, tables

LEMMA TypesStep ==
    ASSUME StructureAssumption, StructureInv, [Next]_vars
    PROVE  TypeOK'
<1> USE DEF StructureInv
<1>1. CASE UNCHANGED vars
  BY <1>1 DEF vars, tables, TypeOK
<1>2. ASSUME NEW s \in Sessions, NEW q \in Calls, Begin(s, q)
      PROVE  TypeOK'
  <2>1. FirstStep(q.op) \in {"look", "resolve", "legs", "lock", "code", "share", "clear", "check",
                             "erase", "commit"}
    BY DEF FirstStep
  <2>2. /\ at' = [at EXCEPT ![s] = FirstStep(q.op)] /\ req' = [req EXCEPT ![s] = q]
        /\ UNCHANGED <<tables, held, got>>
    BY <1>2 DEF Begin
  <2>3. during' = [during EXCEPT ![s].legs = [t \in Templates |-> {template[t].legs}]]
    BY <1>2 DEF Begin
  <2>4. [t \in Templates |-> {template[t].legs}] \in [Templates -> SUBSET LegLists]
    BY DEF TypeOK
  <2>5. during \in [Sessions -> [legs : [Templates -> SUBSET LegLists],
                                 active : SUBSET (Structures \cup {None})]]
    BY DEF TypeOK
  <2>6. during' \in [Sessions -> [legs : [Templates -> SUBSET LegLists],
                                  active : SUBSET (Structures \cup {None})]]
    BY <2>3, <2>4, <2>5
  <2> QED BY <2>1, <2>2, <2>6 DEF TypeOK, tables
<1>3. ASSUME NEW s \in Sessions, Fail(s)
      PROVE  TypeOK'
  BY <1>3, RefusedTyped DEF Fail
<1>4. ASSUME NEW s \in Sessions, Step(s)
      PROVE  TypeOK'
  <2>1. Steps(s)
    BY DEF SessionOK
  <2>2. CASE Refused(s)
    BY <2>2, RefusedTyped
  <2>3. CASE Look(s) /\ ~Refused(s)
    <3>1. /\ at[s] = "look" /\ Take(s, "lock")
          /\ got' = IF req[s].op = "put_template" THEN [got EXCEPT ![s].of = template[req[s].row].code] ELSE got
      BY <2>3 DEF Look
    <3>2. req[s].op = "put_template" => template[req[s].row].code \in Templates \cup Codes \cup {None}
      BY <2>1, <3>1, RequestFields DEF Steps, TypeOK
    <3> QED BY <2>1, <3>1, <3>2, TakeTyped
  <2>4. CASE Resolve(s) /\ ~Refused(s)
    <3>1. PICK t \in Templates : Take(s, "legs") /\ got' = [got EXCEPT ![s].of = t]
      BY <2>4 DEF Resolve
    <3> QED BY <2>1, <2>4, <3>1, TakeTyped DEF Resolve
  <2>5. CASE ReadLegs(s)
    <3>1. LegsNow(s) \in LegLists
      BY DEF LegsNow, Stands, TypeOK, StructureAssumption
    <3>2. /\ at[s] = "legs" /\ Take(s, IF req[s].op = "new_structure" THEN "share" ELSE "lock")
          /\ got' = [got EXCEPT ![s].legs = LegsNow(s)]
      BY <2>5 DEF ReadLegs
    <3> QED BY <2>1, <3>1, <3>2, TakeTyped
  <2>6. CASE Lock(s) /\ ~Refused(s)
    <3>1. PICK step \in {"check", "share", "clear", "code", "commit"} : Take(s, step) /\ UNCHANGED got
      BY <2>6 DEF Lock
    <3> QED BY <2>1, <2>6, <3>1, TakeTyped DEF Lock
  <2>7. CASE Code(s) /\ ~Refused(s)
    BY <2>1, <2>7, TakeTyped DEF Code
  <2>8. CASE Share(s) /\ ~Refused(s)
    BY <2>1, <2>8, TakeTyped DEF Share
  <2>9. CASE Clear(s)
    BY <2>1, <2>9, TakeTyped DEF Clear
  <2>10. CASE Check(s) /\ ~Refused(s)
    BY <2>1, <2>10, TakeTyped DEF Check
  <2>11. CASE Erase(s)
    <3>1. req[s].row \in Templates
      BY <2>1, <2>11, RequestFields DEF Steps, Erase
    <3>2. template' \in [Templates -> [is : {"none", "there", "gone"}, code : Codes \cup {None}, legs : LegLists]]
      BY <2>11, <3>1 DEF Erase, TypeOK, NoTemplate, StructureAssumption
    <3> QED BY <2>11, <3>2, OverTyped DEF Erase, TypeOK
  <2>12. CASE CommitTemplate(s)
    <3>1. req[s] \in Calls /\ req[s].row \in Templates
      BY <2>1, <2>12, RequestFields DEF Steps, CommitTemplate
    <3> DEFINE Row == [is : {"none", "there", "gone"}, code : Codes \cup {None}, legs : LegLists]
    <3>2. template \in [Templates -> Row]
      BY DEF TypeOK
    <3>3. template' \in [Templates -> Row]
      <4>1. CASE req[s].op = "new_template"
        <5>1. template' = [template EXCEPT ![req[s].row] = [is |-> "there", code |-> req[s].code, legs |-> NoLegs]]
          BY <2>12, <4>1 DEF CommitTemplate
        <5>2. req[s].code \in Codes
          BY <3>1, <4>1, RequestFields
        <5> QED BY <3>1, <5>1, <5>2 DEF TypeOK, StructureAssumption
      <4>2. CASE req[s].op = "put_legs"
        <5>1. template' = [template EXCEPT ![req[s].row] = [@ EXCEPT !.legs = req[s].legs]]
          BY <2>12, <4>2 DEF CommitTemplate
        <5>2. req[s].legs \in LegLists
          BY <3>1, <4>2, RequestFields
        <5> QED BY <3>1, <3>2, <5>1, <5>2
      <4>3. CASE req[s].op = "patch_template"
        <5>1. template' = [template EXCEPT ![req[s].row] = [@ EXCEPT !.code = req[s].code]]
          BY <2>12, <4>3 DEF CommitTemplate
        <5>2. req[s].code \in Codes
          BY <3>1, <4>3, RequestFields
        <5> QED BY <3>1, <3>2, <5>1, <5>2
      <4>4. CASE req[s].op = "put_template"
        <5>1. template' = [template EXCEPT ![req[s].row] =
                               IF req[s].code = got[s].of THEN @ ELSE [@ EXCEPT !.code = req[s].code]]
          BY <2>12, <4>4 DEF CommitTemplate
        <5>2. req[s].code \in Codes
          BY <3>1, <4>4, RequestFields
        <5> QED BY <3>1, <3>2, <5>1, <5>2
      <4> QED BY <2>12, <4>1, <4>2, <4>3, <4>4 DEF CommitTemplate
    <3> HIDE DEF Row
    <3> QED BY <2>12, <3>3, OverTyped DEF CommitTemplate, TypeOK, Row
  <2>13. CASE CommitParams(s)
    BY <2>13, RefusedTyped DEF CommitParams, Refused
  <2>14. CASE CommitStructure(s)
    <3>1. req[s] \in Calls /\ req[s].row \in Structures
      BY <2>1, <2>14 DEF Steps, CommitStructure
    <3>2. req[s].op \in Saves \cup Rewrites
      BY <3>1, RequestFields DEF StructureAssumption
    <3> DEFINE Row == [is : {"none", "there"}, of : Templates \cup {None}, legs : LegLists, active : BOOLEAN]
    <3>6. structure \in [Structures -> Row]
      BY DEF TypeOK
    <3>3. structure' \in [Structures -> Row]
      <4>1. CASE req[s].op \in Saves
        <5>1. structure' = [structure EXCEPT ![req[s].row] =
                  [is |-> "there", of |-> got[s].of, legs |-> got[s].legs, active |-> req[s].active]]
          BY <2>14, <4>1 DEF CommitStructure, Saves
        <5>2. got[s].of \in Templates /\ got[s].legs \in LegLists /\ req[s].active \in BOOLEAN
          BY <2>14, <3>1, <4>1, RequestFields DEF SessionOK, Reads, TypeOK, CommitStructure
        <5> QED BY <3>1, <3>6, <5>1, <5>2
      <4>2. CASE req[s].op = "patch_structure"
        <5>1. structure' = [structure EXCEPT ![req[s].row] = [@ EXCEPT !.active = req[s].active]]
          BY <2>14, <4>2 DEF CommitStructure
        <5>2. req[s].active \in BOOLEAN
          BY <3>1, <4>2, RequestFields
        <5> QED BY <3>1, <3>6, <5>1, <5>2
      <4>3. CASE req[s].op = "deactivate"
        <5>1. structure' = [structure EXCEPT ![req[s].row] = [@ EXCEPT !.active = FALSE]]
          BY <2>14, <4>3 DEF CommitStructure
        <5> QED BY <3>1, <3>6, <5>1, ZenonT(30)
      <4> QED BY <3>2, <4>1, <4>2, <4>3 DEF Saves, Rewrites
    <3>4. active' \in Structures \cup {None}
      BY <2>14 DEF CommitStructure, TypeOK
    <3>5. template' \in [Templates -> [is : {"none", "there", "gone"}, code : Codes \cup {None}, legs : LegLists]]
      BY <2>14 DEF CommitStructure, TypeOK
    <3> HIDE DEF Row
    <3> QED BY <2>14, <3>3, <3>4, <3>5, OverTyped DEF CommitStructure, Row
  <2>15. CASE CommitActive(s)
    <3>1. active' \in Structures \cup {None}
      BY <2>1, <2>15, RequestFields DEF Steps, CommitActive
    <3> QED BY <2>15, <3>1, OverTyped DEF CommitActive, TypeOK
  <2> QED
    BY <1>4, <2>2, <2>3, <2>4, <2>5, <2>6, <2>7, <2>8, <2>9, <2>10, <2>11, <2>12, <2>13, <2>14, <2>15
    DEF Step
<1> QED
  BY <1>1, <1>2, <1>3, <1>4 DEF Next

-----------------------------------------------------------------------------
(* Locks, and templates that are not there.                                *)

LEMMA MutexStep ==
    ASSUME StructureInv, [Next]_vars
    PROVE  Mutex'
<1>1. ASSUME NEW s \in Sessions, Moves(s)
      PROVE  Mutex'
  <2>1. ASSUME NEW r \in Sessions \ {s}
        PROVE  held'[r] = held[r] /\ held'[s] = held[s] \cup Wants(s)
    BY <1>1 DEF Moves, StructureInv, TypeOK
  <2>2. ASSUME NEW r \in Sessions \ {s}, NEW w \in held'[s], NEW h \in held'[r], w[1] = h[1]
        PROVE  ~Excludes(w[2], h[2]) /\ ~Excludes(h[2], w[2])
    BY <1>1, <2>1, <2>2 DEF Moves, Ready, StructureInv, Mutex, Excludes
  <2> QED BY <2>1, <2>2 DEF Mutex, StructureInv
<1>2. ASSUME NEW s \in Sessions, Ends(s)
      PROVE  Mutex'
  BY <1>2 DEF Ends, Over, StructureInv, Mutex, TypeOK
<1>3. ASSUME NEW s \in Sessions, NEW q \in Calls, Begin(s, q)
      PROVE  Mutex'
  BY <1>3 DEF Begin, StructureInv, Mutex
<1>4. CASE UNCHANGED vars
  BY <1>4 DEF vars, StructureInv, Mutex
<1> QED BY <1>1, <1>2, <1>3, <1>4, MoveOrEnd DEF Next, StructureInv

LEMMA BareStep ==
    ASSUME StructureAssumption, StructureInv, [Next]_vars
    PROVE  Bare'
<1>1. CASE UNCHANGED template
  BY <1>1 DEF StructureInv, Bare
<1>2. ASSUME NEW s \in Sessions, Erase(s)
      PROVE  Bare'
  BY <1>2 DEF Erase, StructureInv, Bare, TypeOK, NoTemplate
<1>3. ASSUME NEW s \in Sessions, CommitTemplate(s)
      PROVE  Bare'
  <2>1. /\ req[s] \in Calls /\ req[s].row \in Templates
        /\ template \in [Templates -> [is : {"none", "there", "gone"}, code : Codes \cup {None}, legs : LegLists]]
    BY <1>3, RequestFields DEF StructureInv, SessionOK, Steps, CommitTemplate, TypeOK
  <2>2. CASE req[s].op = "new_template"
    <3>1. template' = [template EXCEPT ![req[s].row] = [is |-> "there", code |-> req[s].code, legs |-> NoLegs]]
      BY <1>3, <2>2 DEF CommitTemplate
    <3> QED BY <2>1, <3>1 DEF StructureInv, Bare
  <2>3. CASE req[s].op = "put_legs"
    <3>1. template' = [template EXCEPT ![req[s].row] = [@ EXCEPT !.legs = req[s].legs]]
      BY <1>3, <2>3 DEF CommitTemplate
    <3>2. template[req[s].row].is = "there"
      BY <1>3, <2>3 DEF StructureInv, SessionOK, Rows, CommitTemplate, Stands
    <3> QED BY <2>1, <3>1, <3>2 DEF StructureInv, Bare
  <2>4. CASE req[s].op \in {"put_template", "patch_template"}
    <3>1. \A t \in Templates : template'[t].is = template[t].is /\ template'[t].legs = template[t].legs
      <4>1. CASE req[s].op = "patch_template"
        BY <1>3, <2>1, <4>1 DEF CommitTemplate
      <4>2. CASE req[s].op = "put_template"
        BY <1>3, <2>1, <4>2 DEF CommitTemplate
      <4> QED BY <2>4, <4>1, <4>2
    <3> QED BY <3>1 DEF StructureInv, Bare
  <2> QED BY <1>3, <2>2, <2>3, <2>4 DEF CommitTemplate
<1>4. ASSUME NEW s \in Sessions, Step(s) \/ Fail(s), ~Erase(s), ~CommitTemplate(s)
      PROVE  UNCHANGED template
  BY <1>4 DEF Step, Fail, Look, Resolve, ReadLegs, Lock, Code, Share, Clear, Check, CommitParams,
              CommitStructure, CommitActive, Refused, Take, tables
<1>5. ASSUME NEW s \in Sessions, NEW q \in Calls, Begin(s, q)
      PROVE  UNCHANGED template
  BY <1>5 DEF Begin, tables
<1> QED BY <1>1, <1>2, <1>3, <1>4, <1>5 DEF Next, vars, tables

-----------------------------------------------------------------------------
(* What each session knows.                                                *)

LEMMA BeginKeeps ==
    ASSUME StructureAssumption, StructureInv, NEW s \in Sessions, NEW q \in Calls, Begin(s, q)
    PROVE  \A r \in Sessions : SessionOK(r)'
<1> USE DEF StructureInv
<1>1. /\ at[s] = "idle" /\ at' = [at EXCEPT ![s] = FirstStep(q.op)] /\ req' = [req EXCEPT ![s] = q]
      /\ UNCHANGED <<template, structure, active, held, got>>
      /\ during' = [during EXCEPT ![s].legs = [t \in Templates |-> {template[t].legs}]]
  BY DEF Begin, tables
<1>2. /\ at \in [Sessions -> {"idle", "look", "resolve", "legs", "lock", "code", "share", "clear",
                              "check", "erase", "commit"}]
      /\ req \in [Sessions -> Calls \cup {NoReq}]
      /\ during \in [Sessions -> [legs : [Templates -> SUBSET LegLists],
                                  active : SUBSET (Structures \cup {None})]]
  BY DEF TypeOK
<1>3. /\ q.op \in {"new_structure", "new_template"} =>
             /\ q.row \in Structures => ~Saved(q.row)
             /\ \A t \in Sessions : req[t].row # q.row
      /\ q.op \notin {"new_structure", "new_template"} /\ q.row \in Structures => Saved(q.row)
  <2>1. Structures \cap Templates = {}
    BY DEF StructureAssumption
  <2>2. q.row = "settings" => q.row \notin Structures
    BY DEF StructureAssumption
  <2> QED BY <2>1, <2>2 DEF Begin
<1>4. ASSUME NEW r \in Sessions, r # s
      PROVE  SessionOK(r)'
  <2>1. /\ at'[r] = at[r] /\ req'[r] = req[r] /\ during'[r] = during[r] /\ req'[s] = q
        /\ \A t \in Sessions \ {s} : req'[t] = req[t]
    BY <1>1, <1>2, <1>4
  <2>2. SessionOK(r)
    OBVIOUS
  <2>3. (Steps(r) /\ Locks(r) /\ Reads(r) /\ Setting(r) /\ Unused(r))'
    BY <1>1, <2>1, <2>2 DEF SessionOK, Steps, Locks, Reads, Setting, Unused, UsersOf, Saved
  <2>4. at[r] # "idle" /\ req[r].op = "new_structure" => q.row # req[r].row
    BY <1>3, <2>2, RequestFields DEF SessionOK, Steps, Rows, Saves
  <2>5. Rows(r)'
    BY <1>1, <2>1, <2>2, <2>4 DEF SessionOK, Rows, Saved, Stands
  <2> QED BY <2>3, <2>5 DEF SessionOK
<1>5. SessionOK(s)'
  <2>1. /\ at'[s] = FirstStep(q.op) /\ req'[s] = q /\ held'[s] = {}
        /\ \A t \in Sessions \ {s} : req'[t] = req[t]
    BY <1>1, <1>2 DEF SessionOK, Steps
  <2>2. \A t \in Templates : template'[t].legs \in during'[s].legs[t]
    BY <1>1, <1>2
  <2>3. /\ at'[s] \notin {"idle", "legs", "share", "clear", "erase", "commit"}
        /\ at'[s] = "check" => q.op = "old_drop"
        /\ at'[s] = "code" => q.op = "new_template"
        /\ at'[s] = "look" => q.op \in {"put_template", "put_legs", "activate"}
        /\ at'[s] = "resolve" => q.op \in Saves
        /\ at'[s] = "lock" => q.op \notin Saves \cup {"new_template", "old_drop"}
    BY <2>1 DEF FirstStep, Saves
  <2>4. Steps(s)' /\ Locks(s)'
    BY <2>1, <2>3 DEF Steps, Locks, Saves
  <2>5. Reads(s)' /\ Setting(s)' /\ Unused(s)'
    BY <2>1, <2>2, <2>3 DEF Reads, Setting, Unused
  <2>6. Rows(s)'
    <3>1. q.op \in Saves \cup Rewrites => q.row \in Structures
      BY RequestFields
    <3> QED BY <1>1, <1>3, <2>1, <2>3, <3>1 DEF Rows, Saved, Saves, Rewrites
  <2> QED BY <2>4, <2>5, <2>6 DEF SessionOK
<1> QED BY <1>4, <1>5

LEMMA MoveKeepsOthers ==
    ASSUME StructureInv, NEW s \in Sessions, Moves(s), NEW r \in Sessions, r # s
    PROVE  SessionOK(r)'
<1>1. /\ UNCHANGED <<template, structure, active, req, during>>
      /\ at'[r] = at[r] /\ got'[r] = got[r] /\ held'[r] = held[r]
  BY DEF Moves, StructureInv, TypeOK
<1>2. SessionOK(r)
  BY DEF StructureInv
<1>3. (Steps(r) /\ Locks(r))'
  BY <1>1, <1>2 DEF SessionOK, Steps, Locks
<1>4. (Reads(r) /\ Setting(r) /\ Unused(r))'
  BY <1>1, <1>2 DEF SessionOK, Reads, Setting, Unused, UsersOf, Saved
<1>5. Rows(r)'
  BY <1>1, <1>2 DEF SessionOK, Rows, Saved, Stands
<1> QED BY <1>3, <1>4, <1>5 DEF SessionOK

\* The session that moves on knows what its statement has read and locked.
LEMMA MoveKeepsSelf ==
    ASSUME StructureAssumption, StructureInv, NEW s \in Sessions, Step(s), Moves(s)
    PROVE  SessionOK(s)'
<1>1. /\ UNCHANGED <<template, structure, active, req, during>>
      /\ at[s] # "idle" /\ at'[s] # "idle" /\ held'[s] = held[s] \cup Wants(s)
  BY DEF Moves, StructureInv, TypeOK
<1>2. SessionOK(s) /\ req[s] \in Calls /\ req'[s] = req[s] /\ during'[s] = during[s]
  BY <1>1 DEF StructureInv, SessionOK, Steps
<1>3. \A t \in Templates : template'[t].legs \in during'[s].legs[t]
  BY <1>1, <1>2 DEF SessionOK, Reads
<1>4. ASSUME NEW step, Take(s, step)
      PROVE  at'[s] = step
  BY <1>4 DEF Take, StructureInv, TypeOK
<1>5. /\ req[s].op = "new_structure" =>
             ~Saved(req[s].row)' /\ \A r \in Sessions \ {s} : req'[r].row # req'[s].row
      /\ req[s].op \in Rewrites => Saved(req[s].row)'
  BY <1>1, <1>2 DEF SessionOK, Rows, Saved
<1>6. ~Refused(s)
  BY <1>1 DEF Refused, Over, StructureInv, TypeOK
<1>7. got \in [Sessions -> [of : Templates \cup Codes \cup {None}, legs : LegLists]]
  BY DEF StructureInv, TypeOK
<1>8. CASE Look(s)
  <2>1. at[s] = "look" /\ at'[s] = "lock" /\ held'[s] = {}
    BY <1>1, <1>2, <1>4, <1>6, <1>8, NoWants DEF Look, SessionOK, Locks
  <2>2. req[s].op \notin Saves
    BY <1>2, <2>1 DEF SessionOK, Steps, Saves
  <2> QED BY <1>2, <1>3, <1>5, <2>1, <2>2 DEF SessionOK, Steps, Locks, Reads, Rows, Setting, Unused
<1>9. CASE Resolve(s)
  <2>1. PICK t \in Templates : Take(s, "legs") /\ got' = [got EXCEPT ![s].of = t]
    BY <1>6, <1>9 DEF Resolve
  <2>2. at[s] = "resolve" /\ at'[s] = "legs" /\ held'[s] = {} /\ got'[s].of = t
    BY <1>1, <1>2, <1>4, <1>7, <1>9, <2>1, NoWants DEF Resolve, SessionOK, Locks
  <2>3. Steps(s)' /\ Locks(s)' /\ Setting(s)' /\ Unused(s)'
    BY <1>2, <2>2 DEF SessionOK, Steps, Locks, Setting, Unused
  <2>4. Reads(s)' /\ Rows(s)'
    BY <1>2, <1>3, <1>5, <2>2 DEF Reads, Rows
  <2> QED BY <2>3, <2>4 DEF SessionOK
<1>10. CASE ReadLegs(s)
  <2>1. /\ at[s] = "legs" /\ got' = [got EXCEPT ![s].legs = LegsNow(s)]
        /\ Take(s, IF req[s].op = "new_structure" THEN "share" ELSE "lock")
    BY <1>10 DEF ReadLegs
  <2>2. /\ req[s].op \in Saves /\ got[s].of \in Templates /\ held'[s] = {}
        /\ got'[s].of = got[s].of /\ got'[s].legs = LegsNow(s)
    BY <1>1, <1>2, <1>7, <2>1, NoWants DEF SessionOK, Steps, Locks, Reads
  <2>3. LegsNow(s) = template[got[s].of].legs
    BY <2>2 DEF LegsNow, Stands, StructureInv, Bare
  <2>4. got'[s].legs \in during'[s].legs[got'[s].of]
    BY <1>1, <1>3, <2>2, <2>3
  <2>5. \/ at'[s] = "share" /\ req[s].op = "new_structure"
        \/ at'[s] = "lock" /\ req[s].op = "put_structure"
    BY <1>4, <2>1, <2>2 DEF Saves
  <2> QED BY <1>2, <1>3, <1>5, <2>2, <2>4, <2>5
          DEF SessionOK, Steps, Locks, Reads, Rows, Setting, Unused, Rewrites
<1>11. CASE Lock(s)
  <2>1. /\ at[s] = "lock" /\ There(req[s].row) /\ got' = got
        /\ Take(s, CASE req[s].op = "drop" -> "check"
                     [] req[s].op = "put_structure" /\ structure[req[s].row].of # got[s].of -> "share"
                     [] req[s].op = "deactivate" -> "clear"
                     [] Recodes(s) -> "code"
                     [] OTHER -> "commit")
    BY <1>6, <1>11 DEF Lock
  <2>2. /\ held[s] = {} /\ <<req[s].row, RowMode(s)>> \in held'[s]
        /\ Recodes(s) => req[s].op \in {"put_template", "patch_template"}
        /\ ~Recodes(s) => held'[s] = {<<req[s].row, RowMode(s)>>}
        /\ RowMode(s) = IF req[s].op \in {"drop", "old_drop"} \/ Recodes(s) THEN "update" ELSE "write"
    BY <1>1, <1>2, <2>1 DEF SessionOK, Locks, Wants, RowMode, Recodes
  <2>3. /\ req[s].op = "drop" => at'[s] = "check"
        /\ req[s].op = "put_structure" => at'[s] = IF structure[req[s].row].of # got[s].of THEN "share" ELSE "commit"
        /\ req[s].op = "deactivate" => at'[s] = "clear"
        /\ req[s].op \notin {"drop", "put_structure", "deactivate"}
               => at'[s] = IF Recodes(s) THEN "code" ELSE "commit"
    BY <1>4, <2>1, <2>2
  <2>4. req[s].op # "new_structure" /\ req[s].op # "old_drop"
    BY <1>2, <2>1 DEF SessionOK, Steps
  <2>5. Steps(s)'
    BY <1>1, <1>2, <2>2, <2>3 DEF Steps, Saves
  <2>6. Locks(s)'
    <3>1. req[s].op = "deactivate" => req[s].row # "settings"
      BY <1>2, RequestFields DEF Rewrites, StructureAssumption
    <3>2. req[s].op = "activate" => req[s].row = "settings"
      BY <1>2, RequestFields
    <3> QED BY <1>2, <2>2, <2>3, <3>1, <3>2 DEF Locks, Rewrites
  <2>7. Reads(s)'
    BY <1>1, <1>2, <1>3, <2>1, <2>3, <2>4 DEF SessionOK, Reads, Saves, Rewrites, Rows, Saved
  <2>8. Rows(s)' /\ Setting(s)' /\ Unused(s)'
    <3>1. req[s].op = "put_legs" => Stands(req[s].row)' /\ RowMode(s) = "write"
      BY <1>1, <1>2, <2>1, <2>2, RequestFields DEF There, Stands, Saved, StructureAssumption
    <3> QED BY <1>2, <1>5, <2>2, <2>3, <3>1 DEF Rows, Setting, Unused
  <2> QED BY <2>5, <2>6, <2>7, <2>8 DEF SessionOK
<1>12. CASE Code(s)
  <2>1. at[s] = "code" /\ at'[s] = "commit" /\ UNCHANGED got
    BY <1>4, <1>6, <1>12 DEF Code
  <2>2. req[s].op \in {"new_template", "put_template", "patch_template"}
    BY <1>2, <2>1 DEF SessionOK, Steps
  <2> QED BY <1>2, <1>3, <1>5, <2>1, <2>2
          DEF SessionOK, Steps, Locks, Reads, Rows, Setting, Unused, Saves, Rewrites
<1>13. CASE Share(s)
  <2>1. at[s] = "share" /\ at'[s] = "commit" /\ got' = got
    BY <1>4, <1>6, <1>13 DEF Share
  <2>2. req[s].op \in Saves /\ <<got[s].of, "share">> \in held'[s]
    BY <1>1, <1>2, <2>1 DEF SessionOK, Steps, Wants
  <2> QED BY <1>1, <1>2, <1>3, <1>5, <2>1, <2>2
          DEF SessionOK, Steps, Locks, Reads, Rows, Setting, Unused, Saves, Rewrites
<1>14. CASE Clear(s)
  <2>1. at[s] = "clear" /\ at'[s] = "commit" /\ got' = got
    BY <1>4, <1>14 DEF Clear
  <2>2. /\ req[s].op = "deactivate" /\ <<"settings", "write">> \notin held[s]
        /\ held'[s] = held[s] \cup Cleared(req[s].row)
    BY <1>1, <1>2, <2>1 DEF SessionOK, Steps, Locks, Wants
  <2>3. Setting(s)'
    BY <1>1, <2>1, <2>2 DEF Setting, Cleared
  <2> QED BY <1>1, <1>2, <1>3, <1>5, <2>1, <2>2, <2>3
          DEF SessionOK, Steps, Locks, Reads, Rows, Unused, Saves, Rewrites
<1>15. CASE Check(s)
  <2>1. at[s] = "check" /\ at'[s] = "erase" /\ got' = got /\ UsersOf(req[s].row) = {}
    BY <1>4, <1>6, <1>15 DEF Check
  <2>2. req[s].op \in {"drop", "old_drop"} /\ held'[s] = held[s]
    BY <1>1, <1>2, <2>1, NoWants DEF SessionOK, Steps
  <2>3. Unused(s)'
    BY <1>1, <2>1 DEF Unused, UsersOf, Saved
  <2> QED BY <1>1, <1>2, <1>3, <1>5, <2>1, <2>2, <2>3
          DEF SessionOK, Steps, Locks, Reads, Rows, Setting, Saves, Rewrites
<1>16. ASSUME Ends(s) PROVE FALSE
  BY <1>1, <1>16 DEF Ends, Over, StructureInv, TypeOK
<1> QED
  BY <1>8, <1>9, <1>10, <1>11, <1>12, <1>13, <1>14, <1>15, <1>16, <1>1
  DEF Step, Erase, CommitTemplate, CommitParams, CommitStructure, CommitActive, Ends

\* What a call's end can do to the tables: it writes the row it holds.
LEMMA EndWrites ==
    ASSUME StructureAssumption, StructureInv, NEW s \in Sessions, Step(s) \/ Fail(s), Ends(s)
    PROVE  /\ \A x \in Structures : structure'[x] # structure[x] =>
                  /\ at[s] = "commit" /\ req[s].row = x /\ req[s].op \in Saves \cup Rewrites
                  /\ Saved(x)'
                  /\ structure'[x].of = IF req[s].op \in Saves THEN got[s].of ELSE structure[x].of
                  /\ IF req[s].op \in Saves THEN structure'[x].legs = got[s].legs
                     ELSE structure'[x] = [structure[x] EXCEPT !.active = structure'[x].active]
           /\ \A t \in Templates : Stands(t) /\ ~Stands(t)' =>
                  Wants(s) = {<<t, "update">>, <<template[t].code, "update">>} /\ Ready(s)
           /\ active' # active => <<"settings", "write">> \in held[s]
<1> USE DEF StructureInv
<1>1. at[s] # "idle" /\ at'[s] = "idle" /\ SessionOK(s) /\ req[s] \in Calls
  BY DEF Ends, Over, TypeOK, SessionOK, Steps
<1>2. ASSUME NEW step, step # "idle", Take(s, step)
      PROVE  FALSE
  BY <1>1, <1>2 DEF Take, TypeOK
<1>3. ASSUME UNCHANGED <<template, structure, active>>
      PROVE  /\ \A x \in Structures : structure'[x] = structure[x]
             /\ \A t \in Templates : Stands(t)' <=> Stands(t)
             /\ active' = active
  BY <1>3 DEF Stands
<1>4. CASE CommitStructure(s)
  <2>1. at[s] = "commit" /\ req[s].row \in Structures /\ UNCHANGED template
    BY <1>4 DEF CommitStructure
  <2>2. req[s].op \in Saves \cup Rewrites
    BY <1>1, <2>1, RequestFields DEF StructureAssumption
  <2>3. structure \in [Structures -> [is : {"none", "there"}, of : Templates \cup {None},
                                      legs : LegLists, active : BOOLEAN]]
    BY DEF TypeOK
  <2>4. \A x \in Structures \ {req[s].row} : structure'[x] = structure[x]
    <3>1. PICK row : structure' = [structure EXCEPT ![req[s].row] = row]
      BY <1>4 DEF CommitStructure
    <3> QED BY <2>3, <3>1
  <2>5. CASE req[s].op \in Saves
    <3>1. structure' = [structure EXCEPT ![req[s].row] =
              [is |-> "there", of |-> got[s].of, legs |-> got[s].legs, active |-> req[s].active]]
      BY <1>4, <2>5 DEF CommitStructure, Saves
    <3>2. structure'[req[s].row] =
              [is |-> "there", of |-> got[s].of, legs |-> got[s].legs, active |-> req[s].active]
      BY <2>1, <2>3, <3>1
    <3>3. active' = active
      BY <1>4, <2>5 DEF CommitStructure, Saves
    <3> QED BY <2>1, <2>2, <2>4, <2>5, <3>2, <3>3 DEF Saved, Stands
  <2>6. CASE req[s].op \in Rewrites \ Saves
    <3>1. PICK v \in BOOLEAN : structure' = [structure EXCEPT ![req[s].row] = [@ EXCEPT !.active = v]]
      <4>1. CASE req[s].op = "patch_structure"
        BY <1>1, <1>4, <4>1, RequestFields DEF CommitStructure
      <4>2. CASE req[s].op = "deactivate"
        BY <1>4, <4>2 DEF CommitStructure
      <4> QED BY <2>6, <4>1, <4>2 DEF Saves, Rewrites
    <3>2. structure'[req[s].row] = [structure[req[s].row] EXCEPT !.active = v]
      BY <2>1, <2>3, <3>1
    <3>3. /\ structure'[req[s].row].active = v /\ structure'[req[s].row].of = structure[req[s].row].of
          /\ structure'[req[s].row].is = structure[req[s].row].is
      BY <2>1, <2>3, <3>2
    <3>4. structure'[req[s].row].is = "there"
      BY <1>1, <2>1, <2>6, <3>3 DEF Saved, SessionOK, Rows
    <3>5. active' # active => <<"settings", "write">> \in held[s]
      BY <1>4 DEF CommitStructure
    <3> QED BY <2>1, <2>2, <2>4, <2>6, <3>2, <3>3, <3>4, <3>5 DEF Saved, Stands
  <2> QED BY <2>2, <2>5, <2>6
<1>5. CASE CommitTemplate(s)
  <2>1. UNCHANGED <<structure, active>>
    BY <1>5 DEF CommitTemplate
  <2>2. \A t \in Templates : Stands(t) => Stands(t)'
    <3>1. template \in [Templates -> [is : {"none", "there", "gone"}, code : Codes \cup {None}, legs : LegLists]]
      BY DEF TypeOK
    <3>2. CASE req[s].op = "new_template"
      <4>1. template' = [template EXCEPT ![req[s].row] = [is |-> "there", code |-> req[s].code, legs |-> NoLegs]]
        BY <1>5, <3>2 DEF CommitTemplate
      <4> QED BY <3>1, <4>1 DEF Stands
    <3>3. CASE req[s].op = "put_legs"
      <4>1. template' = [template EXCEPT ![req[s].row] = [@ EXCEPT !.legs = req[s].legs]]
        BY <1>5, <3>3 DEF CommitTemplate
      <4> QED BY <3>1, <4>1 DEF Stands
    <3>4. CASE req[s].op = "patch_template"
      <4>1. template' = [template EXCEPT ![req[s].row] = [@ EXCEPT !.code = req[s].code]]
        BY <1>5, <3>4 DEF CommitTemplate
      <4> QED BY <3>1, <4>1 DEF Stands
    <3>5. CASE req[s].op = "put_template"
      <4>1. template' = [template EXCEPT ![req[s].row] =
                             IF req[s].code = got[s].of THEN @ ELSE [@ EXCEPT !.code = req[s].code]]
        BY <1>5, <3>5 DEF CommitTemplate
      <4> QED BY <3>1, <4>1 DEF Stands
    <3> QED BY <1>5, <3>2, <3>3, <3>4, <3>5 DEF CommitTemplate
  <2> QED BY <2>1, <2>2
<1>6. CASE Erase(s)
  <2>1. UNCHANGED <<structure, active>> /\ at[s] = "erase" /\ Ready(s)
    BY <1>6 DEF Erase
  <2>2. \A t \in Templates : Stands(t) /\ ~Stands(t)' => t = req[s].row
    BY <1>6 DEF Erase, TypeOK, Stands
  <2>3. Wants(s) = {<<req[s].row, "update">>, <<template[req[s].row].code, "update">>}
    BY <2>1 DEF Wants
  <2> QED BY <2>1, <2>2, <2>3
<1>7. CASE CommitActive(s)
  BY <1>1, <1>7 DEF CommitActive, SessionOK, Locks, Stands
<1>8. CASE CommitParams(s) \/ Fail(s) \/ Refused(s)
  BY <1>3, <1>8 DEF CommitParams, Fail, Refused, tables
<1> QED
  BY <1>2, <1>4, <1>5, <1>6, <1>7, <1>8
  DEF Step, Look, Resolve, ReadLegs, Lock, Code, Share, Clear, Check

LEMMA EndKeeps ==
    ASSUME StructureAssumption, StructureInv, NEW s \in Sessions, Step(s) \/ Fail(s), Ends(s),
           NEW r \in Sessions
    PROVE  SessionOK(r)'
<1>1. CASE r = s
  <2>1. at'[s] = "idle" /\ req'[s] = NoReq /\ held'[s] = {}
    BY DEF Ends, Over, StructureInv, TypeOK
  <2> QED BY <1>1, <2>1 DEF SessionOK, Steps, Locks, Reads, Rows, Setting, Unused, NoReq, Saves, Rewrites
<1>2. CASE r # s
  <2>1. /\ at'[r] = at[r] /\ req'[r] = req[r] /\ held'[r] = held[r] /\ got'[r] = got[r]
        /\ \A o \in Sessions \ {s} : req'[o] = req[o]
        /\ req'[s] = NoReq
    BY <1>2 DEF Ends, Over, StructureInv, TypeOK
  <2>2. at[r] # "idle" =>
            /\ \A t \in Templates : during[r].legs[t] \cup {template'[t].legs} = during'[r].legs[t]
            /\ during'[r].active = during[r].active \cup ({active'} \ {active})
    BY <1>2 DEF Ends, Over
  <2>3. SessionOK(r) /\ SessionOK(s)
    BY DEF StructureInv
  <2>4. \A h \in held[r], k \in held[s] : h[1] = k[1] => ~Excludes(h[2], k[2]) /\ ~Excludes(k[2], h[2])
    BY <1>2 DEF StructureInv, Mutex
  <2>5. \A x \in Structures : structure'[x] # structure[x] =>
            /\ at[s] = "commit" /\ req[s].row = x /\ req[s].op \in Saves \cup Rewrites
            /\ Saved(x)'
            /\ structure'[x].of = IF req[s].op \in Saves THEN got[s].of ELSE structure[x].of
    BY EndWrites
  <2>6. at[r] # "idle" => req[r] \in Calls
    BY <2>3 DEF SessionOK, Steps
  <2>7. Steps(r)' /\ Locks(r)'
    BY <2>1, <2>3 DEF SessionOK, Steps, Locks
  <2>8. ASSUME NEW x \in Structures, structure'[x] # structure[x], req[r].row = x, at[r] # "idle"
        PROVE  /\ ~(req[r].op = "new_structure")
               /\ req[s].op # "new_structure"
               /\ ~(req[r].op \in Rewrites /\ at[r] = "commit")
    <3>1. at[s] = "commit" /\ req[s].row = x /\ req[s].op \in Saves \cup Rewrites
      BY <2>5, <2>8
    <3>2. req[r].op # "new_structure" /\ req[s].op # "new_structure"
      BY <1>2, <2>3, <2>8, <3>1 DEF SessionOK, Rows
    <3>3. <<x, "write">> \in held[s]
      BY <2>3, <3>1, <3>2 DEF SessionOK, Locks, Saves, Rewrites
    <3>4. req[r].op \in Rewrites /\ at[r] = "commit" => <<x, "write">> \in held[r]
      BY <2>3, <2>8 DEF SessionOK, Locks
    <3> QED BY <2>4, <3>2, <3>3, <3>4 DEF Excludes
  <2>9. Reads(r)'
    <3>1. req[r].op \in Saves /\ at[r] \in {"lock", "share", "commit"}
              => got[r].legs \in during'[r].legs[got[r].of]
      BY <2>2, <2>3 DEF SessionOK, Reads
    <3>2. req[r].op \in Saves /\ at[r] = "commit" =>
              \/ <<got[r].of, "share">> \in held[r]
              \/ Saved(req[r].row)' /\ structure'[req[r].row].of = got[r].of
      <4>1. SUFFICES ASSUME req[r].op \in Saves, at[r] = "commit", <<got[r].of, "share">> \notin held[r]
                     PROVE  Saved(req[r].row)' /\ structure'[req[r].row].of = got[r].of
        OBVIOUS
      <4>2. Saved(req[r].row) /\ structure[req[r].row].of = got[r].of /\ req[r].row \in Structures
        BY <2>3, <4>1 DEF SessionOK, Reads, Saved
      <4>3. structure'[req[r].row] = structure[req[r].row]
        BY <2>3, <2>8, <4>1, <4>2 DEF Saves, Rewrites
      <4> QED BY <2>1, <4>2, <4>3 DEF Saved
    <3> QED BY <2>1, <2>2, <2>3, <3>1, <3>2 DEF SessionOK, Reads
  <2>10. Rows(r)'
    <3>1. at[r] # "idle" /\ req[r].op = "new_structure" =>
              ~Saved(req[r].row)' /\ \A o \in Sessions \ {r} : req'[o].row # req[r].row
      <4>1. SUFFICES ASSUME at[r] # "idle", req[r].op = "new_structure"
                     PROVE  ~Saved(req[r].row)' /\ \A o \in Sessions \ {r} : req'[o].row # req[r].row
        OBVIOUS
      <4>2. req[r].row \in Structures
        BY <2>6, <4>1, RequestFields DEF Saves
      <4>3. NoReq.row # req[r].row
        BY <4>2 DEF NoReq, StructureAssumption
      <4>4. structure'[req[r].row] = structure[req[r].row]
        BY <2>8, <4>1, <4>2
      <4> QED BY <2>1, <2>3, <4>1, <4>3, <4>4 DEF SessionOK, Rows, Saved
    <3>2. at[r] # "idle" /\ req[r].op \in Rewrites => Saved(req[r].row)'
      BY <2>1, <2>3, <2>5 DEF SessionOK, Rows, Saved
    <3>3. at[r] = "commit" /\ req[r].op = "put_legs" => Stands(req[r].row)'
      <4>1. SUFFICES ASSUME at[r] = "commit", req[r].op = "put_legs", ~Stands(req[r].row)'
                     PROVE  FALSE
        OBVIOUS
      <4>2. Stands(req[r].row) /\ <<req[r].row, "write">> \in held[r]
        BY <2>3, <4>1 DEF SessionOK, Rows
      <4>3. <<req[r].row, "update">> \in Wants(s) /\ Ready(s)
        <5>1. req[r].row \in Templates
          BY <4>2 DEF Stands
        <5>2. ~(template'[req[r].row].is = "there")
          BY <2>1, <4>1, <5>1 DEF Stands
        <5> QED BY <4>2, <5>1, <5>2, EndWrites DEF Stands
      <4> QED BY <1>2, <4>2, <4>3 DEF Ready, Excludes
    <3> QED BY <2>1, <2>3, <3>1, <3>2, <3>3 DEF SessionOK, Rows
  <2>11. Setting(r)'
    <3>1. active' # active => <<"settings", "write">> \in held[s]
      BY EndWrites
    <3>2. active' # active => <<"settings", "write">> \notin held[r]
      BY <2>4, <3>1 DEF Excludes
    <3> QED BY <2>1, <2>2, <2>3, <3>2 DEF SessionOK, Setting
  <2>12. Unused(r)'
    <3>1. SUFFICES ASSUME at[r] = "erase", req[r].op = "drop",
                          NEW x \in Structures, Saved(x)', structure'[x].of = req[r].row
                   PROVE  FALSE
      BY <2>1 DEF Unused, UsersOf
    <3>2. <<req[r].row, "update">> \in held[r] /\ UsersOf(req[r].row) = {}
      BY <2>3, <3>1 DEF SessionOK, Locks, Unused
    <3>3. ~(Saved(x) /\ structure[x].of = req[r].row)
      BY <3>2 DEF UsersOf
    <3>4. structure'[x] # structure[x]
      BY <3>1, <3>3 DEF Saved
    <3>5. /\ at[s] = "commit" /\ req[s].row = x /\ req[s].op \in Saves \cup Rewrites
          /\ structure'[x].of = IF req[s].op \in Saves THEN got[s].of ELSE structure[x].of
      BY <2>5, <3>4
    <3>6. req[s].op \in Saves /\ got[s].of = req[r].row
      BY <2>3, <3>1, <3>3, <3>5 DEF SessionOK, Rows
    <3>7. <<req[r].row, "share">> \in held[s]
      BY <2>3, <3>3, <3>5, <3>6 DEF SessionOK, Reads
    <3> QED BY <2>4, <3>2, <3>7 DEF Excludes
  <2> QED BY <2>7, <2>9, <2>10, <2>11, <2>12 DEF SessionOK
<1> QED BY <1>1, <1>2

-----------------------------------------------------------------------------
(* The invariant and the theorems.                                         *)

LEMMA InitInv ==
    ASSUME StructureAssumption, Init
    PROVE  StructureInv
<1>1. TypeOK
  <2>1. /\ NoTemplate \in [is : {"none", "there", "gone"}, code : Codes \cup {None}, legs : LegLists]
        /\ NoStructure \in [is : {"none", "there"}, of : Templates \cup {None}, legs : LegLists,
                            active : BOOLEAN]
        /\ NoRead \in [of : Templates \cup Codes \cup {None}, legs : LegLists]
        /\ NoHistory \in [legs : [Templates -> SUBSET LegLists], active : SUBSET (Structures \cup {None})]
    BY DEF NoTemplate, NoStructure, NoRead, NoHistory, StructureAssumption
  <2> QED BY <2>1 DEF Init, TypeOK
<1>2. Bare /\ Mutex
  BY DEF Init, Bare, Mutex, NoTemplate
<1>3. ASSUME NEW s \in Sessions
      PROVE  SessionOK(s)
  BY <1>3 DEF Init, SessionOK, Steps, Locks, Reads, Rows, Setting, Unused, NoReq
<1> QED BY <1>1, <1>2, <1>3 DEF StructureInv

LEMMA NextInv ==
    ASSUME StructureAssumption, StructureInv, [Next]_vars
    PROVE  StructureInv'
<1>1. ASSUME NEW r \in Sessions
      PROVE  SessionOK(r)'
  <2>1. SessionOK(r)
    BY DEF StructureInv
  <2>2. CASE UNCHANGED vars
    <3>1. Steps(r)' /\ Locks(r)' /\ Reads(r)'
      BY <2>1, <2>2 DEF vars, tables, SessionOK, Steps, Locks, Reads, Saved
    <3>2. Rows(r)' /\ Setting(r)' /\ Unused(r)'
      BY <2>1, <2>2 DEF vars, tables, SessionOK, Rows, Setting, Unused, Saved, Stands, UsersOf
    <3> QED BY <3>1, <3>2 DEF SessionOK
  <2>3. ASSUME NEW s \in Sessions, NEW q \in Calls, Begin(s, q)
        PROVE  SessionOK(r)'
    BY <2>3, BeginKeeps
  <2>4. ASSUME NEW s \in Sessions, Step(s) \/ Fail(s)
        PROVE  SessionOK(r)'
    <3>1. CASE Ends(s)
      BY <2>4, <3>1, EndKeeps
    <3>2. CASE Moves(s)
      <4>1. ASSUME Fail(s) PROVE Ends(s)
        BY <4>1 DEF Fail, Refused, Ends
      <4> QED BY <2>4, <3>1, <3>2, <4>1, MoveKeepsSelf, MoveKeepsOthers
    <3> QED BY <2>4, <3>1, <3>2, MoveOrEnd DEF StructureInv
  <2> QED BY <2>2, <2>3, <2>4 DEF Next
<1> QED BY <1>1, TypesStep, BareStep, MutexStep DEF StructureInv

\* In every state that can be reached the invariant holds.
THEOREM StructureInvariant == Spec => []StructureInv
<1>1. Init => StructureInv
  BY InitInv, StructureAssumption
<1>2. StructureInv /\ [Next]_vars => StructureInv'
  BY NextInv, StructureAssumption
<1> QED BY <1>1, <1>2, PTL DEF Spec

\* Types: every variable stays in its set, whatever callers ask for and wherever they fail.
THEOREM StructureTypes == Spec => []TypeOK
<1>1. StructureInv => TypeOK
  BY DEF StructureInv
<1> QED BY <1>1, StructureInvariant, PTL

\* Once delete_template_strict has found no structure of its template none can come: the
\* row lock it took before it looked excludes the foreign key of a new one.
THEOREM StructureUsersAreNamed == Spec => []UsersAreNamed
<1>1. StructureInv => UsersAreNamed
  BY DEF StructureInv, UsersAreNamed, SessionOK, Unused
<1> QED BY <1>1, StructureInvariant, PTL

\* A structure is saved with legs its template has had since the call began, and every
\* other writer of structures leaves its template and its legs.
THEOREM StructureLegs == Spec => LegsAreTheTemplates
<1> DEFINE Saving(x) ==
    \E s \in Sessions :
        /\ at[s] = "commit" /\ req[s].row = x /\ at'[s] = "idle"
        /\ IF req[s].op \in {"new_structure", "put_structure"}
           THEN structure'[x].legs \in during[s].legs[structure'[x].of]
           ELSE structure'[x] = [structure[x] EXCEPT !.active = structure'[x].active]
<1>1. ASSUME StructureInv, [Next]_vars, NEW x \in Structures, structure'[x] # structure[x]
      PROVE  Saving(x)
  <2>1. ASSUME NEW s \in Sessions, NEW q \in Calls, Begin(s, q)
        PROVE  FALSE
    BY <1>1, <2>1 DEF Begin, tables
  <2>2. PICK s \in Sessions : Step(s) \/ Fail(s)
    BY <1>1, <2>1 DEF Next, vars, tables
  <2>3. Ends(s)
    BY <1>1, <2>2, MoveOrEnd DEF Moves, StructureInv
  <2>4. /\ at[s] = "commit" /\ req[s].row = x /\ req[s].op \in Saves \cup Rewrites
        /\ structure'[x].of = IF req[s].op \in Saves THEN got[s].of ELSE structure[x].of
        /\ IF req[s].op \in Saves THEN structure'[x].legs = got[s].legs
           ELSE structure'[x] = [structure[x] EXCEPT !.active = structure'[x].active]
    BY <1>1, <2>2, <2>3, EndWrites, StructureAssumption
  <2>5. at'[s] = "idle"
    BY <1>1, <2>3 DEF Ends, Over, StructureInv, TypeOK
  <2>6. req[s].op \in Saves => got[s].legs \in during[s].legs[got[s].of]
    BY <1>1, <2>4 DEF StructureInv, SessionOK, Reads
  <2> QED BY <2>4, <2>5, <2>6 DEF Saves
<1>2. StructureInv /\ [Next]_vars =>
          [\A x \in Structures : structure'[x] # structure[x] => Saving(x)]_vars
  BY <1>1
<1> QED BY <1>2, StructureInvariant, PTL DEF Spec, LegsAreTheTemplates

\* A structure that was deactivated is the one to start with only if somebody activated it
\* after the call had looked, and nobody else's setting is emptied.
THEOREM StructureDeactivated == Spec => DeactivatedIsNotStarted
<1> DEFINE Settled(s) ==
    LET x == req[s].row
    IN at[s] = "commit" /\ req[s].op = "deactivate" /\ structure'[x] # structure[x] =>
           /\ active' = x => x \in during[s].active
           /\ active # x => active' = active
<1>1. ASSUME StructureInv, [Next]_vars, NEW s \in Sessions, at[s] = "commit", req[s].op = "deactivate",
             structure'[req[s].row] # structure[req[s].row]
      PROVE  /\ active' = req[s].row => req[s].row \in during[s].active
             /\ active # req[s].row => active' = active
  <2>1. SessionOK(s) /\ req[s] \in Calls /\ req[s].row \in Structures
    BY <1>1, RequestFields, StructureAssumption DEF StructureInv, SessionOK, Steps, Rewrites
  <2>2. ASSUME NEW r \in Sessions, NEW q \in Calls, Begin(r, q)
        PROVE  FALSE
    BY <1>1, <2>2 DEF Begin, tables
  <2>3. PICK r \in Sessions : Step(r) \/ Fail(r)
    BY <1>1, <2>2 DEF Next, vars, tables
  <2>4. Ends(r)
    BY <1>1, <2>3, MoveOrEnd DEF Moves, StructureInv
  <2>5. at[r] = "commit" /\ req[r].row = req[s].row /\ req[r].op \in Saves \cup Rewrites
    BY <1>1, <2>1, <2>3, <2>4, EndWrites, StructureAssumption
  <2>6. r = s
    <3>1. SUFFICES ASSUME r # s PROVE FALSE
      OBVIOUS
    <3>2. SessionOK(r)
      BY <1>1 DEF StructureInv
    <3>3. req[r].op \in Rewrites
      BY <2>1, <2>5, <3>1, <3>2 DEF SessionOK, Rows, Saves, Rewrites
    <3>4. <<req[s].row, "write">> \in held[r] /\ <<req[s].row, "write">> \in held[s]
      BY <1>1, <2>1, <2>5, <3>2, <3>3 DEF SessionOK, Locks, Rewrites
    <3> QED BY <1>1, <3>1, <3>4 DEF StructureInv, Mutex, Excludes
  <2>7. CommitStructure(s)
    <3>1. structure' # structure
      BY <1>1
    <3> QED BY <1>1, <2>3, <2>6, <3>1
            DEF Step, Fail, Look, Resolve, ReadLegs, Lock, Code, Share, Clear, Check, Erase,
                CommitTemplate, CommitParams, CommitActive, Refused, Take, tables
  <2>8. active' = IF <<"settings", "write">> \in held[s] THEN None ELSE active
    BY <1>1, <2>7 DEF CommitStructure
  <2>9. None # req[s].row
    BY <2>1, StructureAssumption DEF StructureAssumption
  <2> QED BY <1>1, <2>1, <2>8, <2>9 DEF SessionOK, Setting
<1>2. StructureInv /\ [Next]_vars => [\A s \in Sessions : Settled(s)]_vars
  BY <1>1
<1> QED BY <1>2, StructureInvariant, PTL DEF Spec, DeactivatedIsNotStarted
=============================================================================
