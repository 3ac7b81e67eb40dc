------------------------ MODULE FillAttributionProofs ------------------------
(***************************************************************************)
(* Proofs about FillAttribution: for any number of callers, raw rows and   *)
(* trades, any quantity and any bounds on the calls, no trade gets two     *)
(* rows of a fill; while calls do not overlap a fill is attributed one     *)
(* way, in full, and not left behind without its raw rows.                 *)
(***************************************************************************)
EXTENDS FillAttribution, FiniteSetTheorems, TLAPS

EnvWrites ==
    [whole : Trades \cup {NoTrade}, parts : [Trades -> 0 .. Quantity],
     dropWhole : BOOLEAN, drop : SUBSET Trades]
Aims == [whole : BOOLEAN, parts : SUBSET Trades]

Domains ==
    /\ req \in [Sessions -> Bodies \cup {NoReq}]
    /\ envWrite \in [Sessions -> EnvWrites]
    /\ aim \in [Sessions -> Aims]

-----------------------------------------------------------------------------
(* What is written and not committed yet fits the rows, and each other.    *)

\* A trade or splits, not both, and rows only the dropped ones stand in the way of.
Fits(w) ==
    /\ w.whole # NoTrade => w.parts = NoParts
    /\ ~NotUnique(w)

Takes(w) == Named(w.parts) \cup ({w.whole} \ {NoTrade})

Apart(w, v) ==
    /\ w.drop \cap v.drop = {}
    /\ Takes(w) \cap Takes(v) = {}
    /\ Takes(w) \cap v.drop = {}

FillInv ==
    /\ TypeOK /\ Domains /\ NoTradeTwice
    /\ \A s \in Sessions : Fits(envWrite[s])
    /\ \A s, o \in Sessions : s # o => Apart(envWrite[s], envWrite[o])

-----------------------------------------------------------------------------
(* One call at a time.                                                     *)

PartsAfter(w) ==
    [t \in Trades |-> IF w.parts[t] # 0 THEN w.parts[t] ELSE IF t \in w.drop THEN 0 ELSE parts[t]]
WholeAfter(w) == IF w.whole # NoTrade THEN w.whole ELSE IF w.dropWhole THEN NoTrade ELSE whole

Right(trade, splits) ==
    /\ ~(trade # NoTrade /\ Named(splits) # {})
    /\ Named(splits) # {} => Total(splits) = Quantity

\* What the only call has read, checked and written.
CallOK(s) ==
    LET q == req[s]
        w == envWrite[s]
    IN /\ at[s] # "wait" /\ q.op \in limits.ops /\ acct[s] = "home"
       /\ at[s] \notin {"golden", "env"} => w = NoWrite
       /\ ~Deleting(q) => raw[q.row] = "home" /\ goldenWrite[s] = "nothing"
       /\ at[s] = "write" /\ ~Deleting(q) => SplitsAccepted(q, "home") /\ WholeAccepted(q, "home")
       /\ Deleting(q) /\ at[s] # "check" => goldenWrite[s] = "gone"
       /\ Deleting(q) /\ at[s] \in {"golden", "env"} =>
              \/ \E t \in Rows \ {q.row} : raw[t] = "home"
              \/ WholeAfter(w) = NoTrade /\ Named(PartsAfter(w)) = {}
       /\ at[s] \in {"golden", "env"} => Right(WholeAfter(w), PartsAfter(w))

SerialInv ==
    Serial =>
        /\ \A r \in Rows : raw[r] # "away"
        /\ \A s, o \in Sessions : at[s] # "idle" /\ at[o] # "idle" => s = o
        /\ \A s \in Sessions : IF at[s] = "idle" THEN envWrite[s] = NoWrite /\ goldenWrite[s] = "nothing"
                               ELSE CallOK(s)
        /\ Right(whole, parts)
        /\ NoOrphan

-----------------------------------------------------------------------------
(* Types.                                                                  *)

\* What a body holds, and what its keys rule out (Bodies).
LEMMA BodyTypes ==
    ASSUME NEW q \in Bodies
    PROVE  /\ q.op \in AllOps /\ q.row \in Rows /\ q.trade \in Trades \cup {NoTrade}
           /\ q.splits \in [Trades -> 0 .. Quantity] /\ q.account \in {"home", "away"}
           /\ q.trade # NoTrade => "trade_id" \in q.sends
           /\ q.splits # NoParts => "fill_splits" \in q.sends
           /\ q.null => q.op = "update"
           /\ q.splits # NoParts => q.trade = NoTrade
           /\ Deleting(q) => q.sends = {}
BY DEF Bodies, Requests, WellFormed, Deleting

\* An idle session has no body (NoReq).
LEMMA NoReqIsIdle == NoReq \notin Bodies
<1>1. \A q \in Bodies : q.op \in AllOps
  BY BodyTypes
<1>2. NoReq.op = "idle" /\ "idle" \notin AllOps
  BY DEF NoReq, AllOps
<1> QED
  BY <1>1, <1>2

\* Nothing pending is a write (NoWrite, NoAim).
LEMMA NothingTypes ==
    NoParts \in [Trades -> 0 .. Quantity] /\ NoWrite \in EnvWrites /\ NoAim \in Aims
BY FillAssumption DEF NoParts, NoWrite, NoAim, EnvWrites, Aims

\* The rows a statement sees are rows (Seen).
LEMMA SeenType ==
    ASSUME NEW s \in Sessions, parts \in [Trades -> 0 .. Quantity]
    PROVE  Seen(s) \in Aims
BY DEF Seen, Aims, NoAim, Named, Deleting

\* What a call writes is a write, drops rows that are there, and names a trade or
\* splits (Write).
LEMMA WriteType ==
    ASSUME NEW s \in Sessions, req[s] \in Bodies, NEW seen \in Aims,
           whole \in Trades \cup {NoTrade}, parts \in [Trades -> 0 .. Quantity]
    PROVE  LET w == Write(s, seen) IN
           /\ w \in EnvWrites /\ w.drop \subseteq Named(parts)
           /\ w.whole # NoTrade => w.parts = NoParts
<1> DEFINE q == req[s]
           new == IF ReplacesSplits(q) THEN q.splits ELSE NoParts
           w == Write(s, seen)
<1>1. /\ q.trade \in Trades \cup {NoTrade} /\ q.splits \in [Trades -> 0 .. Quantity]
      /\ q.splits # NoParts => q.trade = NoTrade
  BY BodyTypes
<1>2. new \in [Trades -> 0 .. Quantity] /\ (q.trade # NoTrade => new = NoParts)
  BY <1>1, NothingTypes
<1>3. w.whole = q.trade /\ w.parts = new /\ w.drop = seen.parts \cap Named(parts)
  BY DEF Write
<1>4. w = [whole |-> w.whole, parts |-> w.parts, dropWhole |-> w.dropWhole, drop |-> w.drop]
      /\ w.dropWhole \in BOOLEAN
  BY DEF Write
<1>5. w.drop \subseteq Trades /\ w.drop \subseteq Named(parts)
  BY <1>3 DEF Named
<1>6. w \in EnvWrites
  BY <1>1, <1>2, <1>3, <1>4, <1>5 DEF EnvWrites
<1> QED
  BY <1>2, <1>3, <1>5, <1>6

-----------------------------------------------------------------------------
(* The invariant.                                                          *)

\* A step of the env database is one of these.
EnvStep(s) == EnvWrite(s) \/ EnvWriteAfterWait(s)

\* The parts of TypeOK a session's step can disturb, and Domains, its envWrite apart.
LocalTypes ==
    /\ raw \in [Rows -> {"home", "away", "gone"}]
    /\ lock \in [Rows -> Sessions \cup {Free}]
    /\ at \in [Sessions -> {"idle", "check", "write", "wait", "golden", "env"}]
    /\ req \in [Sessions -> Bodies \cup {NoReq}]
    /\ \A s \in Sessions : at[s] # "idle" => req[s] \in Bodies
    /\ acct \in [Sessions -> {"home", "away"}]
    /\ goldenWrite \in [Sessions -> {"home", "away", "gone", "nothing"}]
    /\ aim \in [Sessions -> Aims]
    /\ torn \in BOOLEAN /\ cast \in DOMAIN Casts /\ calls \in Nat /\ faults \in Nat

\* What the env database keeps and will be told.
EnvInv ==
    /\ whole \in Trades \cup {NoTrade} /\ parts \in [Trades -> 0 .. Quantity]
    /\ envWrite \in [Sessions -> EnvWrites]
    /\ NoTradeTwice
    /\ \A s \in Sessions : Fits(envWrite[s]) /\ envWrite[s].drop \subseteq Named(parts)
    /\ \A s, o \in Sessions : s # o => Apart(envWrite[s], envWrite[o])

\* FillInv is these two.
LEMMA Halves == FillInv <=> LocalTypes /\ EnvInv
<1>1. ASSUME envWrite \in [Sessions -> EnvWrites], aim \in [Sessions -> Aims], NEW s \in Sessions
      PROVE  /\ envWrite[s].whole \in Trades \cup {NoTrade} /\ envWrite[s].dropWhole \in BOOLEAN
             /\ envWrite[s].parts \in [Trades -> 0 .. Quantity] /\ envWrite[s].drop \subseteq Trades
             /\ aim[s].parts \subseteq Trades
  BY <1>1 DEF EnvWrites, Aims
<1>2. FillInv => LocalTypes /\ EnvInv
  BY DEF FillInv, TypeOK, Domains, LocalTypes, EnvInv
<1>3. LocalTypes /\ EnvInv => FillInv
  <2> SUFFICES ASSUME LocalTypes, EnvInv PROVE FillInv
    OBVIOUS
  <2>1. envWrite \in [Sessions -> EnvWrites] /\ aim \in [Sessions -> Aims]
    BY DEF LocalTypes, EnvInv
  <2>2. TypeOK
    BY <1>1, <2>1 DEF TypeOK, LocalTypes, EnvInv
  <2> QED
    BY <2>2 DEF FillInv, Domains, LocalTypes, EnvInv
<1> QED
  BY <1>2, <1>3

\* The end of a call leaves a session idle (Over).
LEMMA OverTypes ==
    ASSUME LocalTypes, NEW s \in Sessions, Over(s)
    PROVE  /\ lock' \in [Rows -> Sessions \cup {Free}]
           /\ at' \in [Sessions -> {"idle", "check", "write", "wait", "golden", "env"}]
           /\ req' \in [Sessions -> Bodies \cup {NoReq}]
           /\ \A o \in Sessions : at'[o] # "idle" => req'[o] \in Bodies
           /\ acct' \in [Sessions -> {"home", "away"}]
           /\ goldenWrite' \in [Sessions -> {"home", "away", "gone", "nothing"}]
           /\ aim' \in [Sessions -> Aims]
BY NothingTypes DEF LocalTypes, Over, Go, Unlocked

\* Every step keeps the types (Next).
LEMMA LocalTypesStep ==
    ASSUME LocalTypes, EnvInv, [Next]_fillVars
    PROVE  LocalTypes'
<1> USE DEF LocalTypes
<1>1. ASSUME NEW s \in Sessions, NEW q \in Bodies, Begin(s, q)
      PROVE  LocalTypes'
  <2>1. q.row \in Rows
    BY BodyTypes
  <2>2. at' = [at EXCEPT ![s] = "check"] /\ req' = [req EXCEPT ![s] = q]
    BY <1>1 DEF Begin, Go
  <2>3. \A o \in Sessions : at'[o] # "idle" => req'[o] \in Bodies
    BY <2>2
  <2>4. acct' \in [Sessions -> {"home", "away"}]
    <3>1. acct' = [acct EXCEPT ![s] = IF q.op = "insert" THEN "home" ELSE raw[q.row]]
      BY <1>1 DEF Begin
    <3>2. q.op # "insert" => raw[q.row] # "gone"
      BY <1>1 DEF Begin
    <3> QED
      BY <2>1, <3>1, <3>2
  <2>5. goldenWrite' = goldenWrite \/ goldenWrite' = [goldenWrite EXCEPT ![s] = "home"]
    BY <1>1 DEF Begin
  <2>6. lock' = lock \/ lock' = [lock EXCEPT ![q.row] = s]
    BY <1>1 DEF Begin
  <2>7. calls' \in Nat /\ UNCHANGED <<raw, aim, torn, cast, faults>>
    BY <1>1 DEF Begin
  <2>8. at' \in [Sessions -> {"idle", "check", "write", "wait", "golden", "env"}]
        /\ req' \in [Sessions -> Bodies \cup {NoReq}]
    BY <2>2
  <2>9. goldenWrite' \in [Sessions -> {"home", "away", "gone", "nothing"}]
        /\ lock' \in [Rows -> Sessions \cup {Free}]
    BY <2>5, <2>6
  <2> QED
    BY <2>3, <2>4, <2>7, <2>8, <2>9
<1>2. ASSUME NEW s \in Sessions, CheckWrite(s)
      PROVE  LocalTypes'
  <2>1. UNCHANGED <<raw, torn, cast, calls, faults>>
    BY <1>2 DEF CheckWrite
  <2>2. CASE Over(s)
    BY <2>1, <2>2, OverTypes
  <2>3. CASE Go(s, "write") /\ UNCHANGED <<req, acct, goldenWrite, aim, lock>>
    BY <1>2, <2>1, <2>3 DEF CheckWrite, Go
  <2> QED
    BY <1>2, <2>2, <2>3 DEF CheckWrite
<1>3. ASSUME NEW s \in Sessions, CheckUpdate(s)
      PROVE  LocalTypes'
  <2> DEFINE moves == "account_id" \in req[s].sends /\ req[s].account # acct[s]
             account == IF moves THEN req[s].account ELSE acct[s]
  <2>1. UNCHANGED <<raw, torn, cast, calls, faults>> /\ at[s] = "check"
    BY <1>3 DEF CheckUpdate
  <2>2. CASE Over(s)
    BY <2>1, <2>2, OverTypes
  <2>3. CASE /\ acct' = [acct EXCEPT ![s] = account]
             /\ goldenWrite' = [goldenWrite EXCEPT ![s] = IF moves THEN account ELSE @]
             /\ Go(s, "write") /\ UNCHANGED <<req, aim, lock>>
    <3>1. account \in {"home", "away"}
      BY <2>1, BodyTypes
    <3> HIDE DEF account, moves
    <3> QED
      BY <2>1, <2>3, <3>1 DEF Go
  <2> QED
    BY <1>3, <2>2, <2>3 DEF CheckUpdate
<1>4. ASSUME NEW s \in Sessions, CheckDelete(s)
      PROVE  LocalTypes'
  <2>1. UNCHANGED <<raw, torn, cast, calls, faults>> /\ at[s] = "check"
    BY <1>4 DEF CheckDelete
  <2>2. CASE Over(s)
    BY <2>1, <2>2, OverTypes
  <2>3. CASE /\ lock' = [lock EXCEPT ![req[s].row] = s]
             /\ goldenWrite' = [goldenWrite EXCEPT ![s] = "gone"]
             /\ Go(s, "write") \/ Go(s, "golden")
             /\ UNCHANGED <<req, acct, aim>>
    BY <2>1, <2>3 DEF Go
  <2> QED
    BY <1>4, <2>2, <2>3 DEF CheckDelete
<1>5. ASSUME NEW s \in Sessions, EnvStep(s)
      PROVE  LocalTypes'
  <2>1. UNCHANGED <<raw, torn, cast, calls, faults>> /\ at[s] # "idle"
    BY <1>5 DEF EnvStep, EnvWrite, EnvWriteAfterWait
  <2>2. Seen(s) \in Aims
    BY SeenType DEF EnvInv
  <2>3. CASE Over(s)
    BY <2>1, <2>3, OverTypes
  <2>4. CASE /\ aim' \in {[aim EXCEPT ![s] = Seen(s)], [aim EXCEPT ![s] = NoAim]}
             /\ \E step \in {"wait", "golden", "env"} : Go(s, step)
             /\ UNCHANGED <<req, acct, goldenWrite, lock>>
    BY <2>1, <2>2, <2>4, NothingTypes DEF Go
  <2> QED
    BY <1>5, <2>3, <2>4 DEF EnvStep, EnvWrite, EnvWriteAfterWait, Written
<1>6. ASSUME NEW s \in Sessions, GoldenCommit(s)
      PROVE  LocalTypes'
  <2>1. req[s].row \in Rows
    BY <1>6, BodyTypes DEF GoldenCommit
  <2>2. raw' = [raw EXCEPT ![req[s].row] = IF goldenWrite[s] = "nothing" THEN @ ELSE goldenWrite[s]]
    BY <1>6 DEF GoldenCommit
  <2>3. raw' \in [Rows -> {"home", "away", "gone"}]
    BY <2>1, <2>2
  <2>4. lock' = Unlocked(s) /\ Go(s, "env")
        /\ UNCHANGED <<req, acct, goldenWrite, aim, torn, cast, calls, faults>> /\ at[s] = "golden"
    BY <1>6 DEF GoldenCommit
  <2> QED
    BY <2>3, <2>4 DEF Go, Unlocked
<1>7. ASSUME NEW s \in Sessions, EnvCommit(s)
      PROVE  LocalTypes'
  BY <1>7, OverTypes DEF EnvCommit
<1>8. ASSUME NEW s \in Sessions, Fail(s)
      PROVE  LocalTypes'
  <2>1. Over(s) /\ UNCHANGED <<raw, cast, calls>> /\ faults' = faults + 1 /\ torn' \in BOOLEAN
    BY <1>8 DEF Fail
  <2> QED
    BY <2>1, OverTypes
<1>9. ASSUME NEW r \in Rows, Import(r)
      PROVE  LocalTypes'
  BY <1>9 DEF Import, session
<1>10. CASE UNCHANGED fillVars
  BY <1>10 DEF fillVars, golden, session
<1> QED
  BY <1>1, <1>2, <1>3, <1>4, <1>5, <1>6, <1>7, <1>8, <1>9, <1>10 DEF Next, EnvStep

\* A step that leaves the env rows alone and writes nothing on them keeps EnvInv.
LEMMA EnvKept ==
    ASSUME EnvInv, UNCHANGED env, NEW s \in Sessions,
           envWrite' \in {envWrite, [envWrite EXCEPT ![s] = NoWrite]}
    PROVE  EnvInv'
<1> USE DEF EnvInv
<1>1. UNCHANGED <<whole, parts>>
  BY DEF env
<1>2. \A o \in Sessions : envWrite'[o] = envWrite[o] \/ envWrite'[o] = NoWrite
  OBVIOUS
<1>3. envWrite' \in [Sessions -> EnvWrites] /\ NoTradeTwice'
  BY <1>1, NothingTypes DEF NoTradeTwice
<1>4. NoWrite.drop = {} /\ Fits(NoWrite) /\ Takes(NoWrite) = {}
  BY DEF NoWrite, NoParts, Fits, NotUnique, Takes, Named
<1>5. \A w : Fits(w)' <=> Fits(w)
  BY <1>1 DEF Fits, NotUnique
<1>6. \A o \in Sessions : Fits(envWrite'[o]) /\ envWrite'[o].drop \subseteq Named(parts)
  BY <1>2, <1>4
<1>7. \A o, p \in Sessions : o # p => Apart(envWrite'[o], envWrite'[p])
  <2>1. \A w \in EnvWrites : Apart(w, NoWrite) /\ Apart(NoWrite, w)
    BY <1>4 DEF Apart
  <2> QED
    BY <1>2, <2>1, NothingTypes
<1> QED
  BY <1>1, <1>3, <1>5, <1>6, <1>7

\* An env write that waits for nobody and meets no key fits the rows and is apart from
\* the others' (Blocked, NotUnique).
LEMMA WrittenFits ==
    ASSUME EnvInv, UNCHANGED env, NEW s \in Sessions, NEW w \in EnvWrites,
           w.drop \subseteq Named(parts), w.whole # NoTrade => w.parts = NoParts,
           ~Blocked(s, w), ~NotUnique(w), envWrite' = [envWrite EXCEPT ![s] = w]
    PROVE  EnvInv'
<1> USE DEF EnvInv
<1>1. UNCHANGED <<whole, parts>>
  BY DEF env
<1>2. envWrite'[s] = w /\ \A o \in Sessions \ {s} : envWrite'[o] = envWrite[o]
  OBVIOUS
<1>3. Fits(w)
  BY DEF Fits
<1>4. ASSUME NEW o \in Sessions \ {s}
      PROVE  Apart(w, envWrite[o]) /\ Apart(envWrite[o], w)
  <2> DEFINE v == envWrite[o]
  <2>1. w.drop \cap v.drop = {} /\ Takes(w) \cap (Named(v.parts) \cup {v.whole} \cup v.drop) = {}
    BY DEF Blocked, Takes
  <2>2. Takes(v) \cap w.drop = {}
    <3> SUFFICES ASSUME NEW t \in w.drop, t \in Takes(v) PROVE FALSE
      OBVIOUS
    <3>1. parts[t] # 0 /\ t \notin v.drop
      BY <2>1 DEF Named
    <3>2. t \in Named(v.parts) => parts[t] = 0 \/ t \in v.drop
      BY DEF Fits, NotUnique
    <3>3. v.whole = t /\ t # NoTrade => parts[t] = 0 \/ t \in v.drop
      BY DEF Fits, NotUnique
    <3> QED
      BY <3>1, <3>2, <3>3 DEF Takes
  <2> QED
    BY <2>1, <2>2 DEF Apart, Takes
<1>5. \A u : Fits(u)' <=> Fits(u)
  BY <1>1 DEF Fits, NotUnique
<1>6. \A o \in Sessions : Fits(envWrite'[o]) /\ envWrite'[o].drop \subseteq Named(parts)
  BY <1>2, <1>3
<1>7. \A o, p \in Sessions : o # p => Apart(envWrite'[o], envWrite'[p])
  BY <1>2, <1>4
<1>8. envWrite' \in [Sessions -> EnvWrites] /\ NoTradeTwice'
  BY <1>1 DEF NoTradeTwice
<1> QED
  BY <1>1, <1>5, <1>6, <1>7, <1>8

\* What a commit leaves of the rows: no trade twice, and the others' writes fit
\* (EnvCommit).
LEMMA CommittedFits ==
    ASSUME EnvInv, NEW s \in Sessions, EnvCommit(s)
    PROVE  EnvInv'
<1> USE DEF EnvInv
<1> DEFINE w == envWrite[s]
<1>1. /\ parts' = PartsAfter(w) /\ whole' = WholeAfter(w)
      /\ envWrite' = [envWrite EXCEPT ![s] = NoWrite]
  BY DEF EnvCommit, PartsAfter, WholeAfter, Over
<1>2. /\ w.parts \in [Trades -> 0 .. Quantity] /\ w.whole \in Trades \cup {NoTrade}
      /\ w.drop \subseteq Trades /\ Fits(w)
  BY DEF EnvWrites
<1>3. parts' \in [Trades -> 0 .. Quantity] /\ whole' \in Trades \cup {NoTrade}
  <2>1. 0 \in 0 .. Quantity
    BY FillAssumption
  <2> QED
    BY <1>1, <1>2, <2>1 DEF PartsAfter, WholeAfter
<1>4. \A t \in Trades : parts'[t] = IF w.parts[t] # 0 THEN w.parts[t]
                                    ELSE IF t \in w.drop THEN 0 ELSE parts[t]
  BY <1>1 DEF PartsAfter
<1>5. NoTradeTwice'
  <2> SUFFICES ASSUME whole' # NoTrade PROVE parts'[whole'] = 0
    BY DEF NoTradeTwice
  <2>1. CASE w.whole # NoTrade
    <3>1. whole' = w.whole /\ w.whole \in Trades /\ w.parts[w.whole] = 0
      BY <1>1, <1>2, <2>1 DEF WholeAfter, Fits, NoParts
    <3>2. parts[w.whole] = 0 \/ w.whole \in w.drop
      BY <1>2, <2>1 DEF Fits, NotUnique
    <3> QED
      BY <1>4, <3>1, <3>2
  <2>2. CASE w.whole = NoTrade
    <3>1. whole' = whole /\ ~w.dropWhole /\ whole \in Trades
      BY <1>1, <2>2 DEF WholeAfter
    <3>2. parts[whole] = 0
      BY <3>1 DEF NoTradeTwice
    <3>3. w.parts[whole] = 0
      BY <1>2, <3>1 DEF Fits, NotUnique, Named
    <3> QED
      BY <1>4, <3>1, <3>2, <3>3
  <2> QED
    BY <2>1, <2>2
<1>6. ASSUME NEW o \in Sessions \ {s}
      PROVE  Fits(envWrite[o])' /\ envWrite[o].drop \subseteq Named(parts)'
  <2> DEFINE v == envWrite[o]
  <2>1. /\ v.parts \in [Trades -> 0 .. Quantity] /\ v.whole \in Trades \cup {NoTrade}
        /\ v.drop \subseteq Trades /\ Fits(v) /\ v.drop \subseteq Named(parts)
    BY DEF EnvWrites
  <2>2. Apart(w, v) /\ Apart(v, w)
    OBVIOUS
  <2>3. ASSUME NEW t \in Takes(v)
        PROVE  (parts[t] = 0 \/ t \in v.drop) /\ w.parts[t] = 0 /\ w.whole # t /\ t \in Trades
    <3>1. t \in Trades
      BY <2>1, FillAssumption DEF Takes, Named
    <3>2. t \notin Takes(w)
      BY <2>2, <2>3 DEF Apart
    <3>3. w.parts[t] = 0 /\ w.whole # t
      BY <1>2, <3>1, <3>2, FillAssumption DEF Takes, Named
    <3> QED
      BY <2>1, <3>1, <3>3 DEF Takes, Fits, NotUnique
  <2>4. \A t \in Takes(v) : parts'[t] = 0 \/ t \in v.drop
    BY <1>4, <2>3
  <2>5. \A t \in v.drop : t \notin w.drop /\ t \in Trades /\ parts[t] # 0
    BY <2>1, <2>2 DEF Apart, Named
  <2>6. \A t \in v.drop : parts'[t] # 0
    BY <1>4, <2>5
  <2>7. \A t \in Named(v.parts) : ~(whole' = t /\ ~v.dropWhole)
    <3> SUFFICES ASSUME NEW t \in Named(v.parts), whole' = t, ~v.dropWhole PROVE FALSE
      OBVIOUS
    <3>1. t \in Takes(v) /\ t \in Trades /\ t # NoTrade
      BY FillAssumption DEF Takes, Named
    <3>2. whole' = whole
      BY <1>1, <2>3, <3>1 DEF WholeAfter
    <3> QED
      BY <2>1, <3>2 DEF Fits, NotUnique
  <2>8. \A t \in Named(v.parts) : t \in Takes(v)
    BY DEF Takes
  <2>9. v.whole # NoTrade => v.whole \in Takes(v) /\ v.parts = NoParts
    BY <2>1 DEF Takes, Fits
  <2>10. /\ \A t \in Named(v.parts) : ~(parts'[t] # 0 /\ t \notin v.drop)
         /\ ~(v.whole # NoTrade /\ parts'[v.whole] # 0 /\ v.whole \notin v.drop)
    BY <2>4, <2>8, <2>9
  <2>11. envWrite'[o] = v
    BY <1>1
  <2> HIDE DEF v
  <2>12. Fits(envWrite[o])'
    BY <2>7, <2>9, <2>10, <2>11 DEF Fits, NotUnique, Named, NoParts
  <2> QED
    BY <2>5, <2>6, <2>12 DEF v, Named
<1>7. NoWrite.drop = {} /\ Takes(NoWrite) = {} /\ Fits(NoWrite)'
  BY DEF NoWrite, NoParts, Fits, NotUnique, Takes, Named
<1>8. envWrite'[s] = NoWrite /\ \A o \in Sessions \ {s} : envWrite'[o] = envWrite[o]
  BY <1>1
<1>9. \A o \in Sessions : Fits(envWrite[o])' /\ envWrite'[o].drop \subseteq Named(parts)'
  BY <1>6, <1>7, <1>8
<1>10. \A o, p \in Sessions : o # p => Apart(envWrite'[o], envWrite'[p])
  <2>1. \A v \in EnvWrites : Apart(v, NoWrite) /\ Apart(NoWrite, v)
    BY <1>7 DEF Apart
  <2>2. \A o, p \in Sessions \ {s} : o # p => Apart(envWrite[o], envWrite[p])
    OBVIOUS
  <2> QED
    BY <1>8, <2>1, <2>2, NothingTypes
<1>11. envWrite' \in [Sessions -> EnvWrites]
  BY <1>1, NothingTypes
<1> QED
  BY <1>3, <1>5, <1>9, <1>10, <1>11

\* Every step keeps what the env database holds and will be told (Next).
LEMMA EnvInvStep ==
    ASSUME LocalTypes, EnvInv, [Next]_fillVars
    PROVE  EnvInv'
<1>1. ASSUME NEW s \in Sessions, UNCHANGED env, UNCHANGED envWrite \/ Over(s)
      PROVE  EnvInv'
  BY <1>1, EnvKept DEF Over
<1>2. ASSUME NEW s \in Sessions, NEW w, UNCHANGED env, Written(s, w), ~Blocked(s, w),
             w \in EnvWrites, w.drop \subseteq Named(parts), w.whole # NoTrade => w.parts = NoParts
      PROVE  EnvInv'
  <2>1. CASE NotUnique(w)
    BY <1>1, <1>2, <2>1 DEF Written
  <2>2. CASE ~NotUnique(w)
    BY <1>2, <2>2, WrittenFits DEF Written
  <2> QED
    BY <2>1, <2>2
<1>3. ASSUME NEW s \in Sessions, EnvWrite(s)
      PROVE  EnvInv'
  <2> DEFINE w == Write(s, Seen(s))
  <2>1. at[s] # "idle" /\ UNCHANGED env
    BY <1>3 DEF EnvWrite
  <2>2. w \in EnvWrites /\ w.drop \subseteq Named(parts) /\ (w.whole # NoTrade => w.parts = NoParts)
    BY <2>1, SeenType, WriteType DEF LocalTypes, EnvInv
  <2>3. UNCHANGED envWrite \/ (Written(s, w) /\ ~Blocked(s, w))
    BY <1>3 DEF EnvWrite
  <2> HIDE DEF w
  <2> QED
    BY <1>1, <1>2, <2>1, <2>2, <2>3
<1>4. ASSUME NEW s \in Sessions, EnvWriteAfterWait(s)
      PROVE  EnvInv'
  <2> DEFINE w == Write(s, aim[s])
  <2>1. at[s] # "idle" /\ UNCHANGED env /\ aim[s] \in Aims
    BY <1>4 DEF EnvWriteAfterWait, LocalTypes
  <2>2. w \in EnvWrites /\ w.drop \subseteq Named(parts) /\ (w.whole # NoTrade => w.parts = NoParts)
    BY <2>1, WriteType DEF LocalTypes, EnvInv
  <2>3. Written(s, w) /\ ~Blocked(s, w)
    BY <1>4 DEF EnvWriteAfterWait
  <2> HIDE DEF w
  <2> QED
    BY <1>2, <2>1, <2>2, <2>3
<1>5. ASSUME NEW s \in Sessions, NEW q \in Bodies, Begin(s, q)
      PROVE  EnvInv'
  BY <1>1, <1>5 DEF Begin
<1>6. ASSUME NEW s \in Sessions, CheckWrite(s) \/ CheckUpdate(s) \/ CheckDelete(s)
      PROVE  EnvInv'
  BY <1>1, <1>6 DEF CheckWrite, CheckUpdate, CheckDelete
<1>7. ASSUME NEW s \in Sessions, GoldenCommit(s) \/ Fail(s)
      PROVE  EnvInv'
  BY <1>1, <1>7 DEF GoldenCommit, Fail
<1>8. ASSUME UNCHANGED <<env, envWrite>>
      PROVE  EnvInv'
  BY <1>8 DEF EnvInv, env, NoTradeTwice, Fits, NotUnique, Named
<1>9. ASSUME NEW r \in Rows, Import(r)
      PROVE  EnvInv'
  BY <1>8, <1>9 DEF Import, session
<1>10. CASE UNCHANGED fillVars
  BY <1>8, <1>10 DEF fillVars, session
<1> QED
  BY <1>3, <1>4, <1>5, <1>6, <1>7, <1>9, <1>10, CommittedFits DEF Next

\* FillInv holds at the start.
LEMMA FillInit == Init => FillInv
<1> SUFFICES ASSUME Init PROVE FillInv
  OBVIOUS
<1>1. LocalTypes
  BY NothingTypes DEF Init, LocalTypes
<1>2. /\ whole = NoTrade /\ parts = NoParts /\ envWrite = [s \in Sessions |-> NoWrite]
  BY DEF Init
<1>3. NoWrite.drop = {} /\ Fits(NoWrite) /\ Takes(NoWrite) = {}
  BY DEF NoWrite, NoParts, Fits, NotUnique, Takes, Named
<1>4. EnvInv
  BY <1>2, <1>3, NothingTypes DEF EnvInv, Apart, NoTradeTwice
<1> QED
  BY <1>1, <1>4, Halves

\* Every reachable state satisfies the inductive invariant.
THEOREM FillInvariant == Spec => []FillInv
<1>1. FillInv /\ [Next]_fillVars => FillInv'
  <2>1. (FillInv <=> LocalTypes /\ EnvInv)'
    BY Halves, PTL
  <2> QED
    BY <2>1, Halves, LocalTypesStep, EnvInvStep
<1> QED
  BY <1>1, FillInit, PTL DEF Spec

\* The state of the writers of a fill keeps its types (the writers of
\* portfolio/reader/accounts.py).
THEOREM FillTypes == Spec => []TypeOK
<1>1. FillInv => TypeOK
  BY DEF FillInv
<1> QED
  BY <1>1, FillInvariant, PTL

\* No trade has two rows of a fill, whole and split or split twice, however many
\* writers meet and whatever fails (the unique keys of trade_execution).
THEOREM FillNoTradeTwice == Spec => []NoTradeTwice
<1>1. FillInv => NoTradeTwice
  BY DEF FillInv
<1> QED
  BY <1>1, FillInvariant, PTL

-----------------------------------------------------------------------------
(* Calls that do not overlap.                                              *)

\* A call that has written nothing will leave the rows as they are (NoWrite).
LEMMA AfterNothing ==
    ASSUME parts \in [Trades -> 0 .. Quantity]
    PROVE  WholeAfter(NoWrite) = whole /\ PartsAfter(NoWrite) = parts
BY DEF WholeAfter, PartsAfter, NoWrite, NoParts

\* What a call has checked makes what it writes right: a trade on a fill without
\* splits, splits that add up, or nothing (Write, SplitsAccepted, WholeAccepted).
LEMMA WriteIsRight ==
    ASSUME NEW s \in Sessions, req[s] \in Bodies, req[s].op \notin {"update", "insert"},
           whole \in Trades \cup {NoTrade}, parts \in [Trades -> 0 .. Quantity],
           acct[s] = "home", Right(whole, parts),
           ~Deleting(req[s]) => SplitsAccepted(req[s], "home") /\ WholeAccepted(req[s], "home")
    PROVE  LET w == Write(s, Seen(s)) IN
           /\ Right(WholeAfter(w), PartsAfter(w))
           /\ Deleting(req[s]) => WholeAfter(w) = NoTrade /\ Named(PartsAfter(w)) = {}
<1> DEFINE q == req[s]
           w == Write(s, Seen(s))
           new == IF ReplacesSplits(q) THEN q.splits ELSE NoParts
           clears == Deleting(q) \/ ReplacesSplits(q)
<1>1. /\ q.trade \in Trades \cup {NoTrade} /\ q.splits \in [Trades -> 0 .. Quantity]
      /\ q.trade # NoTrade => "trade_id" \in q.sends
      /\ q.splits # NoParts => "fill_splits" \in q.sends
      /\ ~q.null
      /\ q.splits # NoParts => q.trade = NoTrade
      /\ Deleting(q) => q.sends = {}
  BY BodyTypes
<1>2. /\ w.whole = q.trade /\ w.parts = new
      /\ w.drop = IF clears THEN Named(parts) ELSE {}
  BY DEF Write, Seen
<1>3. Deleting(q) => q.trade = NoTrade /\ new = NoParts
  BY <1>1 DEF ReplacesSplits
<1>4. w.dropWhole <=> whole # NoTrade
        /\ (\/ Deleting(q) \/ q.trade # NoTrade \/ new # NoParts
            \/ ~Deleting(q) /\ TouchesWhole(q))
  BY <1>1, <1>3 DEF Write, Seen
<1>5. PartsAfter(w) = IF clears THEN new ELSE parts
  <2>1. new \in [Trades -> 0 .. Quantity] /\ \A t \in Trades : NoParts[t] = 0
    BY <1>1, NothingTypes DEF NoParts
  <2>2. \A t \in Trades : t \in Named(parts) <=> parts[t] # 0
    BY DEF Named
  <2>3. ~clears => new = NoParts
    OBVIOUS
  <2>4. \A t \in Trades : PartsAfter(w)[t] = IF clears THEN new[t] ELSE parts[t]
    <3> HIDE DEF w, new, clears
    <3> QED
      BY <1>2, <2>1, <2>2, <2>3 DEF PartsAfter
  <2> HIDE DEF w, new, clears
  <2> QED
    BY <2>1, <2>4 DEF PartsAfter
<1>6. WholeAfter(w) = IF q.trade # NoTrade THEN q.trade ELSE IF w.dropWhole THEN NoTrade ELSE whole
  BY <1>2 DEF WholeAfter
<1>7. Named(NoParts) = {}
  BY DEF Named, NoParts
<1>8. CASE Deleting(q)
  BY <1>3, <1>4, <1>5, <1>6, <1>7, <1>8 DEF Right
<1>9. CASE ~Deleting(q) /\ ReplacesSplits(q) /\ q.splits # NoParts
  <2>1. WholeAfter(w) = NoTrade
    BY <1>1, <1>4, <1>6, <1>9
  <2>2. PartsAfter(w) = q.splits /\ Total(q.splits) = Quantity
    BY <1>5, <1>9 DEF SplitsAccepted
  <2> QED
    BY <1>9, <2>1, <2>2 DEF Right
<1>10. CASE ~Deleting(q) /\ ReplacesSplits(q) /\ q.splits = NoParts
  BY <1>5, <1>7, <1>10 DEF Right
<1>11. CASE ~Deleting(q) /\ ~ReplacesSplits(q)
  <2>1. PartsAfter(w) = parts /\ "fill_splits" \notin q.sends
    BY <1>1, <1>5, <1>11 DEF ReplacesSplits
  <2>2. q.trade # NoTrade => Named(parts) = {}
    BY <1>11, <2>1 DEF WholeAccepted
  <2>3. q.trade = NoTrade => WholeAfter(w) \in {whole, NoTrade}
    BY <1>6
  <2> QED
    BY <1>11, <2>1, <2>2, <2>3 DEF Right
<1> QED
  BY <1>8, <1>9, <1>10, <1>11

\* The parts of SerialInv when calls do not overlap.
SerialNow ==
    /\ \A r \in Rows : raw[r] # "away"
    /\ \A s, o \in Sessions : at[s] # "idle" /\ at[o] # "idle" => s = o
    /\ \A s \in Sessions : IF at[s] = "idle" THEN envWrite[s] = NoWrite /\ goldenWrite[s] = "nothing"
                           ELSE CallOK(s)
    /\ Right(whole, parts)
    /\ NoOrphan

\* What one call makes of its own state carries SerialNow over, for the others are idle.
LEMMA SerialFrame ==
    ASSUME SerialNow, NEW s \in Sessions, \A o \in Sessions \ {s} : at[o] = "idle",
           \A o \in Sessions \ {s} :
               at'[o] = at[o] /\ envWrite'[o] = envWrite[o] /\ goldenWrite'[o] = goldenWrite[o],
           IF at'[s] = "idle" THEN envWrite'[s] = NoWrite /\ goldenWrite'[s] = "nothing" ELSE CallOK(s)',
           \A r \in Rows : raw'[r] # "away", Right(whole, parts)', NoOrphan'
    PROVE  SerialNow'
<1>1. \A o, p \in Sessions : at'[o] # "idle" /\ at'[p] # "idle" => o = p
  OBVIOUS
<1>2. \A o \in Sessions : IF at'[o] = "idle" THEN envWrite'[o] = NoWrite /\ goldenWrite'[o] = "nothing"
                          ELSE CallOK(o)'
  <2>1. \A o \in Sessions \ {s} : at'[o] = "idle" /\ envWrite'[o] = NoWrite /\ goldenWrite'[o] = "nothing"
    BY DEF SerialNow
  <2> QED
    BY <2>1
<1> QED
  BY <1>1, <1>2 DEF SerialNow

\* A step that changes neither rows nor attribution, by a call that is not between its
\* commits, leaves no orphan.
LEMMA NoOrphanKept ==
    ASSUME NoOrphan, Serial, Serial', UNCHANGED <<raw, whole, parts, torn>>,
           \A s \in Sessions : at[s] # "env"
    PROVE  NoOrphan'
BY DEF NoOrphan, Attributed, Named

\* The call that is under way is the only one (Begin).
LEMMA Alone ==
    ASSUME SerialNow, NEW s \in Sessions, at[s] # "idle"
    PROVE  /\ \A o \in Sessions \ {s} : at[o] = "idle" /\ envWrite[o] = NoWrite
           /\ CallOK(s)
BY DEF SerialNow

\* The end of a call without effect keeps SerialNow (Over).
LEMMA SerialOver ==
    ASSUME LocalTypes, EnvInv, SerialNow, Serial, Serial', NEW s \in Sessions, at[s] # "idle",
           Over(s), UNCHANGED <<raw, env>>, at[s] # "env" => torn' = torn,
           at[s] = "env" => torn' \/ goldenWrite[s] = "nothing"
    PROVE  SerialNow'
<1>1. /\ \A o \in Sessions \ {s} : at[o] = "idle" /\ envWrite[o] = NoWrite
      /\ CallOK(s)
  BY Alone
<1>2. at'[s] = "idle" /\ envWrite'[s] = NoWrite /\ goldenWrite'[s] = "nothing"
  BY DEF Over, Go, LocalTypes, EnvInv
<1>3. \A o \in Sessions \ {s} :
          at'[o] = at[o] /\ envWrite'[o] = envWrite[o] /\ goldenWrite'[o] = goldenWrite[o]
  BY DEF Over, Go, LocalTypes, EnvInv
<1>4. (\A r \in Rows : raw'[r] # "away") /\ Right(whole, parts)'
  <2>1. whole' = whole /\ parts' = parts /\ raw' = raw
    BY DEF env
  <2>2. Right(whole, parts)' <=> Right(whole', parts')
    BY DEF Right
  <2> QED
    BY <2>1, <2>2 DEF SerialNow
<1>5. NoOrphan'
  <2>1. CASE at[s] = "env"
    <3>1. req[s] \in Bodies
      BY DEF LocalTypes
    <3>2. goldenWrite[s] = "nothing" => raw[req[s].row] = "home"
      BY <1>1, <2>1 DEF CallOK
    <3>3. req[s].row \in Rows
      BY <3>1, BodyTypes
    <3> QED
      BY <2>1, <3>2, <3>3 DEF NoOrphan
  <2>2. CASE at[s] # "env"
    BY <1>1, <2>2, NoOrphanKept DEF env, SerialNow
  <2> QED
    BY <2>1, <2>2
<1> QED
  BY <1>1, <1>2, <1>3, <1>4, <1>5, SerialFrame

\* A step of the only call that leaves rows and attribution alone, and is not between
\* its commits, keeps SerialNow when it keeps CallOK.
LEMMA SerialGo ==
    ASSUME LocalTypes, EnvInv, SerialNow, Serial, Serial', NEW s \in Sessions,
           \A o \in Sessions \ {s} : at[o] = "idle", at[s] # "env",
           at'[s] # "idle", CallOK(s)', UNCHANGED <<raw, env, torn>>,
           \A o \in Sessions \ {s} :
               at'[o] = at[o] /\ envWrite'[o] = envWrite[o] /\ goldenWrite'[o] = goldenWrite[o]
    PROVE  SerialNow'
<1>1. whole' = whole /\ parts' = parts /\ raw' = raw /\ torn' = torn
  BY DEF env
<1>2. Right(whole, parts)' <=> Right(whole', parts')
  BY DEF Right
<1>3. (\A r \in Rows : raw'[r] # "away") /\ Right(whole, parts)'
  BY <1>1, <1>2 DEF SerialNow
<1>4. NoOrphan'
  BY <1>1, NoOrphanKept DEF SerialNow
<1> QED
  BY <1>3, <1>4, SerialFrame

\* Begin, while no other call is under way.
LEMMA SerialBegin ==
    ASSUME LocalTypes, EnvInv, SerialNow, Serial, Serial', NEW s \in Sessions,
           NEW q \in Bodies, Begin(s, q)
    PROVE  SerialNow'
<1> DEFINE active == {o \in Sessions : at[o] # "idle"}
<1>1. active = {}
  <2>1. Cardinality(active) < 1
    BY DEF Begin, Serial
  <2>2. IsFiniteSet(active)
    BY FillAssumption, FS_Subset
  <2>3. Cardinality(active) = 0
    BY <2>1, <2>2, FS_CardinalityType
  <2> QED
    BY <2>2, <2>3, FS_EmptySet
<1>2. q.op \in limits.ops /\ q.op \notin {"update", "insert"} /\ UNCHANGED cast
  BY DEF Begin, Serial
<1>3. /\ at' = [at EXCEPT ![s] = "check"] /\ req' = [req EXCEPT ![s] = q]
      /\ acct' = [acct EXCEPT ![s] = raw[q.row]]
      /\ raw[q.row] # "gone" /\ UNCHANGED <<raw, env, envWrite, goldenWrite, torn>>
  BY <1>2 DEF Begin, Go
<1>4. q.row \in Rows
  BY BodyTypes
<1>5. raw[q.row] = "home"
  BY <1>3, <1>4 DEF SerialNow, LocalTypes
<1>6. at'[s] = "check" /\ req'[s] = q /\ acct'[s] = "home"
  BY <1>3, <1>5 DEF LocalTypes
<1>7. envWrite'[s] = NoWrite /\ goldenWrite'[s] = "nothing" /\ raw'[q.row] = "home"
      /\ q.op \in limits'.ops
  BY <1>1, <1>2, <1>3, <1>5 DEF SerialNow, limits
<1>8. CallOK(s)'
  BY <1>6, <1>7 DEF CallOK
<1>9. \A o \in Sessions \ {s} : at'[o] = at[o]
  BY <1>3 DEF LocalTypes
<1> QED
  BY <1>1, <1>3, <1>6, <1>8, <1>9, SerialGo

\* The checks of the only call.
LEMMA SerialCheck ==
    ASSUME LocalTypes, EnvInv, SerialNow, Serial, Serial', NEW s \in Sessions,
           CheckWrite(s) \/ CheckUpdate(s) \/ CheckDelete(s)
    PROVE  SerialNow'
<1> DEFINE q == req[s]
<1>1. at[s] = "check" /\ UNCHANGED <<raw, env, torn, cast>>
  BY DEF CheckWrite, CheckUpdate, CheckDelete
<1>2. q \in Bodies
  BY <1>1 DEF LocalTypes
<1>3. (\A o \in Sessions \ {s} : at[o] = "idle") /\ CallOK(s)
  BY <1>1, Alone
<1>4. q.op # "update" /\ acct[s] = "home" /\ envWrite[s] = NoWrite
  BY <1>1, <1>3 DEF CallOK, Serial
<1>5. CASE Over(s)
  BY <1>1, <1>5, SerialOver
<1>6. CASE ~Over(s) /\ CheckWrite(s)
  <2>1. /\ at' = [at EXCEPT ![s] = "write"] /\ UNCHANGED <<req, acct, goldenWrite, envWrite>>
        /\ SplitsAccepted(q, "home") /\ WholeAccepted(q, "home") /\ ~Deleting(q)
    BY <1>4, <1>6 DEF CheckWrite, Go, Deleting
  <2>2. at'[s] = "write" /\ \A o \in Sessions \ {s} : at'[o] = at[o]
    BY <2>1 DEF LocalTypes
  <2>3. SplitsAccepted(q, "home")' /\ WholeAccepted(q, "home")'
    BY <1>1, <2>1 DEF SplitsAccepted, WholeAccepted, ReplacesSplits, Named, env
  <2>4. CallOK(s)'
    <3>1. q.op \in limits'.ops /\ raw' = raw
      BY <1>1, <1>3 DEF CallOK, limits
    <3> QED
      BY <1>1, <1>3, <1>4, <2>1, <2>2, <2>3, <3>1 DEF CallOK, Deleting, env
  <2> QED
    BY <1>1, <1>3, <2>1, <2>2, <2>4, SerialGo
<1>7. CASE ~Over(s) /\ CheckDelete(s)
  <2>1. /\ \/ /\ at' = [at EXCEPT ![s] = "golden"]
              /\ \E t \in Rows \ {q.row} : raw[t] = "home"
           \/ at' = [at EXCEPT ![s] = "write"]
        /\ goldenWrite' = [goldenWrite EXCEPT ![s] = "gone"]
        /\ UNCHANGED <<req, acct, envWrite>> /\ Deleting(q)
    BY <1>4, <1>7 DEF CheckDelete, Go
  <2>2. /\ at'[s] = "golden" => \E t \in Rows \ {q.row} : raw[t] = "home"
        /\ at'[s] \in {"golden", "write"} /\ goldenWrite'[s] = "gone"
        /\ \A o \in Sessions \ {s} : at'[o] = at[o] /\ goldenWrite'[o] = goldenWrite[o]
    BY <2>1 DEF LocalTypes
  <2>3. Right(WholeAfter(NoWrite), PartsAfter(NoWrite))'
    <3>1. Right(WholeAfter(NoWrite), PartsAfter(NoWrite))
      BY AfterNothing DEF SerialNow, EnvInv
    <3>2. Right(WholeAfter(NoWrite), PartsAfter(NoWrite))'
              <=> Right(WholeAfter(NoWrite), PartsAfter(NoWrite))
      BY <1>1 DEF env, Right, WholeAfter, PartsAfter, Named
    <3> QED
      BY <3>1, <3>2
  <2>4. CallOK(s)'
    <3>1. q.op \in limits'.ops /\ raw' = raw /\ acct' = acct /\ req' = req /\ envWrite'[s] = NoWrite
      BY <1>1, <1>3, <1>4, <2>1 DEF CallOK, limits
    <3> QED
      BY <1>4, <2>1, <2>2, <2>3, <3>1 DEF CallOK, Deleting
  <2> QED
    BY <1>1, <1>3, <2>1, <2>2, <2>4, SerialGo
<1> QED
  BY <1>4, <1>5, <1>6, <1>7 DEF CheckUpdate

\* The env statements of the only call: it waits for nobody (EnvWrite).
LEMMA SerialWrite ==
    ASSUME LocalTypes, EnvInv, SerialNow, Serial, Serial', NEW s \in Sessions, EnvStep(s)
    PROVE  SerialNow'
<1> DEFINE q == req[s]
           w == Write(s, Seen(s))
<1>1. at[s] \in {"write", "wait"} /\ UNCHANGED <<raw, env, torn, cast>>
  BY DEF EnvStep, EnvWrite, EnvWriteAfterWait
<1>2. q \in Bodies
  BY <1>1 DEF LocalTypes
<1>3. (\A o \in Sessions \ {s} : at[o] = "idle" /\ envWrite[o] = NoWrite) /\ CallOK(s)
  BY <1>1, Alone
<1>4. at[s] = "write" /\ q.op \notin {"update", "insert"} /\ acct[s] = "home"
  BY <1>1, <1>3 DEF CallOK, Serial
<1>5. EnvWrite(s)
  BY <1>4 DEF EnvStep, EnvWriteAfterWait
<1>6. ~Blocked(s, w)
  <2>1. w.whole = q.trade /\ q.trade \in Trades \cup {NoTrade}
    BY <1>2, BodyTypes DEF Write
  <2>2. NoWrite.whole = NoTrade /\ NoWrite.drop = {} /\ ~NoWrite.dropWhole /\ Named(NoWrite.parts) = {}
    BY DEF NoWrite, NoParts, Named
  <2>3. NoTrade \notin Named(w.parts) \cup ({w.whole} \ {NoTrade})
    BY FillAssumption DEF Named
  <2> HIDE DEF w
  <2> QED
    BY <1>3, <2>2, <2>3 DEF Blocked
<1>7. Written(s, w)
  BY <1>5, <1>6 DEF EnvWrite
<1>8. /\ Right(WholeAfter(w), PartsAfter(w))
      /\ Deleting(q) => WholeAfter(w) = NoTrade /\ Named(PartsAfter(w)) = {}
  BY <1>2, <1>3, <1>4, WriteIsRight DEF CallOK, SerialNow, EnvInv
<1> HIDE DEF w
<1>9. CASE Over(s)
  BY <1>1, <1>4, <1>9, SerialOver
<1>10. CASE ~Over(s)
  <2>1. /\ envWrite' = [envWrite EXCEPT ![s] = w]
        /\ at' = [at EXCEPT ![s] = IF q.op = "replace" THEN "env" ELSE "golden"]
        /\ UNCHANGED <<req, acct, goldenWrite>>
    BY <1>7, <1>10 DEF Written, Go
  <2>2. at'[s] \in {"golden", "env"} /\ envWrite'[s] = w
        /\ \A o \in Sessions \ {s} : at'[o] = at[o] /\ envWrite'[o] = envWrite[o]
    BY <2>1 DEF LocalTypes, EnvInv
  <2>3. \A v : /\ WholeAfter(v)' = WholeAfter(v) /\ PartsAfter(v)' = PartsAfter(v)
    BY <1>1 DEF env, WholeAfter, PartsAfter
  <2>4. WholeAfter(envWrite[s])' = WholeAfter(w) /\ PartsAfter(envWrite[s])' = PartsAfter(w)
    BY <2>2, <2>3 DEF WholeAfter, PartsAfter
  <2>5. Right(WholeAfter(envWrite[s]), PartsAfter(envWrite[s]))'
    BY <1>8, <2>4 DEF Right
  <2>6. Deleting(q) => WholeAfter(envWrite[s])' = NoTrade /\ Named(PartsAfter(envWrite[s]))' = {}
    BY <1>8, <2>4 DEF Named
  <2>7. q.op \in limits'.ops /\ raw' = raw /\ acct'[s] = "home" /\ req'[s] = q
        /\ goldenWrite'[s] = goldenWrite[s]
    BY <1>1, <1>3, <1>4, <2>1 DEF CallOK, limits
  <2>8. CallOK(s)'
    BY <1>3, <1>4, <2>2, <2>5, <2>6, <2>7 DEF CallOK, Deleting
  <2> QED
    BY <1>1, <1>3, <1>4, <2>1, <2>2, <2>8, SerialGo
<1> QED
  BY <1>9, <1>10

\* The two commits of the only call.
LEMMA SerialCommit ==
    ASSUME LocalTypes, EnvInv, SerialNow, Serial, Serial', NEW s \in Sessions,
           GoldenCommit(s) \/ EnvCommit(s)
    PROVE  SerialNow'
<1> DEFINE q == req[s]
           w == envWrite[s]
<1>1. at[s] \in {"golden", "env"} /\ UNCHANGED <<torn, cast>>
  BY DEF GoldenCommit, EnvCommit
<1>2. q \in Bodies /\ q.row \in Rows
  BY <1>1, BodyTypes DEF LocalTypes
<1>3. (\A o \in Sessions \ {s} : at[o] = "idle") /\ CallOK(s)
  BY <1>1, Alone
<1>4. Right(WholeAfter(w), PartsAfter(w))
  BY <1>1, <1>3 DEF CallOK
<1>5. CASE GoldenCommit(s)
  <2>1. /\ raw' = [raw EXCEPT ![q.row] = IF goldenWrite[s] = "nothing" THEN @ ELSE goldenWrite[s]]
        /\ at' = [at EXCEPT ![s] = "env"]
        /\ UNCHANGED <<env, req, acct, goldenWrite, envWrite>>
    BY <1>5 DEF GoldenCommit, Go
  <2>2. at'[s] = "env" /\ \A o \in Sessions \ {s} : at'[o] = at[o]
    BY <2>1 DEF LocalTypes
  <2>3. /\ goldenWrite[s] \in {"nothing", "gone"}
        /\ goldenWrite[s] = "gone" <=> Deleting(q)
    BY <1>1, <1>3 DEF CallOK
  <2>4. /\ \A r \in Rows \ {q.row} : raw'[r] = raw[r]
        /\ raw'[q.row] = IF Deleting(q) THEN "gone" ELSE raw[q.row]
    BY <1>2, <2>1, <2>3 DEF LocalTypes
  <2>5. \A r \in Rows : raw'[r] # "away"
    BY <2>4 DEF SerialNow
  <2>6. /\ WholeAfter(envWrite[s])' = WholeAfter(w) /\ PartsAfter(envWrite[s])' = PartsAfter(w)
        /\ Right(whole, parts)' <=> Right(whole, parts)
    BY <2>1 DEF WholeAfter, PartsAfter, env, Right, Named
  <2>7. Right(WholeAfter(envWrite[s]), PartsAfter(envWrite[s]))'
    BY <1>4, <2>6 DEF Right
  <2>8. Deleting(q) => \/ \E t \in Rows \ {q.row} : raw'[t] = "home"
                       \/ WholeAfter(envWrite[s])' = NoTrade /\ Named(PartsAfter(envWrite[s]))' = {}
    BY <1>1, <1>3, <2>4, <2>6 DEF CallOK, Named
  <2>9. CallOK(s)'
    <3>1. q.op \in limits'.ops /\ acct'[s] = "home" /\ req'[s] = q /\ goldenWrite'[s] = goldenWrite[s]
      BY <1>1, <1>3, <2>1 DEF CallOK, limits
    <3> QED
      BY <1>1, <1>3, <2>2, <2>4, <2>7, <2>8, <3>1 DEF CallOK, Deleting
  <2>10. NoOrphan'
    BY <2>2 DEF NoOrphan
  <2> QED
    BY <1>3, <2>1, <2>2, <2>5, <2>6, <2>9, <2>10, SerialFrame DEF SerialNow
<1>6. CASE EnvCommit(s)
  <2>1. parts' = PartsAfter(w) /\ whole' = WholeAfter(w) /\ raw' = raw /\ Over(s) /\ at[s] = "env"
    BY <1>6 DEF EnvCommit, PartsAfter, WholeAfter
  <2>2. /\ at'[s] = "idle" /\ envWrite'[s] = NoWrite /\ goldenWrite'[s] = "nothing"
        /\ \A o \in Sessions \ {s} :
               at'[o] = at[o] /\ envWrite'[o] = envWrite[o] /\ goldenWrite'[o] = goldenWrite[o]
    BY <2>1 DEF Over, Go, LocalTypes, EnvInv
  <2>3. Right(whole, parts)'
    BY <1>4, <2>1 DEF Right
  <2>4. NoOrphan'
    <3>1. CASE ~Deleting(q)
      BY <1>2, <1>3, <2>1, <3>1 DEF CallOK, NoOrphan
    <3>2. CASE Deleting(q) /\ \E t \in Rows : raw[t] = "home"
      BY <2>1, <3>2 DEF NoOrphan
    <3>3. CASE WholeAfter(w) = NoTrade /\ Named(PartsAfter(w)) = {}
      BY <2>1, <3>3 DEF NoOrphan, Attributed, Named
    <3> QED
      BY <1>1, <1>3, <3>1, <3>2, <3>3 DEF CallOK
  <2>5. \A r \in Rows : raw'[r] # "away"
    BY <2>1 DEF SerialNow
  <2> QED
    BY <1>3, <2>2, <2>3, <2>4, <2>5, SerialFrame
<1> QED
  BY <1>5, <1>6

\* A failure of the only call (Fail).
LEMMA SerialFail ==
    ASSUME LocalTypes, EnvInv, SerialNow, Serial, Serial', NEW s \in Sessions, Fail(s)
    PROVE  SerialNow'
<1>1. /\ at[s] # "idle" /\ Over(s) /\ UNCHANGED <<raw, env>>
      /\ torn' = (torn \/ (at[s] = "env" /\ goldenWrite[s] # "nothing")) /\ torn \in BOOLEAN
  BY DEF Fail, LocalTypes
<1>2. at[s] # "env" => torn' = torn
  BY <1>1
<1>3. at[s] = "env" => torn' \/ goldenWrite[s] = "nothing"
  BY <1>1
<1> QED
  BY <1>1, <1>2, <1>3, SerialOver

\* An import leaves every call what it leans on (Import).
LEMMA SerialImport ==
    ASSUME LocalTypes, EnvInv, SerialNow, Serial, Serial', NEW r \in Rows, Import(r)
    PROVE  SerialNow'
<1>1. raw[r] = "gone" /\ raw' = [raw EXCEPT ![r] = "home"]
      /\ UNCHANGED <<env, at, req, acct, goldenWrite, envWrite, aim, torn, cast>>
  BY DEF Import, session
<1>2. raw'[r] = "home" /\ \A n \in Rows : raw[n] = "home" => raw'[n] = "home"
  BY <1>1 DEF LocalTypes
<1>3. \A n \in Rows : raw'[n] # "away"
  BY <1>1 DEF SerialNow, LocalTypes
<1>4. NoOrphan'
  BY <1>2 DEF NoOrphan
<1>5. Right(whole, parts)' <=> Right(whole, parts)
  BY <1>1 DEF Right, env, Named
<1>6. ASSUME NEW s \in Sessions, at[s] # "idle"
      PROVE  CallOK(s)'
  <2>1. CallOK(s) /\ req[s] \in Bodies /\ req[s].row \in Rows
    BY <1>6, Alone, BodyTypes DEF LocalTypes
  <2>2. WholeAfter(envWrite[s])' = WholeAfter(envWrite[s])
        /\ PartsAfter(envWrite[s])' = PartsAfter(envWrite[s])
    BY <1>1 DEF WholeAfter, PartsAfter, env
  <2>3. Right(WholeAfter(envWrite[s]), PartsAfter(envWrite[s]))'
            <=> Right(WholeAfter(envWrite[s]), PartsAfter(envWrite[s]))
    BY <2>2 DEF Right
  <2>4. Named(PartsAfter(envWrite[s]))' = Named(PartsAfter(envWrite[s]))
    BY <2>2 DEF Named
  <2>5. WholeAccepted(req[s], "home")' <=> WholeAccepted(req[s], "home")
    BY <1>1 DEF WholeAccepted, env, Named
  <2>6. SplitsAccepted(req[s], "home")' <=> SplitsAccepted(req[s], "home")
    BY <1>1 DEF SplitsAccepted, ReplacesSplits
  <2> QED
    BY <1>1, <1>2, <2>1, <2>2, <2>3, <2>4, <2>5, <2>6 DEF CallOK, Deleting, limits
<1> QED
  BY <1>1, <1>3, <1>4, <1>5, <1>6 DEF SerialNow

\* Every step keeps SerialInv (Next).
LEMMA SerialInvStep ==
    ASSUME LocalTypes, EnvInv, SerialInv, [Next]_fillVars
    PROVE  SerialInv'
<1>1. UNCHANGED cast
  BY DEF Next, Begin, CheckWrite, CheckUpdate, CheckDelete, EnvWrite, EnvWriteAfterWait,
         GoldenCommit, EnvCommit, Fail, Import, fillVars
<1>2. Serial' <=> Serial
  BY <1>1 DEF Serial, limits
<1>3. SUFFICES ASSUME Serial PROVE SerialNow'
  BY <1>2 DEF SerialInv, SerialNow
<1>4. SerialNow /\ Serial'
  BY <1>2, <1>3 DEF SerialInv, SerialNow
<1>5. CASE UNCHANGED fillVars
  <2>1. UNCHANGED <<raw, whole, parts, at, req, acct, goldenWrite, envWrite, torn, cast>>
    BY <1>5 DEF fillVars, golden, env, session
  <2>2. \A s \in Sessions : CallOK(s)' <=> CallOK(s)
    BY <2>1 DEF CallOK, limits, Deleting, WholeAfter, PartsAfter, Right, Named,
                WholeAccepted, SplitsAccepted, ReplacesSplits
  <2>3. (Right(whole, parts)' <=> Right(whole, parts)) /\ (NoOrphan' <=> NoOrphan)
    BY <1>2, <2>1 DEF Right, NoOrphan, Attributed, Named
  <2> QED
    BY <1>4, <2>1, <2>2, <2>3 DEF SerialNow
<1> QED
  BY <1>3, <1>4, <1>5, SerialBegin, SerialCheck, SerialWrite, SerialCommit, SerialFail, SerialImport
     DEF Next, EnvStep

\* SerialInv holds at the start.
LEMMA SerialInit == Init => SerialInv
<1> SUFFICES ASSUME Init PROVE SerialInv
  OBVIOUS
<1>1. whole = NoTrade /\ Named(parts) = {}
  BY DEF Init, Named, NoParts
<1>2. Right(whole, parts) /\ NoOrphan
  BY <1>1 DEF Right, NoOrphan, Attributed
<1> QED
  BY <1>2 DEF Init, SerialInv

\* Every reachable state satisfies both invariants.
THEOREM SerialInvariant == Spec => []SerialInv
<1>1. FillInv /\ SerialInv /\ [Next]_fillVars => SerialInv'
  BY Halves, SerialInvStep
<1> QED
  BY <1>1, SerialInit, FillInvariant, PTL DEF Spec

\* While calls do not overlap, a fill is whole or split and its splits add up to its
\* quantity, whatever was replaced, cleared, refused or rolled back on the way
\* (_apply_fill_splits_on_cursor, _set_whole_attribution).
THEOREM FillAttributedOnce == Spec => []AttributedOnce
<1>1. SerialInv => AttributedOnce
  BY DEF SerialInv, AttributedOnce, OneWay, Right
<1> QED
  BY <1>1, SerialInvariant, PTL

\* While calls do not overlap, an attribution without a raw row is that of a call between
\* its commits, or of a commit lost there (_drop_attribution_if_last).
THEOREM FillNoOrphan == Spec => []NoOrphan
<1>1. SerialInv => NoOrphan
  BY DEF SerialInv, NoOrphan
<1> QED
  BY <1>1, SerialInvariant, PTL
=============================================================================
