--------------------------- MODULE FillAttribution ---------------------------
(***************************************************************************)
(* Attribution of one fill to trades (portfolio/reader/accounts.py, TD-09).*)
(* A fill, keyed (account_id, exec_id), is carried by raw rows on Golden   *)
(* Source (the TWS row, its Flex twin) and attributed in trade_execution   *)
(* of the env database: whole to one trade, or split across several.       *)
(*                                                                         *)
(* A writer holds one READ COMMITTED transaction on each database. A call  *)
(* locks or reads the raw row, checks, writes the env rows, and commits    *)
(* twice. The env statements of a call are one step, but a DELETE that has *)
(* to wait keeps the rows it saw when it began: rows another transaction   *)
(* has inserted since are not deleted.                                     *)
(***************************************************************************)
EXTENDS Integers, FiniteSets, FiniteSetsExt

CONSTANTS
    Sessions,       \* callers of the writers
    Rows,           \* the raw rows that can carry the fill
    Trades,         \* trades, all on the account "home"
    Quantity,       \* the fill's signed quantity
    Casts           \* the bounds of each behaviour: the writers in use, how many calls may
                    \* overlap, how many there are, and how many fail or crash

NoTrade == "none"
Free == "free"
AllOps == {"patch", "update", "replace", "delete", "delete_one", "insert"}

ASSUME FillAssumption ==
    /\ NoTrade \notin Trades /\ Free \notin Sessions
    /\ IsFiniteSet(Trades) /\ IsFiniteSet(Sessions)
    /\ Quantity \in Nat \ {0}
    /\ \A c \in DOMAIN Casts :
           Casts[c] \in [ops : SUBSET AllOps, editors : Nat, calls : Nat, faults : Nat]

VARIABLES
    raw,            \* account each raw row is on, or "gone"
    lock,           \* session that has the raw row locked
    whole,          \* trade of the whole-fill row, or NoTrade
    parts,          \* split_quantity of each trade, 0 when it has no split row
    at,             \* each session's step
    req,            \* its request
    acct,           \* the account its env statements use
    goldenWrite,    \* what it has written on Golden Source: an account, "gone"
    envWrite,       \* what it has written on the env database
    aim,            \* rows the DELETE it waits in has seen
    torn,           \* history: a raw row changed and its env commit was lost
    cast, calls, faults

golden == <<raw, lock>>
env == <<whole, parts>>
session == <<at, req, acct, goldenWrite, envWrite, aim>>
fillVars == <<golden, env, session, torn, cast, calls, faults>>

limits == Casts[cast]

NoParts == [t \in Trades |-> 0]
Named(f) == {t \in Trades : f[t] # 0}
Total(f) == MapThenSumSet(LAMBDA t : f[t], Trades)

\* A body: the keys it sends, and their values. fill_splits may be null.
Requests ==
    [op : AllOps, row : Rows, sends : SUBSET {"trade_id", "fill_splits", "account_id"},
     trade : Trades \cup {NoTrade}, null : BOOLEAN, splits : [Trades -> 0 .. Quantity],
     account : {"home", "away"}]

\* What a request has no key for has its default; the rest is refused unread.
WellFormed(q) ==
    /\ q.trade # NoTrade => "trade_id" \in q.sends
    /\ q.null \/ q.splits # NoParts => "fill_splits" \in q.sends
    /\ q.null => q.op = "update" /\ q.splits = NoParts
    /\ q.account = "away" => "account_id" \in q.sends
    /\ q.sends \subseteq CASE q.op \in {"delete", "delete_one"} -> {}
                           [] q.op = "replace" -> {"fill_splits"}
                           [] q.op \in {"patch", "insert"} -> {"trade_id", "fill_splits"}
                           [] q.op = "update" -> {"trade_id", "fill_splits", "account_id"}
    /\ q.op \notin {"delete", "delete_one", "insert"} => q.sends # {}
    /\ ~(q.splits # NoParts /\ q.trade # NoTrade)

\* An insert that sends a trade and splits writes the trade, then the splits clear it:
\* the same rows as the splits alone.
Bodies == {q \in Requests : WellFormed(q)}

Deleting(q) == q.op \in {"delete", "delete_one"}
TouchesWhole(q) == "trade_id" \in q.sends
ReplacesSplits(q) == "fill_splits" \in q.sends /\ ~q.null

NoWrite == [whole |-> NoTrade, parts |-> NoParts, dropWhole |-> FALSE, drop |-> {}]
NoAim == [whole |-> FALSE, parts |-> {}]
NoReq == [op |-> "idle"]

TypeOK ==
    /\ raw \in [Rows -> {"home", "away", "gone"}]
    /\ lock \in [Rows -> Sessions \cup {Free}]
    /\ whole \in Trades \cup {NoTrade} /\ parts \in [Trades -> 0 .. Quantity]
    /\ at \in [Sessions -> {"idle", "check", "write", "wait", "golden", "env"}]
    /\ \A s \in Sessions : at[s] # "idle" => req[s] \in Bodies
    /\ acct \in [Sessions -> {"home", "away"}]
    /\ goldenWrite \in [Sessions -> {"home", "away", "gone", "nothing"}]
    /\ \A s \in Sessions :
           /\ envWrite[s].whole \in Trades \cup {NoTrade} /\ envWrite[s].dropWhole \in BOOLEAN
           /\ envWrite[s].parts \in [Trades -> 0 .. Quantity] /\ envWrite[s].drop \subseteq Trades
           /\ envWrite[s].drop \subseteq Named(parts) /\ aim[s].parts \subseteq Trades
    /\ torn \in BOOLEAN /\ cast \in DOMAIN Casts /\ calls \in Nat /\ faults \in Nat

Init ==
    /\ raw \in [Rows -> {"home", "gone"}] /\ \E r \in Rows : raw[r] = "home"
    /\ lock = [r \in Rows |-> Free]
    /\ whole = NoTrade /\ parts = NoParts
    /\ at = [s \in Sessions |-> "idle"] /\ req = [s \in Sessions |-> NoReq]
    /\ acct = [s \in Sessions |-> "home"]
    /\ goldenWrite = [s \in Sessions |-> "nothing"]
    /\ envWrite = [s \in Sessions |-> NoWrite] /\ aim = [s \in Sessions |-> NoAim]
    /\ torn = FALSE /\ cast \in DOMAIN Casts /\ calls = 0 /\ faults = 0

Go(s, step) == at' = [at EXCEPT ![s] = step]
Unlocked(s) == [r \in Rows |-> IF lock[r] = s THEN Free ELSE lock[r]]

\* Roll both transactions back, or end the call.
Over(s) ==
    /\ Go(s, "idle")
    /\ req' = [req EXCEPT ![s] = NoReq]
    /\ acct' = [acct EXCEPT ![s] = "home"]
    /\ goldenWrite' = [goldenWrite EXCEPT ![s] = "nothing"]
    /\ envWrite' = [envWrite EXCEPT ![s] = NoWrite]
    /\ aim' = [aim EXCEPT ![s] = NoAim]
    /\ lock' = Unlocked(s)

-----------------------------------------------------------------------------
(* The two transactions of a call, up to the env writes.                   *)

\* The key is read: with FOR UPDATE by patch_execution, update_one_execution and
\* delete_execution_strict, without by the other two. An insert adds its own row.
Begin(s, q) ==
    /\ at[s] = "idle" /\ q.op \in limits.ops /\ calls < limits.calls
    /\ Cardinality({o \in Sessions : at[o] # "idle"}) < limits.editors
    /\ calls' = calls + 1
    /\ IF q.op = "insert"
       THEN /\ raw[q.row] = "gone" /\ lock[q.row] = Free
            /\ goldenWrite' = [goldenWrite EXCEPT ![s] = "home"]
       ELSE /\ raw[q.row] # "gone"
            /\ UNCHANGED goldenWrite
    /\ IF q.op \in {"patch", "update", "delete", "insert"}
       THEN lock[q.row] = Free /\ lock' = [lock EXCEPT ![q.row] = s]
       ELSE UNCHANGED lock
    /\ req' = [req EXCEPT ![s] = q]
    /\ acct' = [acct EXCEPT ![s] = IF q.op = "insert" THEN "home" ELSE raw[q.row]]
    /\ Go(s, "check")
    /\ UNCHANGED <<raw, env, envWrite, aim, torn, cast, faults>>

\* The splits name trades of the account and add up to the fill's quantity.
SplitsAccepted(q, account) ==
    ReplacesSplits(q) /\ q.splits # NoParts =>
        account = "home" /\ Total(q.splits) = Quantity

\* Mutant: a trade is set without a look at the splits.
WholeAcceptedBlind(q, account) == q.trade # NoTrade => account = "home"

\* A trade is on the account, and the fill is not split, unless the same body
\* replaces the splits; insert_one_execution does not look at the splits.
WholeAccepted(q, account) ==
    q.trade # NoTrade =>
        /\ account = "home"
        /\ q.op # "insert" /\ "fill_splits" \notin q.sends => Named(parts) = {}

Attributed == whole # NoTrade \/ Named(parts) # {}

\* patch_execution, insert_one_execution, replace_execution_fill_splits.
CheckWrite(s) ==
    /\ at[s] = "check" /\ req[s].op \in {"patch", "insert", "replace"}
    /\ IF SplitsAccepted(req[s], acct[s]) /\ WholeAccepted(req[s], acct[s])
       THEN Go(s, "write") /\ UNCHANGED <<req, acct, goldenWrite, envWrite, aim, lock>>
       ELSE Over(s)
    /\ UNCHANGED <<raw, env, torn, cast, calls, faults>>

\* update_one_execution: an attributed fill does not move to another account; the
\* raw row is updated before the splits and the trade are looked at.
CheckUpdate(s) ==
    LET q == req[s]
        moves == "account_id" \in q.sends /\ q.account # acct[s]
        account == IF moves THEN q.account ELSE acct[s]
    IN  /\ at[s] = "check" /\ q.op = "update"
        /\ IF \/ moves /\ acct[s] = "home" /\ Attributed
              \/ ~SplitsAccepted(q, account) \/ ~WholeAccepted(q, account)
           THEN Over(s)
           ELSE /\ acct' = [acct EXCEPT ![s] = account]
                /\ goldenWrite' = [goldenWrite EXCEPT ![s] = IF moves THEN account ELSE @]
                /\ Go(s, "write")
                /\ UNCHANGED <<req, envWrite, aim, lock>>
        /\ UNCHANGED <<raw, env, torn, cast, calls, faults>>

\* Mutant: the attribution goes with any of the fill's raw rows, and stays with the last.
CheckDeleteTwin(s) ==
    LET r == req[s].row
    IN  /\ at[s] = "check" /\ Deleting(req[s])
        /\ lock[r] \in {s, Free}
        /\ \/ (raw[r] = "gone" \/ req[s].op = "delete") /\ Over(s)
           \/ /\ raw[r] # "gone"
              /\ lock' = [lock EXCEPT ![r] = s]
              /\ goldenWrite' = [goldenWrite EXCEPT ![s] = "gone"]
              /\ Go(s, IF \E t \in Rows \ {r} : raw[t] = acct[s] THEN "write" ELSE "golden")
              /\ UNCHANGED <<req, acct, envWrite, aim>>
        /\ UNCHANGED <<raw, env, torn, cast, calls, faults>>

\* delete_execution_strict refuses a row an option/stock link names; links are not
\* modelled. The raw row goes; while another committed row carries the fill, the
\* attribution stays.
CheckDelete(s) ==
    LET r == req[s].row
    IN  /\ at[s] = "check" /\ Deleting(req[s])
        /\ lock[r] \in {s, Free}
        /\ \/ (raw[r] = "gone" \/ req[s].op = "delete") /\ Over(s)
           \/ /\ raw[r] # "gone"
              /\ lock' = [lock EXCEPT ![r] = s]
              /\ goldenWrite' = [goldenWrite EXCEPT ![s] = "gone"]
              /\ Go(s, IF \E t \in Rows \ {r} : raw[t] = acct[s] THEN "golden" ELSE "write")
              /\ UNCHANGED <<req, acct, envWrite, aim>>
        /\ UNCHANGED <<raw, env, torn, cast, calls, faults>>

-----------------------------------------------------------------------------
(* The env statements of a call.                                           *)

\* The rows its DELETE of splits, or of the whole attribution, would see now.
Seen(s) ==
    IF acct[s] # "home" THEN NoAim
    ELSE [whole |-> Deleting(req[s]) /\ whole # NoTrade,
          parts |-> IF Deleting(req[s]) \/ ReplacesSplits(req[s]) THEN Named(parts) ELSE {}]

\* What it writes: the rows seen that are still there go; splits clear the whole row;
\* a trade inserts or updates it.
Write(s, seen) ==
    LET q == req[s]
        new == IF ReplacesSplits(q) THEN q.splits ELSE NoParts
        drops == \/ seen.whole
                 \/ ~Deleting(q) /\ acct[s] = "home" /\ q.trade = NoTrade
                    /\ (new # NoParts \/ (TouchesWhole(q) /\ q.op # "insert"))
    IN  [whole |-> q.trade, parts |-> new,
         dropWhole |-> whole # NoTrade /\ (drops \/ q.trade # NoTrade),
         drop |-> seen.parts \cap Named(parts)]

\* It waits for another transaction's uncommitted row: one it deletes or updates, or
\* one with its unique key (account_id, exec_id, trade_id) or the whole row's.
Blocked(s, w) ==
    \E o \in Sessions \ {s} :
        LET v == envWrite[o]
            takes == Named(w.parts) \cup ({w.whole} \ {NoTrade})
        IN  \/ w.drop \cap v.drop # {}
            \/ (w.dropWhole \/ w.whole # NoTrade) /\ v.dropWhole
            \/ w.whole # NoTrade /\ v.whole # NoTrade
            \/ takes \cap (Named(v.parts) \cup {v.whole} \cup v.drop) # {}
            \/ v.dropWhole /\ whole \in takes

\* Mutant: no unique key over the fill and the trade.
NotUniqueNever(w) == FALSE

\* The unique key refuses a trade that has a row of the fill already.
NotUnique(w) ==
    \/ \E t \in Named(w.parts) : (parts[t] # 0 /\ t \notin w.drop) \/ (whole = t /\ ~w.dropWhole)
    \/ w.whole # NoTrade /\ parts[w.whole] # 0 /\ w.whole \notin w.drop

\* replace_execution_fill_splits commits the env database first, the others last.
Written(s, w) ==
    IF NotUnique(w)
    THEN Over(s)
    ELSE /\ envWrite' = [envWrite EXCEPT ![s] = w]
         /\ aim' = [aim EXCEPT ![s] = NoAim]
         /\ Go(s, IF req[s].op = "replace" THEN "env" ELSE "golden")
         /\ UNCHANGED <<req, acct, goldenWrite, lock>>

EnvWrite(s) ==
    LET w == Write(s, Seen(s))
    IN  /\ at[s] = "write"
        /\ IF Blocked(s, w)
           THEN /\ aim' = [aim EXCEPT ![s] = Seen(s)] /\ Go(s, "wait")
                /\ UNCHANGED <<req, acct, goldenWrite, envWrite, lock>>
           ELSE Written(s, w)
        /\ UNCHANGED <<raw, env, torn, cast, calls, faults>>

EnvWriteAfterWait(s) ==
    LET w == Write(s, aim[s])
    IN  /\ at[s] = "wait" /\ ~Blocked(s, w)
        /\ Written(s, w)
        /\ UNCHANGED <<raw, env, torn, cast, calls, faults>>

-----------------------------------------------------------------------------
(* The two commits.                                                        *)

\* golden.commit() releases the raw row.
GoldenCommit(s) ==
    /\ at[s] = "golden"
    /\ raw' = [raw EXCEPT ![req[s].row] = IF goldenWrite[s] = "nothing" THEN @ ELSE goldenWrite[s]]
    /\ lock' = Unlocked(s)
    /\ Go(s, "env")
    /\ UNCHANGED <<env, req, acct, goldenWrite, envWrite, aim, torn, cast, calls, faults>>

EnvCommit(s) ==
    LET w == envWrite[s]
    IN  /\ at[s] = "env"
        /\ parts' = [t \in Trades |-> IF w.parts[t] # 0 THEN w.parts[t]
                                      ELSE IF t \in w.drop THEN 0 ELSE parts[t]]
        /\ whole' = IF w.whole # NoTrade THEN w.whole ELSE IF w.dropWhole THEN NoTrade ELSE whole
        /\ Over(s)
        /\ UNCHANGED <<raw, torn, cast, calls, faults>>

\* An exception or a crash rolls back what is not committed yet.
Fail(s) ==
    /\ at[s] # "idle" /\ faults < limits.faults
    /\ faults' = faults + 1
    /\ torn' = (torn \/ (at[s] = "env" /\ goldenWrite[s] # "nothing"))
    /\ Over(s)
    /\ UNCHANGED <<raw, env, cast, calls>>

-----------------------------------------------------------------------------
(* The other writers of these rows.                                        *)

\* write_account_executions_to_db: an import brings a raw row.
Import(r) ==
    /\ raw[r] = "gone" /\ lock[r] = Free
    /\ raw' = [raw EXCEPT ![r] = "home"]
    /\ UNCHANGED <<lock, env, session, torn, cast, calls, faults>>

Next ==
    \/ \E s \in Sessions :
           \/ \E q \in Bodies : Begin(s, q)
           \/ CheckWrite(s) \/ CheckUpdate(s) \/ CheckDelete(s)
           \/ EnvWrite(s) \/ EnvWriteAfterWait(s)
           \/ GoldenCommit(s) \/ EnvCommit(s)
           \/ Fail(s)
    \/ \E r \in Rows : Import(r)

Spec == Init /\ [][Next]_fillVars

-----------------------------------------------------------------------------
(* Properties.                                                             *)

\* "A fill is attributed one way or the other": whole, or split.
OneWay == ~(whole # NoTrade /\ Named(parts) # {})

\* Calls that do not overlap, none of them update_one_execution with fill_splits null or
\* an insert_one_execution of a fill its twin has split.
Serial == limits.editors = 1 /\ limits.ops \cap {"update", "insert"} = {}

\* While calls do not overlap, a fill is whole or split and its splits add up to its
\* quantity, no part of it counted twice or left out, whatever was replaced, cleared,
\* refused or rolled back on the way (accounts._apply_fill_splits_on_cursor).
AttributedOnce ==
    Serial => OneWay /\ (Named(parts) # {} => Total(parts) = Quantity)

\* "the attribution goes too unless the twin still carries" the fill: while calls do not
\* overlap, one that is left with no raw row is that of a call between its two commits, or
\* of a commit lost there (accounts._drop_attribution_if_last).
NoOrphan ==
    Serial /\ Attributed =>
        \/ torn
        \/ \E r \in Rows : raw[r] = "home"
        \/ \E s \in Sessions : at[s] = "env"

\* No trade has two rows of the fill, whole and split or split twice, however the
\* writers of the two twins meet: its realized amount counts the fill once
\* (the unique keys of trade_execution).
NoTradeTwice == whole # NoTrade => parts[whole] = 0
=============================================================================
