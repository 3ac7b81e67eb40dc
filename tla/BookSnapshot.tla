---------------------------- MODULE BookSnapshot ----------------------------
(***************************************************************************)
(* The nightly book snapshot (portfolio/snapshot/daily.py): what the broker*)
(* sync writes on Golden Source, the two jobs that copy it into            *)
(* account_nav_daily and position_snapshot_daily of the env database, and  *)
(* the grades its reader (portfolio/reader/snapshots.py) gives the rows.   *)
(*                                                                         *)
(* A day d has three ticks: 3d-2 before an early close, 3d-1 between it    *)
(* and 16:00 New York, 3d after. Prices are cents per share. The broker    *)
(* tables are read through foreign tables, one remote snapshot for a whole *)
(* transaction, so the reads of a capture are one step; so is a            *)
(* transaction's writing, since an insert waits for the one it conflicts   *)
(* with.                                                                   *)
(***************************************************************************)
EXTENDS Integers, FiniteSets, FiniteSetsExt

CONSTANTS
    Accounts, Trades, Jobs,
    Holdings,       \* quantities an account may hold of the contract
    Shares,         \* net fills of the contract a trade may have
    Days,           \* days 1 .. Days
    Holidays,       \* days with no session
    EarlyDays,      \* sessions that close early
    IsOption,       \* the contract is a call, not a stock
    Strike, Underlying,     \* its strike, the underlying's close of each day
    Offers,         \* what the vendor may have for the contract and a session
    Casts           \* the bounds of each behaviour: its jobs, which may overlap, its last
                    \* day, the vendor's rows, whether a sync may be partial, and how many
                    \* syncs, runs and faults it has

Missing == -1
NoTrade == "none"
NoNav == [at |-> 0]

\* An offer: the session of snapshot_ts, how many of the Greeks it has (delta alone, or
\* all), the option's last price, when that traded, and the price of the vendor's IV.
ASSUME SnapshotAssumption ==
    /\ IsFiniteSet(Trades) /\ NoTrade \notin Trades /\ IsOption \in BOOLEAN
    /\ Holdings \subseteq Nat /\ Shares \subseteq Nat /\ 0 \in Shares
    /\ Days \in Nat \ {0} /\ Holidays \cup EarlyDays \subseteq 1 .. Days
    /\ Strike \in Nat /\ Underlying \in [1 .. Days -> Nat \ {0}]
    /\ Offers \subseteq [behind : {0, 1}, greeks : {0, 1, 2}, close : Nat \cup {Missing},
                         traded : {"earlier", "early", "late"}, model : Nat \cup {Missing}]
    /\ \A o \in Offers : o.greeks < 2 => o.model = Missing
    /\ Casts \subseteq [jobs : SUBSET Jobs, days : 1 .. Days, offers : SUBSET Offers,
                        partial : BOOLEAN, syncs : Nat, runs : Nat, faults : Nat]

VARIABLES
    broker,         \* account row and positions of each account on Golden Source
    share,          \* net fills of each trade on the account's contract
    offer,          \* the vendor's option row of each session, as last read
    nav,            \* account_nav_daily
    rows,           \* position_snapshot_daily
    job,            \* each job's step and what it has read
    clock,
    overlapped,     \* history: two jobs ran at once
    blind,          \* history: sessions an enrich has marked without the close or the bounds
    ragged,         \* history: accounts with a sync that left their balances or positions
    cast, syncs, runs, faults

snapshotVars == <<broker, share, offer, nav, rows, job, clock, overlapped, blind,
                  ragged, cast, syncs, runs, faults>>
tables == <<nav, rows>>

Today == (clock + 2) \div 3
IdleJob == [at |-> "idle"]
NoOffer == [none |-> TRUE]
history == <<overlapped, blind, ragged>>

TypeOK ==
    /\ \A a \in Accounts :
           /\ broker[a].held \in Holdings
           /\ {broker[a].at, broker[a].cash, broker[a].seen} \subseteq 0 .. clock
    /\ share \in [Accounts -> [Trades -> Shares]]
    /\ \A d \in 1 .. Days : offer[d] \in Offers \cup {NoOffer}
    /\ \A d \in 1 .. Days, a \in Accounts : nav[d][a].at \in 0 .. clock
    /\ \A r \in rows : r.day \in 1 .. Days /\ r.acct \in Accounts /\ r.trade \in Trades \cup {NoTrade}
    /\ \A j \in Jobs : job[j].at \in {"idle", "capture", "write", "enrich", "fetch", "update"}
    /\ clock \in 1 .. 3 * Days /\ cast \in Casts

Init ==
    /\ broker \in [Accounts -> {[at |-> 0, cash |-> 0, held |-> h, seen |-> 0] : h \in Holdings}]
    /\ share = [a \in Accounts |-> [t \in Trades |-> 0]]
    /\ offer = [d \in 1 .. Days |-> NoOffer]
    /\ nav = [d \in 1 .. Days |-> [a \in Accounts |-> NoNav]] /\ rows = {}
    /\ job = [j \in Jobs |-> IdleJob]
    /\ cast \in Casts /\ clock = 1 /\ overlapped = FALSE /\ blind = {} /\ ragged = {}
    /\ syncs = 0 /\ runs = 0 /\ faults = 0

-----------------------------------------------------------------------------
(* The world around the job.                                               *)

\* sync_accounts_snapshot_to_tables, committed by write_snapshot: the account row's
\* updated_at is now in any case; a summary without a net liquidation leaves the
\* balances, a failed read of the positions leaves the positions.
Sync(a, h, summary, positions) ==
    /\ syncs < cast.syncs /\ syncs' = syncs + 1
    /\ (summary /\ positions) \/ cast.partial
    /\ positions \/ h = broker[a].held
    /\ broker' = [broker EXCEPT ![a] =
           [at |-> clock, cash |-> IF summary THEN clock ELSE @.cash,
            held |-> h, seen |-> IF positions THEN clock ELSE @.seen]]
    /\ ragged' = IF summary /\ positions THEN ragged ELSE ragged \cup {a}
    /\ UNCHANGED <<share, offer, tables, job, clock, overlapped, blind, cast, runs, faults>>

\* Fills are imported or attributed: a trade's net fills on the contract change.
Attribute(a, t, q) ==
    /\ share[a][t] # q
    /\ share' = [share EXCEPT ![a][t] = q]
    /\ UNCHANGED <<broker, offer, tables, job, clock, history, cast, syncs, runs, faults>>

Tick ==
    /\ clock < 3 * cast.days /\ clock' = clock + 1
    /\ UNCHANGED <<broker, share, offer, tables, job, history, cast, syncs, runs, faults>>

-----------------------------------------------------------------------------
(* The job: python -m bifrost_core.portfolio.snapshot.                     *)

\* session_close_at: the calendar's early close, 16:00 when it cannot be read.
CloseAt(d, calendar) == IF calendar /\ d \in EarlyDays THEN 3 * d - 1 ELSE 3 * d

\* A failed lookup costs a fault.
Lookup(ok) == IF ok THEN UNCHANGED faults ELSE faults < cast.faults /\ faults' = faults + 1

Become(j, v) == job' = [job EXCEPT ![j] = v]
Next1(j) == IF job[j].step = "all"
            THEN [at |-> "enrich", step |-> "all", day |-> job[j].day] ELSE IdleJob

\* main: capture and all are for today; a closed session is skipped, unless the
\* holiday lookup fails.
Start(j, step, d, calendar) ==
    /\ j \in cast.jobs /\ job[j].at = "idle" /\ runs < cast.runs /\ runs' = runs + 1
    /\ d <= Today /\ (step # "enrich" => d = Today)
    /\ Lookup(calendar)
    /\ Become(j, IF d \in Holidays /\ calendar THEN IdleJob
                 ELSE [at |-> IF step = "enrich" THEN "enrich" ELSE "capture",
                       step |-> step, day |-> d])
    /\ overlapped' = (overlapped \/ \E k \in Jobs \ {j} : job[k].at # "idle")
    /\ UNCHANGED <<broker, share, offer, tables, clock, blind, ragged, cast, syncs>>

\* split_rows: a row for each trade with fills, the remainder in a row of no trade.
Named(f) == {t \in Trades : f[t] # 0}
Remainder(h, f) == h - MapThenSumSet(LAMBDA t : f[t], Named(f))

SplitRows(d, a, h, f, read) ==
    {[day |-> d, acct |-> a, trade |-> t, qty |-> IF t = NoTrade THEN Remainder(h, f) ELSE f[t],
      pos |-> h, read |-> read, mark |-> Missing, src |-> "none", under |-> Missing,
      asof |-> Missing, delta |-> Missing, others |-> Missing, print |-> NoOffer] :
     t \in Named(f) \cup (IF Remainder(h, f) # 0 \/ Named(f) = {} THEN {NoTrade} ELSE {})}

\* Mutant: an account is fresh once the day has begun.
FreshToday(d, calendar) ==
    {a \in Accounts : nav[d][a] = NoNav /\ broker[a].at >= 3 * d - 2}

\* The accounts to write: not captured yet, updated at or after the close.
Pending(d, calendar) ==
    {a \in Accounts : nav[d][a] = NoNav /\ broker[a].at >= CloseAt(d, calendar)}

\* capture up to its first INSERT. The attribution read answers nothing when it fails,
\* which is refused when an account to be written has a position. A position of 0 is
\* no open position.
CaptureRead(j, calendar, attribution) ==
    LET d == job[j].day
        pending == Pending(d, calendar)
        open == {a \in pending : broker[a].held # 0}
        read == runs
    IN  /\ job[j].at = "capture"
        /\ Lookup(calendar /\ attribution)
        /\ IF pending = {} \/ (open # {} /\ ~attribution)
           THEN Become(j, Next1(j))
           ELSE Become(j, [at |-> "write", step |-> job[j].step, day |-> d,
                    nav |-> [a \in pending |-> [at |-> broker[a].at, cash |-> broker[a].cash,
                                                seen |-> broker[a].seen, held |-> broker[a].held]],
                    rows |-> UNION {SplitRows(d, a, broker[a].held, share[a], read) : a \in open}])
        /\ UNCHANGED <<broker, share, offer, tables, clock, history, cast, syncs, runs>>

SameKey(r, s) == r.day = s.day /\ r.acct = s.acct /\ r.trade = s.trade

\* Mutant: the rows are written, the balances in a commit of their own (lost here).
CaptureWriteRowsOnly(j) ==
    /\ job[j].at = "write"
    /\ rows' = rows \cup {r \in job[j].rows : \A s \in rows : ~SameKey(r, s)}
    /\ Become(j, Next1(j))
    /\ UNCHANGED <<broker, share, offer, nav, clock, history, cast, syncs, runs, faults>>

\* The INSERTs of capture, ON CONFLICT DO NOTHING, and their commit.
CaptureWrite(j) ==
    LET d == job[j].day
    IN  /\ job[j].at = "write"
        /\ nav' = [nav EXCEPT ![d] = [a \in Accounts |->
               IF nav[d][a] = NoNav /\ a \in DOMAIN job[j].nav THEN job[j].nav[a] ELSE nav[d][a]]]
        /\ rows' = rows \cup {r \in job[j].rows : \A s \in rows : ~SameKey(r, s)}
        /\ Become(j, Next1(j))
        /\ UNCHANGED <<broker, share, offer, clock, history, cast, syncs, runs, faults>>

Incomplete(r) ==
    r.under = Missing \/ r.mark = Missing \/ (IsOption /\ Missing \in {r.delta, r.others})

\* The SELECT of enrich.
EnrichRead(j) ==
    LET d == job[j].day
        todo == {r \in rows : r.day = d /\ Incomplete(r)}
    IN  /\ job[j].at = "enrich"
        /\ Become(j, IF todo = {} THEN IdleJob
                     ELSE [at |-> "fetch", step |-> job[j].step, day |-> d, todo |-> todo])
        /\ UNCHANGED <<broker, share, offer, tables, clock, history, cast, syncs, runs, faults>>

\* The vendor's row of a session becomes newer and more complete.
Newer(o, old) ==
    old # NoOffer => \/ o.behind < old.behind
                     \/ o.behind = old.behind /\ o.greeks > old.greeks

\* The session's bounds, the closes and the option rows are read. The bounds may fail; the
\* close is the day's own bar's, which may not be there yet; the chain may fail, not have
\* the contract yet, or have a newer row than at the last read.
EnrichFetch(j, bounds, closes, o) ==
    LET d == job[j].day
    IN  /\ job[j].at = "fetch"
        /\ closes \/ o # NoOffer => clock >= 3 * d
        /\ o # NoOffer => IsOption /\ o \in cast.offers /\ (o = offer[d] \/ Newer(o, offer[d]))
        /\ offer' = IF o # NoOffer THEN [offer EXCEPT ![d] = o] ELSE offer
        /\ Lookup(bounds)
        /\ Become(j, [at |-> "update", step |-> job[j].step, day |-> d, todo |-> job[j].todo,
                      bounds |-> bounds, close |-> IF closes THEN Underlying[d] ELSE Missing,
                      offer |-> o])
        /\ UNCHANGED <<broker, share, tables, clock, history, cast, syncs, runs>>

-----------------------------------------------------------------------------
(* The mark of an option.                                                  *)

Tolerance == 1
Larger(x, y) == IF x >= y THEN x ELSE y
Apart(x, y) == IF x >= y THEN x - y ELSE y - x
IntrinsicValue(under) == Larger(0, under - Strike)

\* stale_close: an earlier session's trade, or one well before the close that is more
\* than 20 % and 25 cents from the vendor-IV price.
StaleClose(close, reference, traded, bounds) ==
    /\ reference # Missing /\ bounds
    /\ \/ traded = "earlier"
       \/ traded = "early" /\ Apart(close, reference) > Larger(reference \div 5, 25)

\* Mutant: a close under intrinsic is stored like any other.
EodMarkAnyClose(o, under, bounds) ==
    IF o.close = Missing THEN [mark |-> Missing, src |-> "vendor_eod"]
    ELSE [mark |-> o.close, src |-> "vendor_eod"]

\* option_eod_mark; under is Missing when the underlying's close is not known.
EodMark(o, under, bounds) ==
    LET intrinsic == IntrinsicValue(under)
        reference == IF o.model = Missing THEN Missing ELSE Larger(o.model, intrinsic)
    IN  IF o.close = Missing \/ under = Missing THEN [mark |-> o.close, src |-> "vendor_eod"]
        ELSE IF o.close >= intrinsic - Tolerance /\ ~StaleClose(o.close, reference, o.traded, bounds)
        THEN [mark |-> o.close, src |-> "vendor_eod"]
        ELSE IF o.model # Missing /\ o.model >= intrinsic
        THEN [mark |-> o.model, src |-> "vendor_iv_model"]
        ELSE [mark |-> intrinsic, src |-> "intrinsic_floor"]

-----------------------------------------------------------------------------
(* The UPDATEs of enrich.                                                  *)

\* Mutant: what the vendor sends last is kept.
CoalesceNew(old, new) == IF new # Missing THEN new ELSE old

Coalesce(old, new) == IF old # Missing THEN old ELSE new

\* What enrich has for a row it read: the close, the Greeks, the as-of and the mark.
\* A Greek is stood for by the session it is of.
Values(r, close, o, bounds) ==
    LET known == o # NoOffer
        session == IF known THEN r.day - o.behind ELSE Missing
        under == Coalesce(r.under, close)
    IN  [under |-> close,
         delta |-> IF known /\ o.greeks > 0 THEN session ELSE Missing,
         others |-> IF known /\ o.greeks > 1 THEN session ELSE Missing,
         asof |-> session, offer |-> o,
         eod |-> IF ~IsOption THEN [mark |-> close, src |-> "vendor_eod"]
                 ELSE IF known THEN EodMark(o, under, bounds)
                 ELSE [mark |-> Missing, src |-> "vendor_eod"]]

\* Nothing to store, nothing updated. The full Greeks come with the iv, delta alone has none.
Empty(v) == v.under = Missing /\ v.delta = Missing /\ v.others = Missing /\ v.eod.mark = Missing

NewMark(r, v) == r.mark = Missing /\ v.eod.mark # Missing

\* Mutant: the as-of of the last read goes with the Greeks of the first.
FilledNewAsOf(r, v) ==
    [r EXCEPT !.under = Coalesce(@, v.under), !.delta = Coalesce(@, v.delta),
              !.others = Coalesce(@, v.others), !.asof = CoalesceNew(@, v.asof),
              !.src = IF NewMark(r, v) THEN v.eod.src ELSE @,
              !.print = IF NewMark(r, v) THEN v.offer ELSE @,
              !.mark = Coalesce(@, v.eod.mark)]

Filled(r, v) ==
    [r EXCEPT !.under = Coalesce(@, v.under), !.delta = Coalesce(@, v.delta),
              !.others = Coalesce(@, v.others), !.asof = Coalesce(@, v.asof),
              !.src = IF NewMark(r, v) THEN v.eod.src ELSE @,
              !.print = IF NewMark(r, v) THEN v.offer ELSE @,
              !.mark = Coalesce(@, v.eod.mark)]

\* The UPDATEs of enrich and their commit. The mark is judged by the row as the SELECT
\* read it, and the UPDATE fills the row as it is now.
EnrichWrite(j) ==
    LET w == job[j]
        read(r) == CHOOSE s \in w.todo : SameKey(r, s)
        v(r) == Values(read(r), w.close, w.offer, w.bounds)
        touched == {r \in rows : (\E s \in w.todo : SameKey(r, s)) /\ ~Empty(v(r))}
    IN  /\ w.at = "update"
        /\ rows' = (rows \ touched) \cup {Filled(r, v(r)) : r \in touched}
        /\ blind' = IF w.close = Missing \/ ~w.bounds THEN blind \cup {w.day} ELSE blind
        /\ Become(j, IdleJob)
        /\ UNCHANGED <<broker, share, offer, nav, clock, overlapped, ragged, cast, syncs, runs, faults>>

\* The process dies, or a call fails: its transaction is rolled back.
Crash(j) ==
    /\ job[j].at # "idle" /\ faults < cast.faults /\ faults' = faults + 1
    /\ Become(j, IdleJob)
    /\ UNCHANGED <<broker, share, offer, tables, clock, history, cast, syncs, runs>>

Next ==
    \/ \E a \in Accounts :
           \/ \E h \in Holdings, summary, positions \in BOOLEAN : Sync(a, h, summary, positions)
           \/ \E t \in Trades, q \in Shares : Attribute(a, t, q)
    \/ Tick
    \/ \E j \in Jobs :
           \/ \E step \in {"capture", "enrich", "all"}, d \in 1 .. Days, calendar \in BOOLEAN :
                  Start(j, step, d, calendar)
           \/ \E calendar, attribution \in BOOLEAN : CaptureRead(j, calendar, attribution)
           \/ CaptureWrite(j) \/ EnrichRead(j) \/ EnrichWrite(j)
           \/ \E bounds, closes \in BOOLEAN, o \in Offers \cup {NoOffer} : EnrichFetch(j, bounds, closes, o)
           \/ Crash(j)

Spec == Init /\ [][Next]_snapshotVars
-----------------------------------------------------------------------------
(* The reader: portfolio/reader/snapshots.py.                              *)

\* nav_history leaves out a row read before its session's close.
Dropped(calendar) ==
    {k \in (1 .. Days) \X Accounts :
         nav[k[1]][k[2]] # NoNav /\ nav[k[1]][k[2]].at < CloseAt(k[1], calendar)}

\* greeks_quality of an option row.
GreeksQuality(r) ==
    IF r.delta = Missing THEN "missing"
    ELSE IF r.others # Missing /\ r.asof = r.day /\ r.src \in {"vendor_eod", "vendor_iv_model"}
    THEN "vendor" ELSE "degraded"

MarkBelowIntrinsic(r) ==
    /\ IsOption /\ r.mark # Missing /\ r.under # Missing
    /\ r.mark < IntrinsicValue(r.under) - Tolerance

NoRow == [none |-> TRUE]

\* Mutant: the quantity at this close is taken for the one held through the session.
AttributeRowCurrent(a, b) ==
    IF a = NoRow THEN [status |-> "opened_in_session", held |-> {}, read |-> FALSE]
    ELSE IF b = NoRow THEN [status |-> "closed_in_session", held |-> {}, read |-> FALSE]
    ELSE [status |-> "ok", read |-> TRUE,
          held |-> IF Missing \in {a.mark, b.mark} THEN {} ELSE {b.qty * (b.mark - a.mark)}]

\* attribute_row: the held P&L of a row across a session, none or one value, and whether
\* its parts can be read: the Greeks at the prior close and both implied volatilities.
\* A share's own close stands for the underlying's.
AttributeRow(a, b) ==
    IF a = NoRow THEN [status |-> "opened_in_session", held |-> {}, read |-> FALSE]
    ELSE IF b = NoRow THEN [status |-> "closed_in_session", held |-> {}, read |-> FALSE]
    ELSE LET priced == Missing \notin {a.mark, b.mark}
             ok == priced /\ (IsOption => Missing \notin {a.under, b.under})
         IN  [status |-> IF ok THEN "ok" ELSE "no_mark",
              held |-> IF priced THEN {a.qty * (b.mark - a.mark)} ELSE {},
              read |-> ok /\ (IsOption => Missing \notin {a.delta, a.others, b.others})]

PreviousSession(d, calendar) == Max({p \in 0 .. d - 1 : ~(calendar /\ p \in Holidays)})

\* pnl_attribution of session d: no item when the session before it has no snapshot.
Attribution(d, calendar) ==
    LET on(p, k) == {r \in rows : r.day = p /\ r.acct = k[1] /\ r.trade = k[2]}
        row(p, k) == IF on(p, k) = {} THEN NoRow ELSE CHOOSE r \in on(p, k) : TRUE
        p == PreviousSession(d, calendar)
    IN  IF ~\E r \in rows : r.day = p THEN {}
        ELSE {[key |-> k, item |-> AttributeRow(row(p, k), row(d, k))] :
              k \in {<<r.acct, r.trade>> : r \in {s \in rows : s.day \in {p, d}}}}

\* _add: the held P&L of the rows read, and of the rest in a sum of its own.
Held(items, read) ==
    MapThenSumSet(LAMBDA i : SumSet(i.item.held), {i \in items : i.item.read = read})

-----------------------------------------------------------------------------
(* Properties.                                                             *)

RowsOn(d, a) == {r \in rows : r.day = d /\ r.acct = a}

\* "a rerun never mixes two reads of its book": the rows of an account and a session are
\* of one read and add up to the position whose balances its NAV row holds; there is
\* none without the NAV row. Only jobs that run at the same time can mix two reads.
OneReadPerBook ==
    overlapped \/ \A d \in 1 .. Days, a \in Accounts :
        IF nav[d][a] = NoNav THEN RowsOn(d, a) = {}
        ELSE /\ \A r, s \in RowsOn(d, a) : r.read = s.read
             /\ MapThenSumSet(LAMBDA r : r.qty, RowsOn(d, a)) = nav[d][a].held

\* "A row read before the close is not a closing balance": nav_history drops nothing the
\* job writes, and the balances and the positions are of the close or later, for an account
\* whose syncs were all whole: the account row's time vouches for the rest only then.
BookIsTheClose ==
    /\ Dropped(TRUE) = {}
    /\ \A d \in 1 .. Days, a \in Accounts \ ragged :
           nav[d][a] # NoNav => nav[d][a].cash >= CloseAt(d, TRUE) /\ nav[d][a].seen >= CloseAt(d, TRUE)

\* "the first capture of an account is the one kept", "only NULLs change": no run takes a
\* row of history away or changes a value it holds.
HistoryIsKept ==
    [][/\ \A d \in 1 .. Days, a \in Accounts : nav[d][a] # NoNav => nav'[d][a] = nav[d][a]
       /\ \A r \in rows : \E s \in rows' :
              /\ SameKey(r, s) /\ s.qty = r.qty /\ s.read = r.read
              /\ \A f \in {"mark", "under", "asof", "delta", "others"} : r[f] \in {Missing, s[f]}
              /\ r.mark # Missing => s.src = r.src]_snapshotVars

\* "enrich no longer stores such a close": a mark under intrinsic, or a vendor close traded
\* in an earlier session with an IV to replace it, is on file only for a session some
\* enrich has marked without the underlying's close or the session's bounds.
NoStaleMark ==
    \A r \in rows :
        \/ MarkBelowIntrinsic(r)
        \/ r.src = "vendor_eod" /\ IsOption /\ r.print.traded = "earlier" /\ r.print.model # Missing
        => r.day \in blind

\* "the vendor's Greeks of that session, all five values present": the grade is told from
\* one as-of for Greeks that were filled in one by one, in runs that read newer rows. Only
\* jobs that run at the same time can mix two sessions under it.
VendorGradeIsTheSessions ==
    overlapped \/ ~IsOption \/ \A r \in rows :
        GreeksQuality(r) = "vendor" => r.delta = r.day /\ r.others = r.day

\* The held P&L of a session, read and unread, is that of the position at the prior close,
\* however trades share it, while they are the same trades at both closes.
HeldIsThePositions ==
    overlapped \/ \A d \in 1 .. Days, a \in Accounts :
        LET p == PreviousSession(d, TRUE)
            items == {i \in Attribution(d, TRUE) : i.key[1] = a}
        IN  /\ items # {} /\ \A i \in items : i.item.status = "ok"
            => \A r \in RowsOn(p, a), s \in RowsOn(d, a) :
                   Held(items, TRUE) + Held(items, FALSE) = nav[p][a].held * (s.mark - r.mark)
=============================================================================
