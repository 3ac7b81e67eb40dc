-------------------------- MODULE BookSnapshotProofs --------------------------
(***************************************************************************)
(* Proofs about BookSnapshot, for every set of accounts, trades, jobs,     *)
(* holidays, prices and vendor rows, and any number of syncs, runs and     *)
(* faults. What a job has read (JobOK) is what its transaction will write; *)
(* the rest says of each table what a row of it can be, and of the rows of *)
(* an account and a session that they are one book.                        *)
(***************************************************************************)
EXTENDS BookSnapshot, FiniteSetTheorems, WellFoundedInduction, TLAPS

Domains ==
    /\ DOMAIN broker = Accounts /\ DOMAIN nav = 1 .. Days
    /\ DOMAIN offer = 1 .. Days /\ DOMAIN job = Jobs
    /\ cast \in Casts /\ clock \in 1 .. 3 * Days
    /\ share \in [Accounts -> [Trades -> Shares]]

\* A record has its fields and no others.
Shape(r) ==
    r \in [day : {r.day}, acct : {r.acct}, trade : {r.trade}, qty : {r.qty}, pos : {r.pos},
           read : {r.read}, mark : {r.mark}, src : {r.src}, under : {r.under},
           asof : {r.asof}, delta : {r.delta}, others : {r.others}, print : {r.print}]

RowOK(r) ==
    /\ Shape(r)
    /\ r.day \in 1 .. Days /\ r.acct \in Accounts /\ r.trade \in Trades \cup {NoTrade}
    /\ r.mark \in Int
    /\ r.under \in {Missing, Underlying[r.day]}

\* A row as capture writes it.
NewRow(r, d) ==
    /\ RowOK(r) /\ r.day = d
    /\ r.mark = Missing /\ r.src = "none" /\ r.asof = Missing
    /\ r.delta = Missing /\ r.others = Missing

\* An account row that was whole has one time for its parts.
BrokerOK ==
    \A a \in Accounts :
        /\ broker[a].held \in Holdings
        /\ {broker[a].at, broker[a].cash, broker[a].seen} \subseteq 0 .. clock
        /\ a \notin ragged => broker[a].cash = broker[a].at /\ broker[a].seen = broker[a].at

\* A balance of session d, of its close or later.
AtClose(d, a, n) ==
    /\ n.at \in 0 .. clock /\ n.at >= CloseAt(d, TRUE)
    /\ a \notin ragged => n.cash >= CloseAt(d, TRUE) /\ n.seen >= CloseAt(d, TRUE)

NavOK == \A d \in 1 .. Days, a \in Accounts : nav[d][a] # NoNav => AtClose(d, a, nav[d][a])

\* What a job has read.
JobOK(w) ==
    /\ w.at \in {"idle", "capture", "write", "enrich", "fetch", "update"}
    /\ w.at # "idle" => w.day \in 1 .. Days
    /\ w.at = "write" =>
           /\ \A a \in DOMAIN w.nav : AtClose(w.day, a, w.nav[a])
           /\ \A r \in w.rows : NewRow(r, w.day)
    /\ w.at \in {"fetch", "update"} => \A r \in w.todo : RowOK(r) /\ r.day = w.day
    /\ w.at = "update" =>
           /\ w.close \in {Missing, Underlying[w.day]} /\ w.bounds \in BOOLEAN
           /\ w.offer \in Offers \cup {NoOffer}

Stale(r) ==
    \/ MarkBelowIntrinsic(r)
    \/ r.src = "vendor_eod" /\ IsOption /\ r.print.traded = "earlier" /\ r.print.model # Missing

\* A mark that was stored with the close and the bounds known is not stale.
MarksOK ==
    \A r \in rows :
        /\ r.mark # Missing => r.day \in blind \/ r.under # Missing
        /\ r.day \notin blind => ~Stale(r)

\* A row's Greeks go with its as-of: once that is the session, so is every later offer.
GreeksOK(r) ==
    /\ r.asof = Missing => r.delta = Missing /\ r.others = Missing
    /\ r.asof = r.day =>
           /\ {r.delta, r.others} \subseteq {Missing, r.day}
           /\ offer[r.day] \in Offers /\ offer[r.day].behind = 0

\* Without an overlap one job is at work, and its offer is the newest that was read.
Solo ==
    \/ overlapped
    \/ /\ \A j, k \in Jobs : job[j].at # "idle" /\ job[k].at # "idle" => j = k
       /\ \A j \in Jobs : job[j].at = "update" /\ job[j].offer # NoOffer =>
              offer[job[j].day] = job[j].offer
       /\ \A r \in rows : GreeksOK(r)

SnapshotInv ==
    /\ Domains /\ BrokerOK /\ NavOK /\ MarksOK /\ Solo
    /\ \A r \in rows : RowOK(r)
    /\ \A d \in 1 .. Days : offer[d] \in Offers \cup {NoOffer}
    /\ \A j \in Jobs : JobOK(job[j])

\* Into what a position of h is split when the trades' net fills are f, and how much each
\* part is.
Parts(h, f) == Named(f) \cup (IF Remainder(h, f) # 0 \/ Named(f) = {} THEN {NoTrade} ELSE {})
PartOf(h, f, t) == IF t = NoTrade THEN Remainder(h, f) ELSE f[t]

\* The rows R are a whole split of a position of h: one row a part, all of one read.
Whole(R, h) ==
    \E f \in [Trades -> Shares] :
        /\ \A r \in R : r.trade \in Parts(h, f) /\ r.qty = PartOf(h, f, r.trade)
        /\ \A t \in Parts(h, f) : \E r \in R : r.trade = t
        /\ \A r, s \in R : r.read = s.read /\ (r.trade = s.trade => r = s)

\* There are none for a position of 0.
BookOf(R, h) == h \in Holdings /\ IF h = 0 THEN R = {} ELSE Whole(R, h)

\* What enrich goes by and fills is one for all rows of an account and a session.
Alike(r, s) == r.mark = s.mark /\ r.under = s.under /\ r.delta = s.delta /\ r.others = s.others

\* The book of each account and session: none without its balances, a whole one with them.
Books ==
    \A d \in 1 .. Days, a \in Accounts :
        /\ IF nav[d][a] = NoNav THEN RowsOn(d, a) = {} ELSE BookOf(RowsOn(d, a), nav[d][a].held)
        /\ \A r, s \in RowsOn(d, a) : Alike(r, s)

\* What a capture will write has not been written, and is a book for each account.
CaptureOK(w) ==
    w.at = "write" =>
        /\ DOMAIN w.nav \subseteq Accounts
        /\ \A r \in w.rows : r.acct \in DOMAIN w.nav
        /\ \A r, s \in w.rows : Alike(r, s)
        /\ \A a \in DOMAIN w.nav :
               nav[w.day][a] = NoNav /\ BookOf({r \in w.rows : r.acct = a}, w.nav[a].held)

\* What an enrich has read is all there still is to fill.
EnrichOK(w) ==
    w.at \in {"fetch", "update"} => w.todo = {r \in rows : r.day = w.day /\ Incomplete(r)}

\* While no two jobs have run at the same time, every book is of one read.
BookInv ==
    overlapped \/ (Books /\ \A j \in Jobs : CaptureOK(job[j]) /\ EnrichOK(job[j]))

-----------------------------------------------------------------------------
(* Rows and marks.                                                         *)

\* What the UPDATE leaves of a row and what it fills.
LEMMA FilledFields ==
    ASSUME NEW r, Shape(r), NEW v
    PROVE  LET n == Filled(r, v)
           IN  /\ Shape(n)
               /\ n.day = r.day /\ n.acct = r.acct /\ n.trade = r.trade
               /\ n.qty = r.qty /\ n.pos = r.pos /\ n.read = r.read
               /\ n.under = Coalesce(r.under, v.under) /\ n.delta = Coalesce(r.delta, v.delta)
               /\ n.others = Coalesce(r.others, v.others) /\ n.asof = Coalesce(r.asof, v.asof)
               /\ n.mark = Coalesce(r.mark, v.eod.mark)
               /\ n.src = IF NewMark(r, v) THEN v.eod.src ELSE r.src
               /\ n.print = IF NewMark(r, v) THEN v.offer ELSE r.print
<1> DEFINE n == Filled(r, v)
<1>1. /\ n.day = r.day /\ n.acct = r.acct /\ n.trade = r.trade
      /\ n.qty = r.qty /\ n.pos = r.pos /\ n.read = r.read
      /\ n.under = Coalesce(r.under, v.under) /\ n.delta = Coalesce(r.delta, v.delta)
      /\ n.others = Coalesce(r.others, v.others) /\ n.asof = Coalesce(r.asof, v.asof)
      /\ n.mark = Coalesce(r.mark, v.eod.mark)
      /\ n.src = IF NewMark(r, v) THEN v.eod.src ELSE r.src
      /\ n.print = IF NewMark(r, v) THEN v.offer ELSE r.print
  BY DEF Filled, Shape
<1>2. n \in [day : {n.day}, acct : {n.acct}, trade : {n.trade}, qty : {n.qty}, pos : {n.pos},
             read : {n.read}, mark : {n.mark}, src : {n.src}, under : {n.under},
             asof : {n.asof}, delta : {n.delta}, others : {n.others}, print : {n.print}]
  BY <1>1 DEF Filled, Shape
<1> QED BY <1>1, <1>2 DEF Shape

\* An option's mark is a price, of the intrinsic value at least where that is known, and
\* not of an earlier session's trade where the bounds and a vendor-IV price are.
LEMMA EodMarkSound ==
    ASSUME SnapshotAssumption, NEW o \in Offers, NEW under \in Nat \cup {Missing}, NEW bounds \in BOOLEAN
    PROVE  LET m == EodMark(o, under, bounds)
           IN  /\ m.mark \in Int
               /\ m.mark # Missing /\ under # Missing => m.mark >= IntrinsicValue(under) - Tolerance
               /\ m.mark # Missing /\ under # Missing /\ bounds /\ m.src = "vendor_eod" =>
                      ~(o.traded = "earlier" /\ o.model # Missing)
<1>1. /\ o.close \in Nat \cup {Missing} /\ o.model \in Nat \cup {Missing} /\ Strike \in Nat
  BY DEF SnapshotAssumption
<1>2. under # Missing => IntrinsicValue(under) \in Nat
  BY <1>1 DEF IntrinsicValue, Larger, Missing
<1>3. CASE o.close = Missing \/ under = Missing
  BY <1>1, <1>3 DEF EodMark, Missing
<1>4. CASE o.close # Missing /\ under # Missing
  <2> DEFINE intrinsic == IntrinsicValue(under)
             reference == IF o.model = Missing THEN Missing ELSE Larger(o.model, intrinsic)
             kept == o.close >= intrinsic - Tolerance /\ ~StaleClose(o.close, reference, o.traded, bounds)
  <2>1. o.model # Missing => reference # Missing
    BY <1>1, <1>2, <1>4 DEF Larger, Missing
  <2>2. kept /\ bounds => ~(o.traded = "earlier" /\ o.model # Missing)
    BY <2>1 DEF StaleClose
  <2>3. EodMark(o, under, bounds) =
            IF kept THEN [mark |-> o.close, src |-> "vendor_eod"]
            ELSE IF o.model # Missing /\ o.model >= intrinsic
            THEN [mark |-> o.model, src |-> "vendor_iv_model"]
            ELSE [mark |-> intrinsic, src |-> "intrinsic_floor"]
    BY <1>4 DEF EodMark
  <2>4. kept => o.close >= intrinsic - Tolerance
    OBVIOUS
  <2> HIDE DEF kept, reference
  <2>5. CASE kept
    BY <1>1, <2>2, <2>3, <2>4, <2>5 DEF Missing
  <2>6. CASE ~kept
    BY <1>1, <1>2, <1>4, <2>3, <2>6 DEF Missing, Tolerance
  <2> QED BY <2>5, <2>6
<1> QED BY <1>3, <1>4

\* What enrich may have for a row.
Sound(v, r, close, o, bounds) ==
    /\ v.under = close /\ v.offer = o /\ v.eod.mark \in Int
    /\ v.asof = IF o # NoOffer THEN r.day - o.behind ELSE Missing
    /\ {v.delta, v.others} \subseteq {Missing, v.asof}
    /\ IsOption /\ v.eod.mark # Missing /\ close # Missing =>
           v.eod.mark >= IntrinsicValue(close) - Tolerance
    /\ IsOption /\ v.eod.mark # Missing /\ close # Missing /\ bounds /\ v.eod.src = "vendor_eod" =>
           ~(o.traded = "earlier" /\ o.model # Missing)

LEMMA ValuesSound ==
    ASSUME SnapshotAssumption, NEW r, RowOK(r), NEW close \in {Missing, Underlying[r.day]},
           NEW o \in Offers \cup {NoOffer}, NEW bounds \in BOOLEAN
    PROVE  Sound(Values(r, close, o, bounds), r, close, o, bounds)
<1> DEFINE under == Coalesce(r.under, close)
           eod == IF ~IsOption THEN [mark |-> close, src |-> "vendor_eod"]
                  ELSE IF o # NoOffer THEN EodMark(o, under, bounds)
                  ELSE [mark |-> Missing, src |-> "vendor_eod"]
<1>1. Underlying[r.day] \in Nat /\ Underlying[r.day] # Missing
  BY DEF SnapshotAssumption, RowOK, Missing
<1>2. under \in Nat \cup {Missing} /\ (close # Missing => under = close)
  BY <1>1 DEF RowOK, Coalesce
<1>3. Values(r, close, o, bounds).eod = eod
  BY DEF Values
<1>4. /\ eod.mark \in Int
      /\ IsOption /\ eod.mark # Missing /\ close # Missing => eod.mark >= IntrinsicValue(close) - Tolerance
      /\ IsOption /\ eod.mark # Missing /\ close # Missing /\ bounds /\ eod.src = "vendor_eod" =>
             ~(o.traded = "earlier" /\ o.model # Missing)
  <2>1. CASE ~IsOption \/ o = NoOffer
    BY <1>1, <2>1 DEF Missing
  <2>2. CASE IsOption /\ o # NoOffer
    <3>1. eod = EodMark(o, under, bounds) /\ o \in Offers
      BY <2>2
    <3> HIDE DEF eod, under
    <3> QED BY <1>2, <3>1, EodMarkSound
  <2> QED BY <2>1, <2>2
<1>5. LET v == Values(r, close, o, bounds)
      IN  /\ v.under = close /\ v.offer = o
          /\ v.asof = IF o # NoOffer THEN r.day - o.behind ELSE Missing
          /\ {v.delta, v.others} \subseteq {Missing, v.asof}
  BY DEF Values
<1> HIDE DEF eod
<1> QED BY <1>3, <1>4, <1>5 DEF Sound

-----------------------------------------------------------------------------
(* Steps that write no table.                                              *)

\* The job that goes on, and the others.
LEMMA Becomes ==
    ASSUME Domains, NEW j \in Jobs, NEW v, Become(j, v)
    PROVE  /\ DOMAIN job' = Jobs /\ job'[j] = v
           /\ \A k \in Jobs \ {j} : job'[k] = job[k]
BY DEF Domains, Become

LEMMA InitSnapshot ==
    ASSUME SnapshotAssumption, Init
    PROVE  SnapshotInv
<1>1. Domains /\ BrokerOK
  BY DEF Init, Domains, BrokerOK, SnapshotAssumption
<1>2. NavOK /\ MarksOK /\ Solo
  BY DEF Init, NavOK, MarksOK, Solo, IdleJob
<1>3. \A j \in Jobs : JobOK(job[j])
  BY DEF Init, JobOK, IdleJob
<1> QED BY <1>1, <1>2, <1>3 DEF SnapshotInv, Init

\* A sync that is not whole takes an account out of the promise.
LEMMA SyncKeeps ==
    ASSUME SnapshotInv, NEW a \in Accounts, NEW h \in Holdings, NEW summary \in BOOLEAN,
           NEW positions \in BOOLEAN, Sync(a, h, summary, positions)
    PROVE  SnapshotInv'
<1>1. /\ UNCHANGED <<nav, rows, offer, job, clock, overlapped, blind, share, cast>>
      /\ ragged \subseteq ragged'
      /\ a \notin ragged' => summary /\ positions
      /\ DOMAIN broker' = Accounts
      /\ \A b \in Accounts \ {a} : broker'[b] = broker[b]
      /\ broker'[a].at = clock
      /\ summary => broker'[a].cash = clock
      /\ positions => broker'[a].seen = clock
  BY DEF Sync, tables, SnapshotInv, Domains
<1>2. Domains'
  BY <1>1 DEF SnapshotInv, Domains
<1>3. BrokerOK'
  <2>1. clock \in 0 .. clock
    BY DEF SnapshotInv, Domains
  <2>2. broker'[a].held = h
    BY DEF Sync, SnapshotInv, Domains
  <2>3. {broker'[a].cash, broker'[a].seen} \subseteq {clock, broker[a].cash, broker[a].seen}
    BY DEF Sync, SnapshotInv, Domains
  <2> QED BY <1>1, <2>1, <2>2, <2>3 DEF SnapshotInv, BrokerOK
<1>4. ASSUME NEW d, NEW b, NEW n, AtClose(d, b, n)
      PROVE  AtClose(d, b, n)'
  BY <1>1, <1>4 DEF AtClose
<1>5. NavOK'
  BY <1>1, <1>4 DEF SnapshotInv, NavOK
<1>6. \A j \in Jobs : JobOK(job[j])'
  BY <1>1, <1>4 DEF SnapshotInv, JobOK
<1>7. MarksOK' /\ Solo'
  BY <1>1 DEF SnapshotInv, MarksOK, Solo, GreeksOK
<1> QED BY <1>1, <1>2, <1>3, <1>5, <1>6, <1>7 DEF SnapshotInv

LEMMA WorldKeeps ==
    ASSUME SnapshotAssumption, SnapshotInv,
           \/ Tick
           \/ \E a \in Accounts, t \in Trades, q \in Shares : Attribute(a, t, q)
           \/ UNCHANGED snapshotVars
    PROVE  SnapshotInv'
<1>1. UNCHANGED <<broker, nav, rows, offer, job, overlapped, blind, ragged, cast>>
  BY DEF Tick, Attribute, snapshotVars, tables, history
<1>2. clock' \in 1 .. 3 * Days /\ clock <= clock'
  <2>1. clock \in 1 .. 3 * Days /\ cast.days \in 1 .. Days /\ Days \in Nat
    BY DEF SnapshotInv, Domains, SnapshotAssumption
  <2> QED BY <2>1 DEF Tick, Attribute, snapshotVars
<1>3. share' \in [Accounts -> [Trades -> Shares]]
  <2>1. share \in [Accounts -> [Trades -> Shares]]
    BY DEF SnapshotInv, Domains
  <2> QED BY <2>1 DEF Tick, Attribute, snapshotVars
<1>4. Domains'
  BY <1>1, <1>2, <1>3 DEF SnapshotInv, Domains
<1>5. 0 .. clock \subseteq 0 .. clock'
  BY <1>2 DEF SnapshotInv, Domains
<1>6. BrokerOK'
  BY <1>1, <1>5 DEF SnapshotInv, BrokerOK
<1>7. ASSUME NEW d, NEW b, NEW n, AtClose(d, b, n)
      PROVE  AtClose(d, b, n)'
  BY <1>1, <1>5, <1>7 DEF AtClose
<1>8. NavOK' /\ MarksOK' /\ Solo'
  BY <1>1, <1>7 DEF SnapshotInv, NavOK, MarksOK, Solo, GreeksOK
<1>9. \A j \in Jobs : JobOK(job[j])'
  BY <1>1, <1>7 DEF SnapshotInv, JobOK
<1> QED BY <1>1, <1>4, <1>6, <1>8, <1>9 DEF SnapshotInv

-----------------------------------------------------------------------------
(* The steps of a job.                                                     *)

\* A job goes on with what it has read, while the tables stay; the vendor's row of a
\* session may have become newer.
LEMMA JobMoves ==
    ASSUME SnapshotInv, NEW j \in Jobs, NEW v, Become(j, v), JobOK(v),
           UNCHANGED <<broker, share, nav, rows, clock, blind, ragged, cast>>,
           overlapped => overlapped',
           ~overlapped' => job[j].at # "idle" \/ v.at = "idle" \/ \A k \in Jobs \ {j} : job[k].at = "idle",
           DOMAIN offer' = 1 .. Days,
           job[j].at = "idle" => offer' = offer,
           \A d \in 1 .. Days :
               \/ offer'[d] = offer[d]
               \/ /\ offer'[d] \in Offers
                  /\ offer[d] \in Offers /\ offer[d].behind = 0 => offer'[d].behind = 0,
           v.at = "update" /\ v.offer # NoOffer => offer'[v.day] = v.offer
    PROVE  SnapshotInv'
<1> USE DEF SnapshotInv
<1>1. /\ DOMAIN job' = Jobs /\ job'[j] = v
      /\ \A k \in Jobs \ {j} : job'[k] = job[k]
  BY Becomes
<1>2. Domains' /\ BrokerOK' /\ NavOK' /\ MarksOK'
  BY <1>1 DEF Domains, BrokerOK, NavOK, AtClose, MarksOK
<1>3. ASSUME NEW w, JobOK(w)
      PROVE  JobOK(w)'
  BY <1>3 DEF JobOK, AtClose
<1>4. \A k \in Jobs : JobOK(job[k])'
  <2>1. ASSUME NEW k \in Jobs, NEW w, w = job'[k], JobOK(w)
        PROVE  JobOK(job[k])'
    BY <2>1 DEF JobOK, AtClose
  <2>2. ASSUME NEW k \in Jobs
        PROVE  JobOK(job'[k])
    BY <1>1
  <2> QED BY <2>1, <2>2
<1>5. Solo'
  <2>1. SUFFICES ASSUME ~overlapped' PROVE Solo'
    BY DEF Solo
  <2>2. /\ \A k, l \in Jobs : job[k].at # "idle" /\ job[l].at # "idle" => k = l
        /\ \A k \in Jobs : job[k].at = "update" /\ job[k].offer # NoOffer => offer[job[k].day] = job[k].offer
        /\ \A r \in rows : GreeksOK(r)
    BY <2>1 DEF Solo
  <2>3. \A k, l \in Jobs : job'[k].at # "idle" /\ job'[l].at # "idle" => k = l
    BY <1>1, <2>1, <2>2
  <2>4. \A k \in Jobs : job'[k].at = "update" /\ job'[k].offer # NoOffer => offer'[job'[k].day] = job'[k].offer
    <3>1. ASSUME NEW k \in Jobs \ {j}, job[k].at = "update"
          PROVE  offer' = offer
      BY <2>2, <3>1
    <3>2. ASSUME NEW k \in Jobs \ {j}, job'[k].at = "update", job'[k].offer # NoOffer
          PROVE  offer'[job'[k].day] = job'[k].offer
      <4>1. job'[k] = job[k]
        BY <1>1
      <4> HIDE DEF SnapshotInv
      <4> QED BY <2>2, <3>1, <3>2, <4>1
    <3> QED BY <1>1, <3>2
  <2>5. ASSUME NEW r \in rows PROVE GreeksOK(r)'
    <3>1. GreeksOK(r) /\ r.day \in 1 .. Days
      BY <2>2 DEF RowOK
    <3> QED BY <3>1 DEF GreeksOK
  <2> QED BY <2>3, <2>4, <2>5 DEF Solo
<1>6. \A r \in rows' : RowOK(r)
  OBVIOUS
<1>7. \A d \in 1 .. Days : offer'[d] \in Offers \cup {NoOffer}
  OBVIOUS
<1> QED BY <1>2, <1>4, <1>5, <1>6, <1>7

LEMMA StartKeeps ==
    ASSUME SnapshotInv, NEW j \in Jobs, NEW step, NEW d \in 1 .. Days, NEW calendar \in BOOLEAN,
           Start(j, step, d, calendar)
    PROVE  SnapshotInv'
<1> DEFINE v == IF d \in Holidays /\ calendar THEN IdleJob
                ELSE [at |-> IF step = "enrich" THEN "enrich" ELSE "capture", step |-> step, day |-> d]
<1>1. /\ Become(j, v)
      /\ UNCHANGED <<broker, share, offer, nav, rows, clock, blind, ragged, cast>>
      /\ overlapped' = (overlapped \/ \E k \in Jobs \ {j} : job[k].at # "idle")
  BY DEF Start, tables
<1>2. JobOK(v) /\ v.at # "update"
  BY DEF JobOK, IdleJob
<1> HIDE DEF v
<1> QED BY <1>1, <1>2, JobMoves DEF SnapshotInv, Domains

LEMMA CrashKeeps ==
    ASSUME SnapshotInv, NEW j \in Jobs, Crash(j)
    PROVE  SnapshotInv'
<1>1. JobOK(IdleJob) /\ IdleJob.at = "idle"
  BY DEF JobOK, IdleJob
<1>2. /\ Become(j, IdleJob)
      /\ UNCHANGED <<broker, share, offer, nav, rows, clock, blind, ragged, cast, overlapped>>
  BY DEF Crash, tables, history
<1> QED BY <1>1, <1>2, JobMoves DEF SnapshotInv, Domains

\* What follows a capture.
LEMMA NextStep ==
    ASSUME SnapshotInv, NEW j \in Jobs, job[j].at # "idle"
    PROVE  JobOK(Next1(j)) /\ Next1(j).at \in {"idle", "enrich"}
BY DEF SnapshotInv, JobOK, Next1, IdleJob

LEMMA SplitRowsNew ==
    ASSUME SnapshotAssumption, NEW d \in 1 .. Days, NEW a \in Accounts, NEW h, NEW f, NEW read,
           NEW r \in SplitRows(d, a, h, f, read)
    PROVE  NewRow(r, d)
<1>1. PICK t \in Trades \cup {NoTrade} :
          r = [day |-> d, acct |-> a, trade |-> t,
               qty |-> IF t = NoTrade THEN Remainder(h, f) ELSE f[t],
               pos |-> h, read |-> read, mark |-> Missing, src |-> "none", under |-> Missing,
               asof |-> Missing, delta |-> Missing, others |-> Missing, print |-> NoOffer]
  BY DEF SplitRows, Named
<1> QED BY <1>1 DEF NewRow, RowOK, Shape, Missing

\* The close without the calendar is not before the one with it.
LEMMA NoLaterClose ==
    ASSUME NEW d \in 1 .. Days, NEW calendar \in BOOLEAN, NEW x \in Int, x >= CloseAt(d, calendar)
    PROVE  x >= CloseAt(d, TRUE)
BY DEF CloseAt

\* A capture reads balances of the close: it takes no account that was updated before it,
\* and when the calendar cannot be read it takes 16:00 for the close.
LEMMA CaptureReadKeeps ==
    ASSUME SnapshotAssumption, SnapshotInv, NEW j \in Jobs, NEW calendar \in BOOLEAN,
           NEW attribution \in BOOLEAN, CaptureRead(j, calendar, attribution)
    PROVE  SnapshotInv'
<1> DEFINE d == job[j].day
           pending == Pending(d, calendar)
           open == {a \in pending : broker[a].held # 0}
           v == [at |-> "write", step |-> job[j].step, day |-> d,
                 nav |-> [a \in pending |-> [at |-> broker[a].at, cash |-> broker[a].cash,
                                             seen |-> broker[a].seen, held |-> broker[a].held]],
                 rows |-> UNION {SplitRows(d, a, broker[a].held, share[a], runs) : a \in open}]
<1>1. /\ job[j].at = "capture" /\ (Become(j, Next1(j)) \/ Become(j, v))
      /\ UNCHANGED <<broker, share, offer, nav, rows, clock, overlapped, blind, ragged, cast>>
  BY DEF CaptureRead, tables, history
<1>2. d \in 1 .. Days
  BY <1>1 DEF SnapshotInv, JobOK
<1>3. \A a \in pending : AtClose(d, a, v.nav[a])
  <2>1. ASSUME NEW a \in pending
        PROVE  AtClose(d, a, v.nav[a])
    <3>1. a \in Accounts /\ broker[a].at >= CloseAt(d, calendar)
      BY DEF Pending
    <3>2. /\ broker[a].at \in 0 .. clock /\ clock \in Int
          /\ a \notin ragged => broker[a].cash = broker[a].at /\ broker[a].seen = broker[a].at
      BY <3>1 DEF SnapshotInv, BrokerOK, Domains
    <3>3. broker[a].at >= CloseAt(d, TRUE)
      <4> HIDE DEF d, pending, v
      <4>1. broker[a].at \in Int
        BY <3>2
      <4> QED BY <1>2, <3>1, <4>1, NoLaterClose
    <3>4. v.nav[a] = [at |-> broker[a].at, cash |-> broker[a].cash,
                      seen |-> broker[a].seen, held |-> broker[a].held]
      OBVIOUS
    <3> QED BY <3>2, <3>3, <3>4 DEF AtClose
  <2> QED BY <2>1
<1>4. \A r \in v.rows : NewRow(r, d)
  BY <1>2, SplitRowsNew DEF Pending
<1>5. JobOK(v) /\ v.at = "write"
  BY <1>2, <1>3, <1>4 DEF JobOK
<1>6. JobOK(Next1(j)) /\ Next1(j).at # "update"
  BY <1>1, NextStep
<1> HIDE DEF v
<1> QED BY <1>1, <1>5, <1>6, JobMoves DEF SnapshotInv, Domains

LEMMA EnrichReadKeeps ==
    ASSUME SnapshotInv, NEW j \in Jobs, EnrichRead(j)
    PROVE  SnapshotInv'
<1> DEFINE d == job[j].day
           todo == {r \in rows : r.day = d /\ Incomplete(r)}
           v == IF todo = {} THEN IdleJob
                ELSE [at |-> "fetch", step |-> job[j].step, day |-> d, todo |-> todo]
<1>1. /\ job[j].at = "enrich" /\ Become(j, v)
      /\ UNCHANGED <<broker, share, offer, nav, rows, clock, overlapped, blind, ragged, cast>>
  BY DEF EnrichRead, tables, history
<1>2. JobOK(v) /\ v.at # "update"
  BY <1>1 DEF SnapshotInv, JobOK, IdleJob
<1> HIDE DEF v
<1> QED BY <1>1, <1>2, JobMoves DEF SnapshotInv, Domains

\* A newer vendor row is not of an earlier session than the one before.
LEMMA EnrichFetchKeeps ==
    ASSUME SnapshotAssumption, SnapshotInv, NEW j \in Jobs, NEW bounds \in BOOLEAN,
           NEW closes \in BOOLEAN, NEW o \in Offers \cup {NoOffer}, EnrichFetch(j, bounds, closes, o)
    PROVE  SnapshotInv'
<1> DEFINE d == job[j].day
           v == [at |-> "update", step |-> job[j].step, day |-> d, todo |-> job[j].todo,
                 bounds |-> bounds, close |-> IF closes THEN Underlying[d] ELSE Missing,
                 offer |-> o]
<1>1. /\ job[j].at = "fetch" /\ Become(j, v)
      /\ UNCHANGED <<broker, share, nav, rows, clock, overlapped, blind, ragged, cast>>
      /\ offer' = IF o # NoOffer THEN [offer EXCEPT ![d] = o] ELSE offer
      /\ o # NoOffer => o \in Offers /\ (o = offer[d] \/ Newer(o, offer[d]))
  BY DEF EnrichFetch, tables, history
<1>2. d \in 1 .. Days /\ JobOK(v)
  BY <1>1 DEF SnapshotInv, JobOK
<1>3. DOMAIN offer' = 1 .. Days /\ (o # NoOffer => offer'[d] = o)
      /\ \A e \in 1 .. Days \ {d} : offer'[e] = offer[e]
  BY <1>1, <1>2 DEF SnapshotInv, Domains
<1>4. ASSUME o # NoOffer, offer[d] \in Offers, offer[d].behind = 0
      PROVE  o.behind = 0
  <2>1. offer[d] # NoOffer /\ {o.behind, offer[d].behind} \subseteq {0, 1}
    BY <1>1, <1>4 DEF SnapshotAssumption, NoOffer
  <2> QED BY <1>1, <1>4, <2>1 DEF Newer
<1>5. v.offer = o /\ v.day = d
  OBVIOUS
<1> HIDE DEF v
<1>6. \A e \in 1 .. Days :
          \/ offer'[e] = offer[e]
          \/ /\ offer'[e] \in Offers
             /\ offer[e] \in Offers /\ offer[e].behind = 0 => offer'[e].behind = 0
  BY <1>1, <1>2, <1>3, <1>4
<1> QED BY <1>1, <1>2, <1>3, <1>5, <1>6, JobMoves

-----------------------------------------------------------------------------
(* The two transactions.                                                   *)

LEMMA CaptureWriteKeeps ==
    ASSUME SnapshotAssumption, SnapshotInv, NEW j \in Jobs, CaptureWrite(j)
    PROVE  SnapshotInv'
<1> USE DEF SnapshotInv
<1> DEFINE e == job[j].day
<1>1. /\ job[j].at = "write" /\ Become(j, Next1(j))
      /\ UNCHANGED <<broker, share, offer, clock, overlapped, blind, ragged, cast>>
      /\ nav' = [nav EXCEPT ![e] = [a \in Accounts |->
             IF nav[e][a] = NoNav /\ a \in DOMAIN job[j].nav THEN job[j].nav[a] ELSE nav[e][a]]]
      /\ rows' = rows \cup {r \in job[j].rows : \A s \in rows : ~SameKey(r, s)}
  BY DEF CaptureWrite, history
<1>2. /\ DOMAIN job' = Jobs /\ job'[j] = Next1(j) /\ JobOK(Next1(j)) /\ Next1(j).at \in {"idle", "enrich"}
      /\ \A k \in Jobs \ {j} : job'[k] = job[k]
  BY <1>1, Becomes, NextStep
<1>3. /\ e \in 1 .. Days
      /\ \A a \in DOMAIN job[j].nav : AtClose(e, a, job[j].nav[a])
      /\ \A r \in job[j].rows : NewRow(r, e)
  BY <1>1 DEF JobOK
<1>4. \A r \in rows' : r \in rows \/ NewRow(r, e)
  BY <1>1, <1>3
<1>5. Domains' /\ BrokerOK'
  BY <1>1, <1>2 DEF Domains, BrokerOK
<1>6. NavOK'
  <2>1. ASSUME NEW d \in 1 .. Days, NEW a \in Accounts, nav'[d][a] # NoNav
        PROVE  AtClose(d, a, nav'[d][a])
    <3>1. nav'[d][a] = nav[d][a] \/ (d = e /\ a \in DOMAIN job[j].nav /\ nav'[d][a] = job[j].nav[a])
      BY <1>1, <1>3 DEF Domains
    <3>2. nav[d][a] # NoNav => AtClose(d, a, nav[d][a])
      BY DEF NavOK
    <3> QED BY <1>3, <2>1, <3>1, <3>2
  <2> QED BY <1>1, <2>1 DEF NavOK, AtClose
<1>7. ASSUME NEW k \in Jobs, NEW w, w = job'[k]
      PROVE  JobOK(job[k])'
  <2>1. JobOK(w)
    BY <1>2, <1>7
  <2> QED BY <1>1, <1>7, <2>1 DEF JobOK, AtClose
<1>8. MarksOK'
  <2>1. ASSUME NEW r \in rows'
        PROVE  /\ r.mark # Missing => r.day \in blind \/ r.under # Missing
               /\ r.day \notin blind => ~Stale(r)
    <3>1. CASE r \in rows
      BY <3>1 DEF MarksOK
    <3>2. CASE NewRow(r, e)
      BY <3>2 DEF NewRow, Stale, MarkBelowIntrinsic
    <3> QED BY <1>4, <3>1, <3>2
  <2> QED BY <1>1, <2>1 DEF MarksOK
<1>9. Solo'
  <2>1. SUFFICES ASSUME ~overlapped' PROVE Solo'
    BY DEF Solo
  <2>2. /\ \A k, l \in Jobs : job[k].at # "idle" /\ job[l].at # "idle" => k = l
        /\ \A k \in Jobs : job[k].at = "update" /\ job[k].offer # NoOffer => offer[job[k].day] = job[k].offer
        /\ \A r \in rows : GreeksOK(r)
    BY <1>1, <2>1 DEF Solo
  <2>3. ASSUME NEW k \in Jobs, NEW l \in Jobs, job'[k].at # "idle", job'[l].at # "idle"
        PROVE  k = l
    BY <1>1, <1>2, <2>2, <2>3
  <2>4. ASSUME NEW k \in Jobs, job'[k].at = "update", job'[k].offer # NoOffer
        PROVE  offer'[job'[k].day] = job'[k].offer
    BY <1>1, <1>2, <2>2, <2>4
  <2>5. ASSUME NEW r \in rows'
        PROVE  GreeksOK(r)'
    <3>1. CASE r \in rows
      BY <1>1, <2>2, <3>1 DEF GreeksOK
    <3>2. CASE NewRow(r, e)
      <4>1. r.day \in 1 .. Days /\ r.asof = Missing /\ r.delta = Missing /\ r.others = Missing
        BY <1>3, <3>2 DEF NewRow
      <4>2. r.asof # r.day
        BY <4>1 DEF Missing
      <4> QED BY <4>1, <4>2 DEF GreeksOK
    <3> QED BY <1>4, <3>1, <3>2
  <2> QED BY <2>3, <2>4, <2>5 DEF Solo
<1>10. \A r \in rows' : RowOK(r)
  BY <1>4 DEF NewRow
<1> QED BY <1>1, <1>5, <1>6, <1>7, <1>8, <1>9, <1>10

\* What is left of row r in the row n it becomes: n is stale only where r was, or where the
\* close or the bounds were not there.
Kept(n, r, close, bounds) ==
    /\ RowOK(n) /\ SameKey(n, r) /\ n.day = r.day
    /\ r.mark # Missing => n.mark = r.mark /\ n.src = r.src /\ n.print = r.print
    /\ r.under # Missing => n.under = r.under
    /\ n.mark # Missing => r.mark # Missing \/ close = Missing \/ n.under # Missing
    /\ \/ r.mark # Missing /\ r.under # Missing /\ ~Stale(r)
       \/ r.mark = Missing /\ ~Stale(r) /\ close # Missing /\ bounds
       => ~Stale(n)

\* A row the UPDATE has filled.
LEMMA FilledRow ==
    ASSUME SnapshotAssumption, NEW r, RowOK(r), NEW s, RowOK(s), s.day = r.day,
           NEW close \in {Missing, Underlying[r.day]}, NEW o \in Offers \cup {NoOffer},
           NEW bounds \in BOOLEAN
    PROVE  Kept(Filled(r, Values(s, close, o, bounds)), r, close, bounds)
<1> DEFINE v == Values(s, close, o, bounds)
           n == Filled(r, v)
<1>1. /\ v.under = close /\ v.offer = o /\ v.eod.mark \in Int
      /\ IsOption /\ v.eod.mark # Missing /\ close # Missing =>
             v.eod.mark >= IntrinsicValue(close) - Tolerance
      /\ IsOption /\ v.eod.mark # Missing /\ close # Missing /\ bounds /\ v.eod.src = "vendor_eod" =>
             ~(o.traded = "earlier" /\ o.model # Missing)
  <2>1. close \in {Missing, Underlying[s.day]}
    OBVIOUS
  <2>2. Sound(v, s, close, o, bounds)
    BY <2>1, ValuesSound, ZenonT(40)
  <2> HIDE DEF v
  <2> QED BY <2>2 DEF Sound
<1>2. Shape(r)
  BY DEF RowOK
<1>3. /\ Shape(n)
      /\ n.day = r.day /\ n.acct = r.acct /\ n.trade = r.trade
      /\ n.under = Coalesce(r.under, v.under) /\ n.mark = Coalesce(r.mark, v.eod.mark)
      /\ n.src = IF NewMark(r, v) THEN v.eod.src ELSE r.src
      /\ n.print = IF NewMark(r, v) THEN v.offer ELSE r.print
  BY <1>2, FilledFields, ZenonT(40)
<1>4. Underlying[r.day] \in Nat /\ Underlying[r.day] # Missing
  BY DEF SnapshotAssumption, RowOK, Missing
<1> HIDE DEF v, n
<1>5. RowOK(n) /\ SameKey(n, r)
  BY <1>1, <1>3, <1>4 DEF RowOK, Coalesce, SameKey
<1>6. /\ r.mark # Missing => n.mark = r.mark /\ n.src = r.src /\ n.print = r.print
      /\ r.under # Missing => n.under = r.under
  BY <1>3 DEF Coalesce, NewMark
<1>7. n.mark # Missing => r.mark # Missing \/ close = Missing \/ n.under # Missing
  BY <1>1, <1>3 DEF Coalesce
<1>8. ASSUME r.mark # Missing, r.under # Missing, ~Stale(r)
      PROVE  ~Stale(n)
  BY <1>3, <1>6, <1>8 DEF Coalesce, Stale, MarkBelowIntrinsic
<1>9. ASSUME r.mark = Missing, ~Stale(r), close # Missing, bounds
      PROVE  ~Stale(n)
  <2>1. n.under = close /\ n.mark = v.eod.mark
    BY <1>1, <1>3, <1>9 DEF Coalesce, RowOK
  <2>2. CASE v.eod.mark = Missing
    <3>1. n.src = r.src /\ n.print = r.print
      BY <1>3, <2>2 DEF NewMark
    <3> QED BY <1>9, <2>1, <2>2, <3>1 DEF Stale, MarkBelowIntrinsic
  <2>3. CASE v.eod.mark # Missing
    <3>1. n.src = v.eod.src /\ n.print = o
      BY <1>1, <1>3, <1>9, <2>3 DEF NewMark
    <3>2. IsOption => ~(v.eod.mark < IntrinsicValue(close) - Tolerance)
      <4>1. Strike \in Nat /\ close \in Int
        BY <1>4, <1>9 DEF SnapshotAssumption
      <4>2. IntrinsicValue(close) - Tolerance \in Int
        BY <4>1 DEF IntrinsicValue, Larger, Tolerance
      <4> QED BY <1>1, <1>9, <2>3, <4>2
    <3> QED BY <1>1, <1>9, <2>1, <2>3, <3>1, <3>2 DEF Stale, MarkBelowIntrinsic
  <2> QED BY <2>2, <2>3
<1>10. Kept(n, r, close, bounds)
  BY <1>3, <1>5, <1>6, <1>7, <1>8, <1>9 DEF Kept
<1> QED BY <1>10 DEF v, n

\* Its Greeks go with its as-of.
LEMMA FilledGreeks ==
    ASSUME SnapshotAssumption, NEW r, RowOK(r), GreeksOK(r), NEW s, RowOK(s), s.day = r.day,
           NEW close \in {Missing, Underlying[r.day]}, NEW o \in Offers \cup {NoOffer},
           NEW bounds \in BOOLEAN, o # NoOffer => offer[r.day] = o
    PROVE  GreeksOK(Filled(r, Values(s, close, o, bounds)))
<1> DEFINE v == Values(s, close, o, bounds)
           n == Filled(r, v)
<1>1. /\ v.asof = IF o # NoOffer THEN s.day - o.behind ELSE Missing
      /\ {v.delta, v.others} \subseteq {Missing, v.asof}
  <2>1. close \in {Missing, Underlying[s.day]}
    OBVIOUS
  <2>2. Sound(v, s, close, o, bounds)
    BY <2>1, ValuesSound, ZenonT(60)
  <2> HIDE DEF v
  <2> QED BY <2>2 DEF Sound
<1>2. Shape(r)
  BY DEF RowOK
<1>3. /\ n.day = r.day /\ n.asof = Coalesce(r.asof, v.asof)
      /\ n.delta = Coalesce(r.delta, v.delta) /\ n.others = Coalesce(r.others, v.others)
  BY <1>2, FilledFields, ZenonT(40)
<1>4. r.day \in Nat /\ r.day # Missing
  BY DEF RowOK, Missing
<1>5. o # NoOffer => o \in Offers /\ o.behind \in {0, 1}
  BY DEF SnapshotAssumption
<1> HIDE DEF v, n
<1>6. ASSUME r.asof = Missing
      PROVE  GreeksOK(n)
  <2>1. r.delta = Missing /\ r.others = Missing
    BY <1>6 DEF GreeksOK
  <2>2. n.asof = v.asof /\ n.delta = v.delta /\ n.others = v.others
    BY <1>3, <1>6, <2>1 DEF Coalesce
  <2>3. v.asof = r.day => o # NoOffer /\ o.behind = 0
    BY <1>1, <1>4, <1>5
  <2> QED BY <1>1, <1>3, <1>5, <2>2, <2>3 DEF GreeksOK
<1>7. ASSUME r.asof # Missing
      PROVE  GreeksOK(n)
  <2>1. n.asof = r.asof
    BY <1>3, <1>7 DEF Coalesce
  <2>2. SUFFICES ASSUME r.asof = r.day
                 PROVE  {n.delta, n.others} \subseteq {Missing, r.day}
    BY <1>3, <1>7, <2>1 DEF GreeksOK
  <2>3. {r.delta, r.others} \subseteq {Missing, r.day} /\ offer[r.day] \in Offers /\ offer[r.day].behind = 0
    BY <2>2 DEF GreeksOK
  <2>4. v.asof \in {Missing, r.day}
    BY <1>1, <1>4, <2>3
  <2> QED BY <1>1, <1>3, <2>3, <2>4 DEF Coalesce
<1> QED BY <1>6, <1>7 DEF v, n

\* What a row is after the UPDATEs of enrich.
LEMMA EnrichedRows ==
    ASSUME SnapshotInv, NEW j \in Jobs, EnrichWrite(j)
    PROVE  /\ \A n \in rows' : n \in rows \/ \E r \in rows, s \in job[j].todo :
                  SameKey(r, s) /\ n = Filled(r, Values(s, job[j].close, job[j].offer, job[j].bounds))
           /\ \A r \in rows : r \in rows' \/ \E s \in job[j].todo :
                  SameKey(r, s) /\ Filled(r, Values(s, job[j].close, job[j].offer, job[j].bounds)) \in rows'
<1> DEFINE w == job[j]
           old(r) == CHOOSE s \in w.todo : SameKey(r, s)
           v(r) == Values(old(r), w.close, w.offer, w.bounds)
           touched == {r \in rows : (\E s \in w.todo : SameKey(r, s)) /\ ~Empty(v(r))}
<1>1. rows' = (rows \ touched) \cup {Filled(r, v(r)) : r \in touched}
  BY DEF EnrichWrite
<1>2. ASSUME NEW r \in touched
      PROVE  old(r) \in w.todo /\ SameKey(r, old(r))
  BY DEF touched
<1>3. touched \subseteq rows
  OBVIOUS
<1> HIDE DEF touched, old
<1> QED BY <1>1, <1>2, <1>3

LEMMA EnrichWriteKeeps ==
    ASSUME SnapshotAssumption, SnapshotInv, NEW j \in Jobs, EnrichWrite(j)
    PROVE  SnapshotInv'
<1> DEFINE w == job[j]
           filled(r, s) == Filled(r, Values(s, w.close, w.offer, w.bounds))
<1>1. /\ w.at = "update" /\ Become(j, IdleJob)
      /\ UNCHANGED <<broker, share, offer, nav, clock, overlapped, ragged, cast>>
      /\ blind' = IF w.close = Missing \/ ~w.bounds THEN blind \cup {w.day} ELSE blind
  BY DEF EnrichWrite
<1>2. /\ DOMAIN job' = Jobs /\ job'[j] = IdleJob
      /\ \A k \in Jobs \ {j} : job'[k] = job[k]
  BY <1>1, Becomes DEF SnapshotInv
<1>3. /\ w.day \in 1 .. Days /\ w.close \in {Missing, Underlying[w.day]} /\ w.bounds \in BOOLEAN
      /\ w.offer \in Offers \cup {NoOffer}
      /\ \A s \in w.todo : RowOK(s) /\ s.day = w.day
      /\ \A r \in rows : RowOK(r)
  BY <1>1 DEF SnapshotInv, JobOK
<1>4. \A n \in rows' : n \in rows \/ \E r \in rows, s \in w.todo : SameKey(r, s) /\ n = filled(r, s)
  BY EnrichedRows
<1>5. \A r \in rows, s \in w.todo : SameKey(r, s) => s.day = r.day /\ r.day = w.day
  BY <1>3 DEF SameKey
<1>6. Domains' /\ BrokerOK' /\ NavOK'
  BY <1>1, <1>2 DEF SnapshotInv, Domains, BrokerOK, NavOK, AtClose
<1>7. ASSUME NEW k \in Jobs, NEW x, x = job'[k]
      PROVE  JobOK(job[k])'
  <2>1. JobOK(x)
    BY <1>2, <1>7 DEF SnapshotInv, JobOK, IdleJob
  <2> QED BY <1>1, <1>7, <2>1 DEF JobOK, AtClose
<1>8. ASSUME NEW n \in rows'
      PROVE  /\ RowOK(n)
             /\ n.mark # Missing => n.day \in blind' \/ n.under # Missing
             /\ n.day \notin blind' => ~Stale(n)
  <2>1. CASE n \in rows
    <3>1. /\ n.mark # Missing => n.day \in blind \/ n.under # Missing
          /\ n.day \notin blind => ~Stale(n)
      BY <2>1 DEF SnapshotInv, MarksOK
    <3> QED BY <1>1, <1>3, <2>1, <3>1
  <2>2. CASE \E r \in rows, s \in w.todo : SameKey(r, s) /\ n = filled(r, s)
    <3>1. PICK r \in rows, s \in w.todo : SameKey(r, s) /\ n = filled(r, s)
      BY <2>2
    <3>2. RowOK(r) /\ RowOK(s) /\ s.day = r.day /\ r.day = w.day
      BY <1>3, <1>5, <3>1
    <3>3. w.close \in {Missing, Underlying[r.day]}
      BY <1>3, <3>2
    <3> DEFINE c == w.close
               o == w.offer
               b == w.bounds
    <3>4. n = Filled(r, Values(s, c, o, b)) /\ c \in {Missing, Underlying[r.day]}
          /\ o \in Offers \cup {NoOffer} /\ b \in BOOLEAN
      BY <1>3, <3>1, <3>3
    <3>5. /\ r.mark # Missing => r.day \in blind \/ r.under # Missing
          /\ r.day \notin blind => ~Stale(r)
      BY DEF SnapshotInv, MarksOK
    <3>6. r.day \notin blind' => r.day \notin blind /\ c # Missing /\ b
      BY <1>1, <3>2
    <3> HIDE DEF c, o, b, w, filled
    <3>7. Kept(n, r, c, b)
      <4>1. \A x \in {Missing, Underlying[r.day]}, y \in Offers \cup {NoOffer}, z \in BOOLEAN :
                Kept(Filled(r, Values(s, x, y, z)), r, x, z)
        BY <3>2, FilledRow
      <4> QED BY <3>4, <4>1
    <3> QED BY <3>5, <3>6, <3>7 DEF Kept
  <2> QED BY <1>4, <2>1, <2>2
<1>9. MarksOK'
  BY <1>8 DEF MarksOK
<1>10. Solo'
  <2>1. SUFFICES ASSUME ~overlapped' PROVE Solo'
    BY DEF Solo
  <2>2. /\ \A k, l \in Jobs : job[k].at # "idle" /\ job[l].at # "idle" => k = l
        /\ \A k \in Jobs : job[k].at = "update" /\ job[k].offer # NoOffer => offer[job[k].day] = job[k].offer
        /\ \A r \in rows : GreeksOK(r)
    BY <1>1, <2>1 DEF SnapshotInv, Solo
  <2>3. \A k \in Jobs : job'[k].at = "idle"
    <3>1. IdleJob.at = "idle"
      BY DEF IdleJob
    <3> QED BY <1>1, <1>2, <2>2, <3>1
  <2>4. ASSUME NEW n \in rows'
        PROVE  GreeksOK(n)
    <3>1. CASE \E r \in rows, s \in w.todo : SameKey(r, s) /\ n = filled(r, s)
      <4>1. PICK r \in rows, s \in w.todo : SameKey(r, s) /\ n = filled(r, s)
        BY <3>1
      <4>2. RowOK(r) /\ RowOK(s) /\ s.day = r.day /\ r.day = w.day /\ GreeksOK(r)
        BY <1>3, <1>5, <2>2, <4>1
      <4> DEFINE c == w.close
                 o == w.offer
                 b == w.bounds
      <4>3. /\ n = Filled(r, Values(s, c, o, b)) /\ c \in {Missing, Underlying[r.day]}
            /\ o \in Offers \cup {NoOffer} /\ b \in BOOLEAN
            /\ o # NoOffer => offer[r.day] = o
        BY <1>1, <1>3, <2>2, <4>1, <4>2
      <4> HIDE DEF c, o, b, w, filled
      <4> QED BY <4>2, <4>3, FilledGreeks
    <3> QED BY <1>4, <2>2, <3>1
  <2>5. \A n \in rows' : GreeksOK(n)'
    BY <1>1, <2>4 DEF GreeksOK
  <2> QED BY <2>3, <2>5 DEF Solo
<1> QED BY <1>1, <1>6, <1>7, <1>8, <1>9, <1>10 DEF SnapshotInv

LEMMA SnapshotStep ==
    ASSUME SnapshotAssumption, SnapshotInv, [Next]_snapshotVars
    PROVE  SnapshotInv'
<1>1. CASE UNCHANGED snapshotVars
  BY <1>1, WorldKeeps
<1>2. ASSUME NEW a \in Accounts, NEW h \in Holdings, NEW summary \in BOOLEAN, NEW positions \in BOOLEAN,
             Sync(a, h, summary, positions)
      PROVE  SnapshotInv'
  BY <1>2, SyncKeeps
<1>3. ASSUME NEW a \in Accounts, NEW t \in Trades, NEW q \in Shares, Attribute(a, t, q)
      PROVE  SnapshotInv'
  BY <1>3, WorldKeeps
<1>4. CASE Tick
  BY <1>4, WorldKeeps
<1>5. ASSUME NEW j \in Jobs, NEW step \in {"capture", "enrich", "all"}, NEW d \in 1 .. Days,
             NEW calendar \in BOOLEAN, Start(j, step, d, calendar)
      PROVE  SnapshotInv'
  BY <1>5, StartKeeps
<1>6. ASSUME NEW j \in Jobs, NEW calendar \in BOOLEAN, NEW attribution \in BOOLEAN,
             CaptureRead(j, calendar, attribution)
      PROVE  SnapshotInv'
  BY <1>6, CaptureReadKeeps
<1>7. ASSUME NEW j \in Jobs, CaptureWrite(j)
      PROVE  SnapshotInv'
  BY <1>7, CaptureWriteKeeps
<1>8. ASSUME NEW j \in Jobs, EnrichRead(j)
      PROVE  SnapshotInv'
  BY <1>8, EnrichReadKeeps
<1>9. ASSUME NEW j \in Jobs, NEW bounds \in BOOLEAN, NEW closes \in BOOLEAN,
             NEW o \in Offers \cup {NoOffer}, EnrichFetch(j, bounds, closes, o)
      PROVE  SnapshotInv'
  BY <1>9, EnrichFetchKeeps
<1>10. ASSUME NEW j \in Jobs, EnrichWrite(j)
       PROVE  SnapshotInv'
  BY <1>10, EnrichWriteKeeps
<1>11. ASSUME NEW j \in Jobs, Crash(j)
       PROVE  SnapshotInv'
  BY <1>11, CrashKeeps
<1> QED
  BY <1>1, <1>2, <1>3, <1>4, <1>5, <1>6, <1>7, <1>8, <1>9, <1>10, <1>11 DEF Next

-----------------------------------------------------------------------------
(* Sums over finite sets. The folds of the community modules choose an     *)
(* element and go on with the rest; that any element could be taken first  *)
(* is shown by taking a smallest set for which it is not so.               *)

\* A set of naturals has a least element.
LEMMA LeastOf ==
    ASSUME NEW N, N \subseteq Nat, N # {}
    PROVE  \E n \in N : \A m \in N : n <= m
<1>1. PICK n \in N : \A m \in N : ~(<<m, n>> \in OpToRel(<, Nat))
  BY NatLessThanWellFounded, WFMin, Zenon
<1>2. \A m \in N : ~(m < n)
  BY <1>1, Zenon DEF OpToRel
<1>3. \A m \in N : m \in Nat
  OBVIOUS
<1> QED BY <1>2, <1>3

\* What is true of a set when it is true of that set less any of its elements is true of
\* every finite set.
LEMMA OneByOne ==
    ASSUME NEW S, IsFiniteSet(S), NEW Bad, Bad \subseteq SUBSET S,
           \A s \in SUBSET S : (\A x \in s : s \ {x} \notin Bad) => s \notin Bad
    PROVE  Bad = {}
<1> DEFINE N == {Cardinality(s) : s \in Bad}
<1>1. ASSUME NEW s \in SUBSET S
      PROVE  IsFiniteSet(s) /\ Cardinality(s) \in Nat
  BY FS_Subset, FS_CardinalityType
<1>2. SUFFICES ASSUME Bad # {} PROVE FALSE
  OBVIOUS
<1>3. N \subseteq Nat /\ N # {}
  BY <1>1, <1>2
<1>4. PICK n \in N : \A m \in N : n <= m
  BY <1>3, LeastOf
<1>5. PICK s \in Bad : Cardinality(s) = n
  BY <1>4
<1>6. s \in SUBSET S
  BY <1>5
<1>7. PICK x \in s : s \ {x} \in Bad
  BY <1>5, <1>6
<1>8. Cardinality(s \ {x}) = Cardinality(s) - 1
  BY <1>1, <1>6, <1>7, FS_RemoveElement
<1>9. n \in Nat /\ Cardinality(s \ {x}) \in N
  BY <1>3, <1>4, <1>7
<1>10. n <= Cardinality(s \ {x})
  BY <1>4, <1>9, Zenon
<1> HIDE DEF N
<1>11. n <= n - 1
  BY <1>5, <1>8, <1>10, Zenon
<1> QED BY <1>9, <1>11

\* T adds up the values F over each subset of S, taking the elements as the folds do.
OneOf(s) == CHOOSE x \in s : TRUE
Table(T, F, S) ==
    T = [s \in SUBSET S |-> IF s = {} THEN 0 ELSE F[OneOf(s)] + T[s \ {OneOf(s)}]]
Numbers(F, S) == \A x \in S : F[x] \in Int

\* The element chosen is one of the set.
LEMMA OneOfIsIn == \A s : s # {} => OneOf(s) \in s
BY DEF OneOf

TableLaw(T, F, S) ==
    /\ T[{}] = 0
    /\ \A s \in SUBSET S : s # {} => T[s] = F[OneOf(s)] + T[s \ {OneOf(s)}]

\* What a table says of each subset.
LEMMA TableRows ==
    ASSUME NEW S, NEW T, NEW F, Table(T, F, S)
    PROVE  TableLaw(T, F, S)
<1>1. {} \in SUBSET S
  OBVIOUS
<1> QED BY <1>1, Zenon DEF Table, TableLaw

\* The sum over a set is that over the set less any element, and this element's value.
AddsUp(T, F, S) ==
    \A s \in SUBSET S : T[s] \in Int /\ \A x \in s : T[s] = F[x] + T[s \ {x}]

\* The sums of numbers are numbers.
LEMMA TableInts ==
    ASSUME NEW S, IsFiniteSet(S), NEW F, Numbers(F, S), NEW T, Table(T, F, S)
    PROVE  \A s \in SUBSET S : T[s] \in Int
<1> DEFINE Bad == {s \in SUBSET S : T[s] \notin Int}
<1>1. TableLaw(T, F, S)
  BY TableRows, Zenon
<1>2. ASSUME NEW s \in SUBSET S, \A x \in s : s \ {x} \notin Bad
      PROVE  s \notin Bad
  <2>1. CASE s = {}
    BY <1>1, <2>1 DEF TableLaw
  <2>2. CASE s # {}
    <3>1. PICK p \in s : T[s] = F[p] + T[s \ {p}]
      <4>1. T[s] = F[OneOf(s)] + T[s \ {OneOf(s)}]
        BY <1>1, <2>2, Zenon DEF TableLaw
      <4> QED BY <2>2, <4>1, OneOfIsIn
    <3>2. T[s \ {p}] \in Int /\ F[p] \in Int
      BY <1>2 DEF Numbers
    <3> QED BY <3>1, <3>2
  <2> QED BY <2>1, <2>2
<1>3. Bad = {}
  <2>1. Bad \subseteq SUBSET S
    OBVIOUS
  <2> HIDE DEF Bad
  <2> QED BY <1>2, <2>1, OneByOne
<1> QED BY <1>3

\* Whatever element is taken out, its value is what the sum loses.
LEMMA TableStep ==
    ASSUME NEW S, IsFiniteSet(S), NEW F, Numbers(F, S), NEW T, Table(T, F, S)
    PROVE  AddsUp(T, F, S)
<1> DEFINE Bad == {s \in SUBSET S : ~(T[s] \in Int /\ \A x \in s : T[s] = F[x] + T[s \ {x}])}
<1>1. /\ T[{}] = 0
      /\ \A s \in SUBSET S : s # {} => T[s] = F[OneOf(s)] + T[s \ {OneOf(s)}]
  <2>1. TableLaw(T, F, S)
    BY TableRows, Zenon
  <2> QED BY <2>1, Zenon DEF TableLaw
<1>2. ASSUME NEW s \in SUBSET S, \A x \in s : s \ {x} \notin Bad
      PROVE  s \notin Bad
  <2>1. CASE s = {}
    BY <1>1, <2>1
  <2>2. CASE s # {}
    <3>1. PICK p \in s : T[s] = F[p] + T[s \ {p}]
      BY <1>1, <2>2, OneOfIsIn
    <3>2. \A x \in s : /\ s \ {x} \in SUBSET S /\ T[s \ {x}] \in Int /\ F[x] \in Int
                       /\ \A y \in s \ {x} : T[s \ {x}] = F[y] + T[(s \ {x}) \ {y}]
      BY <1>2 DEF Numbers
    <3>3. T[s] \in Int
      <4>1. T[s \ {p}] \in Int /\ F[p] \in Int
        BY <3>2
      <4> QED BY <3>1, <4>1
    <3>4. ASSUME NEW x \in s PROVE T[s] = F[x] + T[s \ {x}]
      <4>1. CASE x = p
        BY <3>1, <4>1
      <4>2. CASE x # p
        <5>1. (s \ {x}) \ {p} = (s \ {p}) \ {x}
          OBVIOUS
        <5>2. x \in s \ {p} /\ p \in s \ {x}
          BY <4>2
        <5>3. T[s \ {p}] = F[x] + T[(s \ {p}) \ {x}] /\ T[s \ {x}] = F[p] + T[(s \ {p}) \ {x}]
          BY <3>2, <5>1, <5>2
        <5>4. T[s \ {x}] \in Int /\ T[s \ {p}] \in Int /\ F[x] \in Int /\ F[p] \in Int
          BY <3>2
        <5> DEFINE c == T[(s \ {p}) \ {x}]
        <5>5. c \in Int /\ T[s \ {p}] = F[x] + c /\ T[s \ {x}] = F[p] + c
          <6>1. (s \ {p}) \ {x} \in SUBSET S
            OBVIOUS
          <6> QED BY <5>3, <6>1, TableInts
        <5> HIDE DEF c
        <5> QED BY <3>1, <5>4, <5>5
      <4> QED BY <4>1, <4>2
    <3> QED BY <3>3, <3>4
  <2> QED BY <2>1, <2>2
<1>3. Bad = {}
  <2>1. Bad \subseteq SUBSET S
    OBVIOUS
  <2> HIDE DEF Bad
  <2> QED BY <1>2, <2>1, OneByOne
<1> QED BY <1>3 DEF AddsUp

\* One step of a table from another: the sums over sets with an element more.
More(T, F, D) ==
    [s \in D |-> IF s = {} THEN 0 ELSE F[OneOf(s)] + T[s \ {OneOf(s)}]]

\* Every finite set has a table.
LEMMA TableExists ==
    ASSUME NEW S, IsFiniteSet(S), NEW F
    PROVE  \E T : Table(T, F, S)
<1> DEFINE D(n) == {s \in SUBSET S : Cardinality(s) <= n}
           Bad == {n \in Nat : ~\E T : T = More(T, F, D(n))}
<1>1. ASSUME NEW s \in SUBSET S
      PROVE  IsFiniteSet(s) /\ Cardinality(s) \in Nat /\ Cardinality(s) <= Cardinality(S)
  BY FS_Subset, FS_CardinalityType
<1>2. 0 \notin Bad
  <2> DEFINE T == [s \in D(0) |-> 0]
  <2>1. \A s \in D(0) : s = {}
    <3> TAKE s \in D(0)
    <3>1. Cardinality(s) = 0 /\ IsFiniteSet(s)
      BY <1>1
    <3> QED BY <3>1, FS_EmptySet
  <2>2. T = More(T, F, D(0))
    BY <2>1 DEF More
  <2> QED BY <2>2
<1>3. ASSUME NEW n \in Nat, n \notin Bad
      PROVE  n + 1 \notin Bad
  <2>1. PICK T : T = More(T, F, D(n))
    BY <1>3
  <2> DEFINE U == More(T, F, D(n + 1))
  <2>2. D(n) \subseteq D(n + 1)
    <3>1. \A s \in SUBSET S : Cardinality(s) \in Nat
      BY <1>1
    <3> QED BY <3>1
  <2>3. \A s \in D(n) : U[s] = T[s]
    <3> TAKE s \in D(n)
    <3>1. T[s] = More(T, F, D(n))[s]
      BY <2>1, Zenon
    <3> QED BY <2>2, <3>1 DEF More
  <2>4. \A s \in D(n + 1) : s # {} => s \ {OneOf(s)} \in D(n)
    <3> TAKE s \in D(n + 1)
    <3> HAVE s # {}
    <3>1. OneOf(s) \in s
      BY OneOfIsIn
    <3>2. Cardinality(s \ {OneOf(s)}) = Cardinality(s) - 1 /\ Cardinality(s) \in Nat
      BY <1>1, <3>1, FS_RemoveElement
    <3> QED BY <3>2
  <2> HIDE DEF D
  <2>5. \A s \in D(n + 1) : s # {} => U[s \ {OneOf(s)}] = T[s \ {OneOf(s)}]
    BY <2>3, <2>4
  <2>6. U = More(U, F, D(n + 1))
    BY <2>5 DEF More
  <2> QED BY <2>6
<1>4. Bad = {}
  <2>1. Bad \subseteq Nat
    OBVIOUS
  <2> HIDE DEF Bad
  <2>2. SUFFICES ASSUME Bad # {} PROVE FALSE
    OBVIOUS
  <2>3. PICK n \in Bad : \A m \in Bad : n <= m
    BY <2>1, <2>2, LeastOf
  <2>4. n \in Nat /\ n # 0
    BY <1>2, <2>1
  <2>5. n - 1 \in Nat /\ n - 1 \notin Bad /\ n = (n - 1) + 1
    BY <2>3, <2>4
  <2> QED BY <1>3, <2>5
<1>5. Cardinality(S) \in Nat /\ D(Cardinality(S)) = SUBSET S
  BY <1>1
<1>6. PICK T : T = More(T, F, D(Cardinality(S)))
  BY <1>4, <1>5
<1> HIDE DEF D
<1>7. T = More(T, F, SUBSET S)
  BY <1>5, <1>6, Zenon
<1> QED BY <1>7, Zenon DEF More, Table

Image(b, R) == {b[r] : r \in R}

\* A one-to-one map carries the values of one set into another.
Carries(b, G, R, F, S) ==
    /\ \A r \in R : b[r] \in S /\ G[r] = F[b[r]]
    /\ \A r, q \in R : b[r] = b[q] => r = q

\* The sums of two sets agree when the map takes one to the other.
LEMMA SumAlong ==
    ASSUME NEW R, IsFiniteSet(R), NEW S, IsFiniteSet(S), NEW b, NEW F, NEW G,
           Carries(b, G, R, F, S), Numbers(F, S),
           NEW T, Table(T, G, R), NEW U, Table(U, F, S)
    PROVE  T[R] = U[Image(b, R)]
<1> USE DEF Carries, Image
<1> DEFINE Bad == {s \in SUBSET R : T[s] # U[{b[r] : r \in s}]}
<1>1. Numbers(G, R)
  BY DEF Numbers
<1>2. /\ \A s \in SUBSET R : T[s] \in Int /\ \A x \in s : T[s] = G[x] + T[s \ {x}]
      /\ \A s \in SUBSET S : U[s] \in Int /\ \A x \in s : U[s] = F[x] + U[s \ {x}]
  <2>1. AddsUp(T, G, R) /\ AddsUp(U, F, S)
    BY <1>1, TableStep, Zenon
  <2> QED BY <2>1, Zenon DEF AddsUp
<1>3. T[{}] = 0 /\ U[{}] = 0
  <2>1. TableLaw(T, G, R) /\ TableLaw(U, F, S)
    BY TableRows, Zenon
  <2> QED BY <2>1, Zenon DEF TableLaw
<1>4. ASSUME NEW s \in SUBSET R, \A x \in s : s \ {x} \notin Bad
      PROVE  s \notin Bad
  <2>1. CASE s = {}
    <3>1. {b[r] : r \in s} = {}
      BY <2>1
    <3> QED BY <1>3, <2>1, <3>1
  <2>2. CASE s # {}
    <3>1. PICK x \in s : TRUE
      BY <2>2
    <3> DEFINE B == {b[r] : r \in s}
    <3>2. B \in SUBSET S /\ b[x] \in B
      OBVIOUS
    <3>3. B \ {b[x]} = {b[r] : r \in s \ {x}}
      OBVIOUS
    <3>4. T[s \ {x}] = U[B \ {b[x]}]
      <4>1. s \ {x} \in SUBSET R /\ s \ {x} \notin Bad
        BY <1>4
      <4> QED BY <3>3, <4>1
    <3>5. T[s] = G[x] + T[s \ {x}] /\ U[B] = F[b[x]] + U[B \ {b[x]}] /\ G[x] = F[b[x]]
      BY <1>2, <3>2
    <3> QED BY <3>4, <3>5
  <2> QED BY <2>1, <2>2
<1>5. Bad = {}
  <2>1. Bad \subseteq SUBSET R
    OBVIOUS
  <2> HIDE DEF Bad
  <2> QED BY <1>4, <2>1, OneByOne
<1> QED BY <1>5


\* The sums of the model: of the quantities of rows, and of the net fills of trades.
Quantities(R) == MapThenSumSet(LAMBDA r : r.qty, R)
Fills(f, S) == MapThenSumSet(LAMBDA t : f[t], S)

\* Each is the last row of a table.
LEMMA SumOfQuantities ==
    ASSUME NEW R, IsFiniteSet(R)
    PROVE  \E T : Table(T, [r \in R |-> r.qty], R) /\ T[R] = Quantities(R)
<1> DEFINE F == [r \in R |-> r.qty]
           Sums(T) == [s \in SUBSET R |-> IF s = {} THEN 0
                           ELSE (CHOOSE x \in s : TRUE).qty + T[s \ {CHOOSE x \in s : TRUE}]]
           C == CHOOSE T : T = Sums(T)
<1>1. Quantities(R) = C[R]
  BY DEF Quantities, MapThenSumSet, MapThenFoldSet
<1>2. PICK T : Table(T, F, R)
  BY TableExists, Zenon
<1>3. ASSUME NEW U PROVE Table(U, F, R) <=> U = Sums(U)
  <2>1. \A s \in SUBSET R : s # {} => F[OneOf(s)] = (CHOOSE x \in s : TRUE).qty
    BY OneOfIsIn DEF OneOf
  <2> HIDE DEF F
  <2> QED BY <2>1 DEF Table, OneOf
<1>4. C = Sums(C)
  <2>1. T = Sums(T)
    BY <1>2, <1>3
  <2> HIDE DEF Sums
  <2> QED BY <2>1, Zenon
<1>5. Table(C, F, R)
  BY <1>3, <1>4
<1> QED BY <1>1, <1>5

LEMMA SumOfFills ==
    ASSUME NEW f, NEW S, IsFiniteSet(S)
    PROVE  \E T : Table(T, f, S) /\ T[S] = Fills(f, S)
<1> DEFINE Sums(T) == [s \in SUBSET S |-> IF s = {} THEN 0
                           ELSE f[CHOOSE x \in s : TRUE] + T[s \ {CHOOSE x \in s : TRUE}]]
           C == CHOOSE T : T = Sums(T)
<1>1. Fills(f, S) = C[S]
  BY DEF Fills, MapThenSumSet, MapThenFoldSet
<1>2. PICK T : Table(T, f, S)
  BY TableExists, Zenon
<1>3. \A U : Table(U, f, S) <=> U = Sums(U)
  BY DEF Table, OneOf
<1>4. C = Sums(C)
  <2>1. T = Sums(T)
    BY <1>2, <1>3
  <2> HIDE DEF Sums
  <2> QED BY <2>1, Zenon
<1>5. Table(C, f, S)
  BY <1>3, <1>4
<1> QED BY <1>1, <1>5

-----------------------------------------------------------------------------
(* Books.                                                                  *)

\* A split has at most a row for each trade and one of no trade.
LEMMA WholeIsFinite ==
    ASSUME SnapshotAssumption, NEW R, NEW h, Whole(R, h)
    PROVE  IsFiniteSet(R)
<1> DEFINE A == Trades \cup {NoTrade}
           b == [r \in R |-> r.trade]
<1>1. IsFiniteSet(A)
  BY FS_AddElement DEF SnapshotAssumption
<1>2. b \in [R -> A] /\ \A r, s \in R : b[r] = b[s] => r = s
  BY DEF Whole, Parts, Named
<1> HIDE DEF A, b
<1>3. b \in Injection(R, A)
  BY <1>2 DEF Injection, IsInjective
<1> QED BY <1>1, <1>3, FS_Injection

\* The parts of a position add up to it: the trades' net fills, each counted once, and the
\* rest, which is what they leave of it.
LEMMA WholeAdds ==
    ASSUME SnapshotAssumption, NEW R, NEW h \in Nat, Whole(R, h)
    PROVE  Quantities(R) = h /\ \A r \in R : r.qty \in Int
<1>1. PICK f \in [Trades -> Shares] :
          /\ \A r \in R : r.trade \in Parts(h, f) /\ r.qty = PartOf(h, f, r.trade)
          /\ \A t \in Parts(h, f) : \E r \in R : r.trade = t
          /\ \A r, s \in R : r.trade = s.trade => r = s
  BY DEF Whole
<1> DEFINE N == Named(f)
           K == Parts(h, f)
           rest == Remainder(h, f)
           F == [t \in K |-> PartOf(h, f, t)]
           G == [r \in R |-> r.qty]
           b == [r \in R |-> r.trade]
           id == [t \in N |-> t]
<1>2. /\ N \subseteq K /\ K \subseteq N \cup {NoTrade} /\ NoTrade \notin N
      /\ N \subseteq Trades /\ (NoTrade \notin K => rest = 0)
  BY DEF Parts, Named, SnapshotAssumption
<1>3. rest = h - Fills(f, N)
  BY DEF Remainder, Fills
<1> HIDE DEF N, K, rest
<1>4. \A t \in N : f[t] \in Int
  <2>1. Shares \subseteq Int
    BY DEF SnapshotAssumption
  <2> QED BY <1>1, <1>2, <2>1
<1>5. /\ \A t \in N : F[t] = f[t]
      /\ NoTrade \in K => F[NoTrade] = rest
  BY <1>2 DEF PartOf, rest
<1>6. Carries(b, G, R, F, K) /\ Image(b, R) = K
  BY <1>1 DEF Carries, Image, K
<1>7. Carries(id, f, N, F, K) /\ Image(id, N) = N
  BY <1>2, <1>5, SMTT(30) DEF Carries, Image
<1>8. IsFiniteSet(R) /\ IsFiniteSet(N) /\ IsFiniteSet(K)
  <2>1. IsFiniteSet(N)
    BY <1>2, FS_Subset DEF SnapshotAssumption
  <2> QED BY <1>2, <2>1, WholeIsFinite, FS_AddElement, FS_Subset
<1> HIDE DEF F
<1>9. PICK T : Table(T, G, R) /\ T[R] = Quantities(R)
  BY <1>8, SumOfQuantities
<1> HIDE DEF G, b, id
<1>10. PICK V : Table(V, f, N) /\ V[N] = Fills(f, N)
  BY <1>8, SumOfFills
<1>11. V[N] \in Int /\ rest = h - V[N]
  <2>1. Numbers(f, N)
    BY <1>4 DEF Numbers
  <2>2. \A s \in SUBSET N : V[s] \in Int
    BY <1>8, <1>10, <2>1, TableInts
  <2> QED BY <1>3, <1>10, <2>2
<1>12. Numbers(F, K)
  <2>1. rest \in Int
    BY <1>11
  <2> QED BY <1>2, <1>4, <1>5, <2>1 DEF Numbers
<1>13. PICK U : Table(U, F, K)
  BY <1>8, TableExists
<1>14. \A r \in R : r.qty \in Int
  <2>1. \A r \in R : G[r] = r.qty /\ G[r] = F[b[r]] /\ b[r] \in K
    BY <1>6 DEF Carries, G
  <2> QED BY <1>12, <2>1 DEF Numbers
<1>15. T[R] = U[K]
  <2>1. T[R] = U[Image(b, R)]
    BY <1>6, <1>8, <1>9, <1>12, <1>13, SumAlong
  <2> QED BY <1>6, <2>1
<1>16. V[N] = U[N]
  <2>1. V[N] = U[Image(id, N)]
    BY <1>7, <1>8, <1>10, <1>12, <1>13, SumAlong
  <2> QED BY <1>7, <2>1
<1>17. CASE NoTrade \in K
  <2>1. K \ {NoTrade} = N
    BY <1>2, <1>17
  <2>2. U[K] = F[NoTrade] + U[K \ {NoTrade}]
    <3>1. AddsUp(U, F, K)
      BY <1>8, <1>12, <1>13, TableStep
    <3> QED BY <1>17, <3>1 DEF AddsUp
  <2>3. U[K] = rest + V[N]
    BY <1>5, <1>16, <1>17, <2>1, <2>2
  <2>4. rest + V[N] = h
    BY <1>11
  <2> QED BY <1>9, <1>14, <1>15, <2>3, <2>4
<1>18. CASE NoTrade \notin K
  <2>1. K = N
    BY <1>2, <1>18
  <2>2. V[N] = h
    BY <1>2, <1>11, <1>18
  <2> QED BY <1>9, <1>14, <1>15, <1>16, <2>1, <2>2
<1> QED BY <1>17, <1>18

\* A book adds up to the position, and is of one read.
LEMMA BookAdds ==
    ASSUME SnapshotAssumption, NEW R, NEW h, BookOf(R, h)
    PROVE  /\ h \in Nat /\ Quantities(R) = h
           /\ \A r, s \in R : r.read = s.read
           /\ R # {} => Whole(R, h)
<1>1. h \in Nat
  BY DEF BookOf, SnapshotAssumption
<1>2. CASE h = 0
  <2>1. R = {}
    BY <1>2 DEF BookOf
  <2>2. Quantities({}) = 0
    <3>1. IsFiniteSet({})
      BY FS_EmptySet
    <3>2. PICK T : Table(T, [r \in {} |-> r.qty], {}) /\ T[{}] = Quantities({})
      BY <3>1, SumOfQuantities
    <3> QED BY <3>2, TableRows DEF TableLaw
  <2> QED BY <1>1, <1>2, <2>1, <2>2
<1>3. CASE h # 0
  <2>1. Whole(R, h)
    BY <1>3 DEF BookOf
  <2>2. Quantities(R) = h
    BY <1>1, <2>1, WholeAdds
  <2>3. \A r, s \in R : r.read = s.read
    BY <2>1 DEF Whole
  <2> QED BY <1>1, <2>1, <2>2, <2>3
<1> QED BY <1>2, <1>3

\* A row is told by its session, its account and its trade.
LEMMA UniqueRows ==
    ASSUME SnapshotInv, Books
    PROVE  \A r, s \in rows : SameKey(r, s) => r = s
<1> SUFFICES ASSUME NEW r \in rows, NEW s \in rows, SameKey(r, s) PROVE r = s
  OBVIOUS
<1> DEFINE R == RowsOn(r.day, r.acct)
<1>1. r.day \in 1 .. Days /\ r.acct \in Accounts
  BY DEF SnapshotInv, RowOK
<1>2. r \in R /\ s \in R
  BY DEF RowsOn, SameKey
<1>3. \E h : Whole(R, h)
  BY <1>1, <1>2 DEF Books, BookOf
<1> HIDE DEF R
<1> QED BY <1>2, <1>3 DEF Whole, SameKey

\* A job goes on with what it has read, while the tables stay.
LEMMA BookMoves ==
    ASSUME SnapshotInv, BookInv, NEW j \in Jobs, NEW v, Become(j, v), UNCHANGED <<nav, rows>>,
           overlapped => overlapped', ~overlapped => CaptureOK(v) /\ EnrichOK(v)
    PROVE  BookInv'
<1>1. DOMAIN job' = Jobs /\ job'[j] = v /\ \A k \in Jobs \ {j} : job'[k] = job[k]
  BY Becomes DEF SnapshotInv
<1>2. SUFFICES ASSUME ~overlapped, ~overlapped' PROVE BookInv'
  BY DEF BookInv
<1>3. Books'
  BY <1>2 DEF BookInv, Books, RowsOn
<1>4. ASSUME NEW k \in Jobs, NEW w, w = job'[k]
      PROVE  CaptureOK(job[k])' /\ EnrichOK(job[k])'
  <2>1. CaptureOK(w) /\ EnrichOK(w)
    BY <1>1, <1>2, <1>4 DEF BookInv
  <2> QED BY <1>4, <2>1 DEF CaptureOK, EnrichOK
<1> QED BY <1>3, <1>4 DEF BookInv

\* A job that has read no balances and no rows.
LEMMA NothingRead ==
    ASSUME NEW w, w.at \notin {"write", "fetch", "update"}
    PROVE  CaptureOK(w) /\ EnrichOK(w)
BY DEF CaptureOK, EnrichOK

LEMMA StartBooks ==
    ASSUME SnapshotInv, BookInv, NEW j \in Jobs, NEW step, NEW d \in 1 .. Days,
           NEW calendar \in BOOLEAN, Start(j, step, d, calendar)
    PROVE  BookInv'
<1> DEFINE v == IF d \in Holidays /\ calendar THEN IdleJob
                ELSE [at |-> IF step = "enrich" THEN "enrich" ELSE "capture", step |-> step, day |-> d]
<1>1. /\ Become(j, v) /\ UNCHANGED <<nav, rows>> /\ (overlapped => overlapped')
  BY DEF Start, tables
<1>2. CaptureOK(v) /\ EnrichOK(v)
  <2>1. v.at \notin {"write", "fetch", "update"}
    BY DEF IdleJob
  <2> QED BY <2>1, NothingRead
<1> HIDE DEF v
<1> QED BY <1>1, <1>2, BookMoves

LEMMA CrashBooks ==
    ASSUME SnapshotInv, BookInv, NEW j \in Jobs, Crash(j)
    PROVE  BookInv'
<1>1. Become(j, IdleJob) /\ UNCHANGED <<nav, rows, overlapped>>
  BY DEF Crash, tables, history
<1>2. CaptureOK(IdleJob) /\ EnrichOK(IdleJob)
  BY NothingRead DEF IdleJob
<1> QED BY <1>1, <1>2, BookMoves

\* The rows of a read of an account with a position are a book.
LEMMA SplitBook ==
    ASSUME SnapshotAssumption, NEW d, NEW a, NEW h, NEW f \in [Trades -> Shares], NEW read
    PROVE  /\ Whole(SplitRows(d, a, h, f, read), h)
           /\ \A r \in SplitRows(d, a, h, f, read) :
                  r.acct = a /\ r.mark = Missing /\ r.under = Missing /\ r.delta = Missing /\ r.others = Missing
<1> DEFINE row(t) ==
        [day |-> d, acct |-> a, trade |-> t, qty |-> IF t = NoTrade THEN Remainder(h, f) ELSE f[t],
         pos |-> h, read |-> read, mark |-> Missing, src |-> "none", under |-> Missing,
         asof |-> Missing, delta |-> Missing, others |-> Missing, print |-> NoOffer]
<1>1. SplitRows(d, a, h, f, read) = {row(t) : t \in Parts(h, f)}
  BY DEF SplitRows, Parts
<1>2. \A t : /\ row(t).trade = t /\ row(t).qty = PartOf(h, f, t) /\ row(t).read = read /\ row(t).acct = a
             /\ row(t).mark = Missing /\ row(t).under = Missing
             /\ row(t).delta = Missing /\ row(t).others = Missing
  BY DEF PartOf
<1> DEFINE R == SplitRows(d, a, h, f, read)
<1> HIDE DEF row
<1>3. /\ \A r \in R : r.trade \in Parts(h, f) /\ r.qty = PartOf(h, f, r.trade)
      /\ \A t \in Parts(h, f) : \E r \in R : r.trade = t
      /\ \A r, s \in R : r.read = s.read /\ (r.trade = s.trade => r = s)
  <2>1. ASSUME NEW r \in R
        PROVE  \E t \in Parts(h, f) : r = row(t)
    BY <1>1
  <2>2. ASSUME NEW t \in Parts(h, f)
        PROVE  row(t) \in R
    BY <1>1
  <2> HIDE DEF R
  <2> QED BY <1>2, <2>1, <2>2
<1>4. \A r \in R : r.acct = a /\ r.mark = Missing /\ r.under = Missing
                   /\ r.delta = Missing /\ r.others = Missing
  BY <1>1, <1>2
<1> HIDE DEF R
<1>5. Whole(R, h)
  BY <1>3 DEF Whole
<1> QED BY <1>4, <1>5 DEF R

\* What a capture reads is a book of each account it will write, from one state of the
\* broker tables; it takes only accounts without one.
LEMMA CaptureReadBooks ==
    ASSUME SnapshotAssumption, SnapshotInv, BookInv, NEW j \in Jobs, NEW calendar \in BOOLEAN,
           NEW attribution \in BOOLEAN, CaptureRead(j, calendar, attribution)
    PROVE  BookInv'
<1> DEFINE d == job[j].day
           pending == Pending(d, calendar)
           open == {a \in pending : broker[a].held # 0}
           book(a) == SplitRows(d, a, broker[a].held, share[a], runs)
           v == [at |-> "write", step |-> job[j].step, day |-> d,
                 nav |-> [a \in pending |-> [at |-> broker[a].at, cash |-> broker[a].cash,
                                             seen |-> broker[a].seen, held |-> broker[a].held]],
                 rows |-> UNION {book(a) : a \in open}]
<1>1. /\ job[j].at = "capture" /\ (Become(j, Next1(j)) \/ Become(j, v))
      /\ UNCHANGED <<nav, rows, overlapped>>
  BY DEF CaptureRead, tables, history
<1>2. CaptureOK(Next1(j)) /\ EnrichOK(Next1(j))
  BY <1>1, NextStep, NothingRead
<1>3. \A a \in pending : a \in Accounts /\ nav[d][a] = NoNav /\ broker[a].held \in Holdings
  BY DEF Pending, SnapshotInv, BrokerOK
<1>4. ASSUME NEW a \in open
      PROVE  /\ Whole(book(a), broker[a].held)
             /\ \A r \in book(a) : r.acct = a /\ r.mark = Missing /\ r.under = Missing
                                   /\ r.delta = Missing /\ r.others = Missing
  <2>1. share[a] \in [Trades -> Shares]
    BY <1>3 DEF SnapshotInv, Domains
  <2> QED BY <2>1, SplitBook
<1>5. ASSUME NEW a \in pending
      PROVE  BookOf({r \in v.rows : r.acct = a}, broker[a].held)
  <2> DEFINE R == {r \in v.rows : r.acct = a}
  <2> HIDE DEF book
  <2>1. CASE a \in open
    <3>1. R = book(a)
      BY <1>4, <2>1
    <3> QED BY <1>3, <1>4, <2>1, <3>1 DEF BookOf
  <2>2. CASE a \notin open
    <3>1. R = {}
      BY <1>4, <2>2
    <3> QED BY <1>3, <2>2, <3>1 DEF BookOf
  <2> QED BY <2>1, <2>2
<1>6. CaptureOK(v) /\ EnrichOK(v)
  <2> HIDE DEF book
  <2>1. v.at = "write" /\ v.day = d /\ DOMAIN v.nav = pending
    OBVIOUS
  <2>2. \A a \in pending : v.nav[a].held = broker[a].held
    OBVIOUS
  <2>3. \A r \in v.rows : r.acct \in pending /\ r.mark = Missing /\ r.under = Missing
                          /\ r.delta = Missing /\ r.others = Missing
    BY <1>4
  <2> HIDE DEF v
  <2> QED BY <1>3, <1>5, <2>1, <2>2, <2>3, ZenonT(30) DEF CaptureOK, EnrichOK, Alike
<1> HIDE DEF v
<1> QED BY <1>1, <1>2, <1>6, BookMoves

LEMMA EnrichReadBooks ==
    ASSUME SnapshotInv, BookInv, NEW j \in Jobs, EnrichRead(j)
    PROVE  BookInv'
<1> DEFINE d == job[j].day
           todo == {r \in rows : r.day = d /\ Incomplete(r)}
           v == IF todo = {} THEN IdleJob
                ELSE [at |-> "fetch", step |-> job[j].step, day |-> d, todo |-> todo]
<1>1. Become(j, v) /\ UNCHANGED <<nav, rows, overlapped>>
  BY DEF EnrichRead, tables, history
<1>2. CaptureOK(v) /\ EnrichOK(v)
  BY DEF CaptureOK, EnrichOK, IdleJob
<1> HIDE DEF v
<1> QED BY <1>1, <1>2, BookMoves

LEMMA EnrichFetchBooks ==
    ASSUME SnapshotInv, BookInv, NEW j \in Jobs, NEW bounds, NEW closes, NEW o,
           EnrichFetch(j, bounds, closes, o)
    PROVE  BookInv'
<1> DEFINE d == job[j].day
           v == [at |-> "update", step |-> job[j].step, day |-> d, todo |-> job[j].todo,
                 bounds |-> bounds, close |-> IF closes THEN Underlying[d] ELSE Missing,
                 offer |-> o]
<1>1. job[j].at = "fetch" /\ Become(j, v) /\ UNCHANGED <<nav, rows, overlapped>>
  BY DEF EnrichFetch, tables, history
<1>2. ~overlapped => CaptureOK(v) /\ EnrichOK(v)
  BY <1>1 DEF CaptureOK, EnrichOK, BookInv
<1> HIDE DEF v
<1> QED BY <1>1, <1>2, BookMoves

\* A capture writes whole books where there was none, and no row of another.
LEMMA CaptureWriteBooks ==
    ASSUME SnapshotAssumption, SnapshotInv, BookInv, NEW j \in Jobs, CaptureWrite(j)
    PROVE  BookInv'
<1>1. PICK w, e : w = job[j] /\ e = w.day
  OBVIOUS
<1> DEFINE new == {r \in w.rows : \A s \in rows : ~SameKey(r, s)}
<1>2. /\ w.at = "write" /\ Become(j, Next1(j)) /\ UNCHANGED overlapped
      /\ nav' = [nav EXCEPT ![e] = [a \in Accounts |->
             IF nav[e][a] = NoNav /\ a \in DOMAIN w.nav THEN w.nav[a] ELSE nav[e][a]]]
      /\ rows' = rows \cup new
  BY <1>1 DEF CaptureWrite, history
<1> HIDE DEF new
<1>3. SUFFICES ASSUME ~overlapped PROVE BookInv'
  BY <1>2 DEF BookInv
<1>4. /\ DOMAIN job' = Jobs /\ job'[j] = Next1(j) /\ Next1(j).at \in {"idle", "enrich"}
      /\ \A k \in Jobs \ {j} : job'[k].at = "idle"
  <2>1. \A k \in Jobs \ {j} : job[k].at = "idle"
    BY <1>1, <1>2, <1>3 DEF SnapshotInv, Solo
  <2> QED BY <1>1, <1>2, <2>1, Becomes, NextStep DEF SnapshotInv
<1>5. /\ e \in 1 .. Days /\ \A r \in w.rows : r.day = e
      /\ \A a \in DOMAIN w.nav : w.nav[a] # NoNav
  <2>1. /\ e \in 1 .. Days /\ \A r \in w.rows : r.day = e
        /\ \A a \in DOMAIN w.nav : AtClose(e, a, w.nav[a])
    BY <1>1, <1>2 DEF SnapshotInv, JobOK, NewRow
  <2>2. \A a : ~AtClose(e, a, NoNav)
    <3>1. NoNav.at = 0
      BY DEF NoNav
    <3>2. ~(0 >= CloseAt(e, TRUE))
      BY <2>1 DEF CloseAt
    <3> QED BY <3>1, <3>2 DEF AtClose
  <2> QED BY <2>1, <2>2
<1>6. /\ DOMAIN w.nav \subseteq Accounts
      /\ \A r \in w.rows : r.acct \in DOMAIN w.nav
      /\ \A r, s \in w.rows : Alike(r, s)
      /\ \A a \in DOMAIN w.nav :
             nav[e][a] = NoNav /\ BookOf({r \in w.rows : r.acct = a}, w.nav[a].held)
      /\ Books
  BY <1>1, <1>2, <1>3 DEF BookInv, CaptureOK
<1>7. ASSUME NEW d \in 1 .. Days, NEW a \in Accounts, ~(d = e /\ a \in DOMAIN w.nav)
      PROVE  nav'[d][a] = nav[d][a] /\ RowsOn(d, a)' = RowsOn(d, a)
  <2>1. nav'[d][a] = nav[d][a]
    BY <1>2, <1>5, <1>7 DEF SnapshotInv, Domains
  <2>2. \A r \in new : ~(r.day = d /\ r.acct = a)
    BY <1>5, <1>6, <1>7 DEF new
  <2> QED BY <1>2, <2>1, <2>2 DEF RowsOn
<1>8. ASSUME NEW a \in DOMAIN w.nav
      PROVE  nav'[e][a] = w.nav[a] /\ RowsOn(e, a)' = {r \in w.rows : r.acct = a}
  <2>1. a \in Accounts /\ nav[e][a] = NoNav
    BY <1>6
  <2>2. nav'[e][a] = w.nav[a]
    BY <1>2, <1>5, <2>1 DEF SnapshotInv, Domains
  <2>3. \A r \in rows : ~(r.day = e /\ r.acct = a)
    BY <1>5, <1>6, <2>1 DEF Books, RowsOn
  <2>4. \A r \in w.rows : r.acct = a => r \in new
    BY <1>5, <2>3 DEF new, SameKey
  <2>5. \A r \in new : r \in w.rows /\ r.day = e
    BY <1>5 DEF new
  <2> QED BY <1>2, <2>2, <2>3, <2>4, <2>5, <1>5 DEF RowsOn
<1>9. Books'
  <2>1. ASSUME NEW d \in 1 .. Days, NEW a \in Accounts, NEW R, R = RowsOn(d, a)'
        PROVE  /\ IF nav'[d][a] = NoNav THEN R = {} ELSE BookOf(R, nav'[d][a].held)
               /\ \A r, s \in R : Alike(r, s)
    <3>1. CASE ~(d = e /\ a \in DOMAIN w.nav)
      BY <1>6, <1>7, <2>1, <3>1 DEF Books
    <3>2. CASE d = e /\ a \in DOMAIN w.nav
      BY <1>5, <1>6, <1>8, <2>1, <3>2
    <3> QED BY <3>1, <3>2
  <2> QED BY <2>1 DEF Books
<1>10. ASSUME NEW k \in Jobs, NEW x, x = job'[k]
       PROVE  CaptureOK(job[k])' /\ EnrichOK(job[k])'
  <2>1. x.at \in {"idle", "enrich"}
    BY <1>4, <1>10
  <2> QED BY <1>10, <2>1 DEF CaptureOK, EnrichOK
<1> QED BY <1>9, <1>10 DEF BookInv

\* What an enrich fills a row with depends on the row by its session and its close alone.
LEMMA ValuesAlike ==
    ASSUME NEW r, NEW s, r.day = s.day, r.under = s.under, NEW close, NEW o, NEW bounds
    PROVE  Values(r, close, o, bounds) = Values(s, close, o, bounds)
BY DEF Values

\* A row keeps what it is of and how many of the position are its.
Keeps(n, r) ==
    /\ n.day = r.day /\ n.acct = r.acct /\ n.trade = r.trade
    /\ n.qty = r.qty /\ n.read = r.read

\* Rows alike are filled alike.
LEMMA FilledAlike ==
    ASSUME NEW r, Shape(r), NEW s, Shape(s), Alike(r, s), NEW v
    PROVE  Alike(Filled(r, v), Filled(s, v)) /\ Keeps(Filled(r, v), r)
<1> DEFINE m == Filled(r, v)
           n == Filled(s, v)
<1>1. /\ Keeps(m, r)
      /\ m.under = Coalesce(r.under, v.under) /\ m.delta = Coalesce(r.delta, v.delta)
      /\ m.others = Coalesce(r.others, v.others) /\ m.mark = Coalesce(r.mark, v.eod.mark)
  BY FilledFields DEF Keeps
<1>2. /\ n.under = Coalesce(s.under, v.under) /\ n.delta = Coalesce(s.delta, v.delta)
      /\ n.others = Coalesce(s.others, v.others) /\ n.mark = Coalesce(s.mark, v.eod.mark)
  BY FilledFields
<1> HIDE DEF m, n
<1>3. Alike(m, n) /\ Keeps(m, r)
  BY <1>1, <1>2 DEF Alike
<1> QED BY <1>3 DEF m, n

\* The UPDATEs of enrich map each row to one, and rows alike of a session to rows alike.
LEMMA EnrichImage ==
    ASSUME SnapshotInv, Books, NEW j \in Jobs, EnrichOK(job[j]), EnrichWrite(j)
    PROVE  \E g : /\ rows' = {g[r] : r \in rows}
                  /\ \A r \in rows : Keeps(g[r], r)
                  /\ \A r, s \in rows : r.day = s.day /\ Alike(r, s) => Alike(g[r], g[s])
<1>1. PICK w : w = job[j]
  OBVIOUS
<1> DEFINE V(r) == Values(r, w.close, w.offer, w.bounds)
           read(r) == CHOOSE s \in w.todo : SameKey(r, s)
           hit(r) == \E s \in w.todo : SameKey(r, s)
           touched == {r \in rows : hit(r) /\ ~Empty(V(read(r)))}
           g == [r \in rows |-> IF r \in touched THEN Filled(r, V(r)) ELSE r]
<1>2. /\ w.todo = {r \in rows : r.day = w.day /\ Incomplete(r)}
      /\ rows' = (rows \ touched) \cup {Filled(r, V(read(r))) : r \in touched}
  BY <1>1 DEF EnrichWrite, EnrichOK
<1>3. ASSUME NEW r \in rows
      PROVE  /\ hit(r) <=> r.day = w.day /\ Incomplete(r)
             /\ hit(r) => read(r) = r
  <2>1. \A s \in w.todo : SameKey(r, s) => s = r
    BY <1>2, UniqueRows
  <2>2. hit(r) <=> r \in w.todo
    BY <2>1 DEF SameKey
  <2>3. SameKey(r, r)
    BY DEF SameKey
  <2>4. r \in w.todo => read(r) = r
    BY <2>1, <2>3
  <2> QED BY <1>2, <2>2, <2>4
<1> HIDE DEF read, hit
<1>4. \A r \in rows : r \in touched <=> r.day = w.day /\ Incomplete(r) /\ ~Empty(V(r))
  BY <1>3
<1>5. \A r \in touched : read(r) = r /\ r \in rows
  BY <1>3
<1> HIDE DEF touched, V
<1>6. rows' = {g[r] : r \in rows}
  BY <1>2, <1>5
<1>7. \A r \in rows : Shape(r) /\ Keeps(r, r)
  BY DEF SnapshotInv, RowOK, Keeps
<1>8. ASSUME NEW r \in rows
      PROVE  Keeps(g[r], r)
  <2>1. Alike(r, r)
    BY DEF Alike
  <2> QED BY <1>7, <2>1, FilledAlike
<1>9. ASSUME NEW r \in rows, NEW s \in rows, r.day = s.day, Alike(r, s)
      PROVE  Alike(g[r], g[s])
  <2>1. V(r) = V(s)
    BY <1>9, ValuesAlike DEF Alike, V
  <2>2. Incomplete(r) <=> Incomplete(s)
    BY <1>9 DEF Alike, Incomplete
  <2>3. r \in touched <=> s \in touched
    BY <1>4, <1>9, <2>1, <2>2
  <2>4. Alike(Filled(r, V(r)), Filled(s, V(s)))
    BY <1>7, <1>9, <2>1, FilledAlike
  <2> QED BY <1>9, <2>3, <2>4
<1> HIDE DEF g
<1> QED BY <1>6, <1>8, <1>9

\* A split whose rows are replaced by others of the same parts is still one.
LEMMA WholeMaps ==
    ASSUME NEW R, NEW h, Whole(R, h), NEW g, \A r \in R : Keeps(g[r], r)
    PROVE  Whole({g[r] : r \in R}, h)
<1>1. PICK f \in [Trades -> Shares] :
          /\ \A r \in R : r.trade \in Parts(h, f) /\ r.qty = PartOf(h, f, r.trade)
          /\ \A t \in Parts(h, f) : \E r \in R : r.trade = t
          /\ \A r, s \in R : r.read = s.read /\ (r.trade = s.trade => r = s)
  BY DEF Whole
<1> DEFINE Q == {g[r] : r \in R}
<1>2. \A q \in Q : \E r \in R : q = g[r] /\ q.trade = r.trade /\ q.qty = r.qty /\ q.read = r.read
  BY DEF Keeps
<1>3. \A r \in R : g[r] \in Q /\ g[r].trade = r.trade
  BY DEF Keeps
<1> HIDE DEF Q
<1>4. /\ \A r \in Q : r.trade \in Parts(h, f) /\ r.qty = PartOf(h, f, r.trade)
      /\ \A t \in Parts(h, f) : \E r \in Q : r.trade = t
      /\ \A r, s \in Q : r.read = s.read /\ (r.trade = s.trade => r = s)
  BY <1>1, <1>2, <1>3
<1>5. Whole(Q, h)
  BY <1>4 DEF Whole
<1> QED BY <1>5 DEF Q

\* The UPDATEs of enrich leave every book as it was.
LEMMA EnrichWriteBooks ==
    ASSUME SnapshotInv, BookInv, NEW j \in Jobs, EnrichWrite(j)
    PROVE  BookInv'
<1>1. job[j].at = "update" /\ Become(j, IdleJob) /\ UNCHANGED <<nav, overlapped>>
  BY DEF EnrichWrite
<1>2. SUFFICES ASSUME ~overlapped PROVE BookInv'
  BY <1>1 DEF BookInv
<1>3. \A k \in Jobs : job'[k].at = "idle"
  <2>1. \A k \in Jobs \ {j} : job[k].at = "idle"
    BY <1>1, <1>2 DEF SnapshotInv, Solo
  <2> QED BY <1>1, <2>1, Becomes DEF SnapshotInv, IdleJob
<1>4. Books /\ EnrichOK(job[j])
  BY <1>2 DEF BookInv
<1>5. PICK g : /\ rows' = {g[r] : r \in rows}
               /\ \A r \in rows : Keeps(g[r], r)
               /\ \A r, s \in rows : r.day = s.day /\ Alike(r, s) => Alike(g[r], g[s])
  BY <1>4, EnrichImage
<1>6. ASSUME NEW d \in 1 .. Days, NEW a \in Accounts, NEW R, R = RowsOn(d, a)'
      PROVE  /\ IF nav[d][a] = NoNav THEN R = {} ELSE BookOf(R, nav[d][a].held)
             /\ \A r, s \in R : Alike(r, s)
  <2> DEFINE Q == RowsOn(d, a)
  <2>1. R = {g[r] : r \in Q}
    BY <1>5, <1>6 DEF RowsOn, Keeps
  <2>2. \A r \in Q : r \in rows /\ Keeps(g[r], r) /\ r.day = d
    BY <1>5 DEF RowsOn
  <2>3. /\ IF nav[d][a] = NoNav THEN Q = {} ELSE BookOf(Q, nav[d][a].held)
        /\ \A r, s \in Q : Alike(r, s)
    BY <1>4 DEF Books
  <2> HIDE DEF Q
  <2>4. \A h : BookOf(Q, h) => BookOf(R, h)
    BY <2>1, <2>2, WholeMaps DEF BookOf
  <2>5. \A r, s \in R : Alike(r, s)
    BY <1>5, <2>1, <2>2, <2>3
  <2> QED BY <2>1, <2>3, <2>4, <2>5
<1>7. Books'
  BY <1>1, <1>6 DEF Books
<1>8. ASSUME NEW k \in Jobs, NEW x, x = job'[k]
      PROVE  CaptureOK(job[k])' /\ EnrichOK(job[k])'
  BY <1>3, <1>8 DEF CaptureOK, EnrichOK
<1> QED BY <1>7, <1>8 DEF BookInv

\* No step of the world or of a job breaks up a book.
LEMMA BookStep ==
    ASSUME SnapshotAssumption, SnapshotInv, BookInv, [Next]_snapshotVars
    PROVE  BookInv'
<1>1. CASE UNCHANGED <<nav, rows, job, overlapped>>
  <2>1. SUFFICES ASSUME ~overlapped PROVE BookInv'
    BY <1>1 DEF BookInv
  <2>2. Books'
    BY <1>1, <2>1 DEF BookInv, Books, RowsOn
  <2>3. \A k \in Jobs : CaptureOK(job[k])' /\ EnrichOK(job[k])'
    BY <1>1, <2>1 DEF BookInv, CaptureOK, EnrichOK
  <2> QED BY <2>2, <2>3 DEF BookInv
<1>2. ASSUME NEW j \in Jobs, NEW step \in {"capture", "enrich", "all"}, NEW d \in 1 .. Days,
             NEW calendar \in BOOLEAN, Start(j, step, d, calendar)
      PROVE  BookInv'
  BY <1>2, StartBooks
<1>3. ASSUME NEW j \in Jobs, NEW calendar \in BOOLEAN, NEW attribution \in BOOLEAN,
             CaptureRead(j, calendar, attribution)
      PROVE  BookInv'
  BY <1>3, CaptureReadBooks
<1>4. ASSUME NEW j \in Jobs, CaptureWrite(j)
      PROVE  BookInv'
  BY <1>4, CaptureWriteBooks
<1>5. ASSUME NEW j \in Jobs, EnrichRead(j)
      PROVE  BookInv'
  BY <1>5, EnrichReadBooks
<1>6. ASSUME NEW j \in Jobs, NEW bounds \in BOOLEAN, NEW closes \in BOOLEAN,
             NEW o \in Offers \cup {NoOffer}, EnrichFetch(j, bounds, closes, o)
      PROVE  BookInv'
  BY <1>6, EnrichFetchBooks
<1>7. ASSUME NEW j \in Jobs, EnrichWrite(j)
      PROVE  BookInv'
  BY <1>7, EnrichWriteBooks
<1>8. ASSUME NEW j \in Jobs, Crash(j)
      PROVE  BookInv'
  BY <1>8, CrashBooks
<1> QED
  BY <1>1, <1>2, <1>3, <1>4, <1>5, <1>6, <1>7, <1>8
  DEF Next, Sync, Attribute, Tick, tables, history, snapshotVars

-----------------------------------------------------------------------------
(* The held P&L of a session.                                              *)

\* The sum of the held P&L of a set of items.
Total(I) == MapThenSumSet(LAMBDA i : SumSet(i.item.held), I)

\* It is the last row of a table, and so is the sum of a set of numbers.
LEMMA SumOfItems ==
    ASSUME NEW I, IsFiniteSet(I)
    PROVE  \E T : Table(T, [i \in I |-> SumSet(i.item.held)], I) /\ T[I] = Total(I)
<1> DEFINE F == [i \in I |-> SumSet(i.item.held)]
           Sums(T) == [s \in SUBSET I |-> IF s = {} THEN 0
                           ELSE SumSet((CHOOSE x \in s : TRUE).item.held) + T[s \ {CHOOSE x \in s : TRUE}]]
           C == CHOOSE T : T = Sums(T)
<1>1. Total(I) = C[I]
  BY DEF Total, MapThenSumSet, MapThenFoldSet
<1>2. PICK T : Table(T, F, I)
  BY TableExists, Zenon
<1>3. ASSUME NEW U PROVE Table(U, F, I) <=> U = Sums(U)
  <2>1. \A s \in SUBSET I : s # {} => F[OneOf(s)] = SumSet((CHOOSE x \in s : TRUE).item.held)
    BY OneOfIsIn DEF OneOf
  <2> HIDE DEF F
  <2> QED BY <2>1 DEF Table, OneOf
<1>4. C = Sums(C)
  <2>1. T = Sums(T)
    BY <1>2, <1>3
  <2> HIDE DEF Sums
  <2> QED BY <2>1, Zenon
<1>5. Table(C, F, I)
  BY <1>3, <1>4
<1> QED BY <1>1, <1>5

LEMMA SumOfValues ==
    ASSUME NEW S, IsFiniteSet(S)
    PROVE  \E T : Table(T, [x \in S |-> x], S) /\ T[S] = SumSet(S)
<1> DEFINE F == [x \in S |-> x]
           Sums(T) == [s \in SUBSET S |-> IF s = {} THEN 0
                           ELSE (CHOOSE x \in s : TRUE) + T[s \ {CHOOSE x \in s : TRUE}]]
           C == CHOOSE T : T = Sums(T)
<1>1. SumSet(S) = C[S]
  BY DEF SumSet, FoldSet, MapThenFoldSet
<1>2. PICK T : Table(T, F, S)
  BY TableExists, Zenon
<1>3. ASSUME NEW U PROVE Table(U, F, S) <=> U = Sums(U)
  <2>1. \A s \in SUBSET S : s # {} => F[OneOf(s)] = (CHOOSE x \in s : TRUE)
    BY OneOfIsIn DEF OneOf
  <2> HIDE DEF F
  <2> QED BY <2>1 DEF Table, OneOf
<1>4. C = Sums(C)
  <2>1. T = Sums(T)
    BY <1>2, <1>3
  <2> HIDE DEF Sums
  <2> QED BY <2>1, Zenon
<1>5. Table(C, F, S)
  BY <1>3, <1>4
<1> QED BY <1>1, <1>5

\* The sum of one number is this number.
LEMMA SumOfOne ==
    ASSUME NEW v \in Int
    PROVE  SumSet({v}) = v
<1> DEFINE S == {v}
           F == [x \in S |-> x]
<1>1. IsFiniteSet(S)
  BY FS_Singleton
<1>2. F[v] = v /\ Numbers(F, S) /\ v \in S /\ S \ {v} = {} /\ S \in SUBSET S
  BY DEF Numbers
<1> HIDE DEF S
<1>3. PICK T : Table(T, F, S) /\ T[S] = SumSet(S)
  BY <1>1, SumOfValues
<1> HIDE DEF F
<1>4. AddsUp(T, F, S) /\ TableLaw(T, F, S)
  BY <1>1, <1>2, <1>3, TableStep, TableRows
<1>5. T[S] = F[v] + T[{}] /\ T[{}] = 0
  <2>1. T[S] = F[v] + T[S \ {v}]
    BY <1>2, <1>4 DEF AddsUp
  <2> QED BY <1>2, <1>4, <2>1, Zenon DEF TableLaw
<1>6. SumSet(S) = v
  BY <1>2, <1>3, <1>5
<1> QED BY <1>6 DEF S

\* The rule of arithmetic the next lemma applies at each element.
LEMMA Distributes == \A x, y, z \in Int : x * z + y * z = (x + y) * z
OBVIOUS

Scales(G, F, R, c) == \A r \in R : G[r] = F[r] * c

\* A sum of multiples is the multiple of the sum.
LEMMA SumScaled ==
    ASSUME NEW R, IsFiniteSet(R), NEW F, Numbers(F, R), NEW c \in Int, NEW G, Scales(G, F, R, c),
           NEW T, Table(T, G, R), NEW U, Table(U, F, R)
    PROVE  T[R] = U[R] * c
<1> USE DEF Scales
<1> DEFINE Bad == {s \in SUBSET R : T[s] # U[s] * c}
<1>1. Numbers(G, R)
  BY DEF Numbers
<1>2. AddsUp(T, G, R) /\ AddsUp(U, F, R) /\ TableLaw(T, G, R) /\ TableLaw(U, F, R)
  BY <1>1, TableStep, TableRows, Zenon
<1>3. ASSUME NEW s \in SUBSET R, \A x \in s : s \ {x} \notin Bad
      PROVE  s \notin Bad
  <2>1. CASE s = {}
    <3>1. T[s] = 0 /\ U[s] = 0
      BY <1>2, <2>1 DEF TableLaw
    <3> QED BY <3>1
  <2>2. CASE s # {}
    <3>1. PICK x \in s : TRUE
      BY <2>2
    <3>2. T[s] = G[x] + T[s \ {x}] /\ U[s] = F[x] + U[s \ {x}] /\ U[s \ {x}] \in Int
      BY <1>2, <3>1 DEF AddsUp
    <3>3. G[x] = F[x] * c /\ F[x] \in Int
      BY <3>1 DEF Numbers
    <3>4. T[s \ {x}] = U[s \ {x}] * c
      BY <1>3, <3>1
    <3>5. F[x] * c + U[s \ {x}] * c = (F[x] + U[s \ {x}]) * c
      BY <3>2, <3>3, Distributes
    <3>6. T[s] = U[s] * c
      BY <3>2, <3>3, <3>4, <3>5, Zenon
    <3> QED BY <3>6
  <2> QED BY <2>1, <2>2
<1>4. Bad = {}
  <2>1. Bad \subseteq SUBSET R
    OBVIOUS
  <2> HIDE DEF Bad
  <2> QED BY <1>3, <2>1, OneByOne
<1> QED BY <1>4

\* An item for each row of R, made with a row of S.
ItemPerRow(I, R, S, a) ==
    /\ \A i \in I : \E q \in R, t \in S : i.key = <<a, q.trade>> /\ i.item = AttributeRow(q, t)
    /\ \A q \in R : \E i \in I : i.key = <<a, q.trade>>
    /\ \A i, k \in I : i.key = k.key => i = k

\* When every row of a session was there at the session before, the items are those of the
\* rows at the prior close, one each.
LEMMA ItemsOf ==
    ASSUME NEW d, NEW a, NEW I,
           I = {i \in Attribution(d, TRUE) : i.key[1] = a}, I # {}, \A i \in I : i.item.status = "ok"
    PROVE  ItemPerRow(I, RowsOn(PreviousSession(d, TRUE), a), RowsOn(d, a), a)
<1> DEFINE p == PreviousSession(d, TRUE)
           on(q, k) == {r \in rows : r.day = q /\ r.acct = k[1] /\ r.trade = k[2]}
           row(q, k) == IF on(q, k) = {} THEN NoRow ELSE CHOOSE r \in on(q, k) : TRUE
           K == {<<r.acct, r.trade>> : r \in {s \in rows : s.day \in {p, d}}}
           item(k) == [key |-> k, item |-> AttributeRow(row(p, k), row(d, k))]
           items == {item(k) : k \in K}
           prior == \E r \in rows : r.day = p
<1>1. Attribution(d, TRUE) = IF ~prior THEN {} ELSE items
  BY DEF Attribution
<1>2. Attribution(d, TRUE) = items
  <2> HIDE DEF prior, items
  <2> QED BY <1>1
<1>3. \A k : item(k).key = k /\ item(k).item = AttributeRow(row(p, k), row(d, k))
  OBVIOUS
<1>4. \A q, k : row(q, k) # NoRow => row(q, k) \in on(q, k)
  OBVIOUS
<1>5. \A r, s : AttributeRow(r, s).status = "ok" => r # NoRow /\ s # NoRow
  BY DEF AttributeRow
<1>6. \A k \in K : k = <<k[1], k[2]>>
  <2> TAKE k \in K
  <2>1. PICK r \in rows : k = <<r.acct, r.trade>>
    OBVIOUS
  <2> HIDE DEF K
  <2> QED BY <2>1
<1>7. \A q, k : \A r \in on(q, k) : r \in RowsOn(q, k[1]) /\ r.trade = k[2]
  BY DEF RowsOn
<1>8. \A r \in RowsOn(p, a) : <<a, r.trade>> \in K
  BY DEF RowsOn
<1> HIDE DEF row, on, item, K, p
<1>9. /\ \A i \in I : \E k \in K : k[1] = a /\ i = item(k)
      /\ \A k \in K : k[1] = a => item(k) \in I
  BY <1>2, <1>3
<1>10. ASSUME NEW i \in I
       PROVE  \E r \in RowsOn(p, a), s \in RowsOn(d, a) : i.key = <<a, r.trade>> /\ i.item = AttributeRow(r, s)
  <2>1. PICK k \in K : k[1] = a /\ i = item(k)
    BY <1>9
  <2> DEFINE r == row(p, k)
             s == row(d, k)
  <2>2. i.key = k /\ i.item = AttributeRow(r, s)
    BY <1>3, <2>1
  <2>3. r # NoRow /\ s # NoRow
    BY <1>5, <2>2
  <2>4. r \in RowsOn(p, a) /\ r.trade = k[2] /\ s \in RowsOn(d, a)
    BY <1>4, <1>7, <2>1, <2>3
  <2>5. k = <<a, r.trade>>
    BY <1>6, <2>1, <2>4
  <2> HIDE DEF r, s
  <2> QED BY <2>2, <2>4, <2>5
<1>11. \A r \in RowsOn(p, a) : \E i \in I : i.key = <<a, r.trade>>
  <2> TAKE r \in RowsOn(p, a)
  <2> DEFINE k == <<a, r.trade>>
  <2>1. k \in K /\ k[1] = a
    BY <1>8
  <2> HIDE DEF k
  <2>2. item(k) \in I /\ item(k).key = k
    BY <1>3, <1>9, <2>1
  <2> QED BY <2>2 DEF k
<1>12. \A i, k \in I : i.key = k.key => i = k
  <2>1. \A i \in I : i = item(i.key)
    <3> TAKE i \in I
    <3>1. PICK k \in K : i = item(k)
      BY <1>9
    <3>2. i.key = k
      BY <1>3, <3>1
    <3> QED BY <3>1, <3>2
  <2> QED BY <2>1
<1> QED BY <1>10, <1>11, <1>12 DEF p, ItemPerRow

\* An item that is ok has the held P&L of its row at the prior close.
LEMMA OkItem ==
    ASSUME NEW q, NEW t, AttributeRow(q, t).status = "ok"
    PROVE  /\ AttributeRow(q, t).held = {q.qty * (t.mark - q.mark)}
           /\ AttributeRow(q, t).read = (IsOption => Missing \notin {q.delta, q.others, t.others})
<1> DEFINE priced == Missing \notin {q.mark, t.mark}
           ok == priced /\ (IsOption => Missing \notin {q.under, t.under})
           X == [status |-> IF ok THEN "ok" ELSE "no_mark",
                 held |-> IF priced THEN {q.qty * (t.mark - q.mark)} ELSE {},
                 read |-> ok /\ (IsOption => Missing \notin {q.delta, q.others, t.others})]
<1>1. AttributeRow(q, t) = X
  BY DEF AttributeRow
<1>2. ok
  <2> HIDE DEF ok
  <2> QED BY <1>1
<1> QED BY <1>1, <1>2

\* No item, no P&L.
LEMMA TotalOfNone == Total({}) = 0
<1>1. IsFiniteSet({})
  BY FS_EmptySet
<1>2. PICK T : Table(T, [i \in {} |-> SumSet(i.item.held)], {}) /\ T[{}] = Total({})
  BY <1>1, SumOfItems
<1> QED BY <1>2, TableRows DEF TableLaw

\* The rows at a close add up to the position h and are marked like row r.
BookAlike(R, h, r) ==
    /\ IsFiniteSet(R) /\ h \in Nat /\ Quantities(R) = h
    /\ r.mark \in Int /\ \A q \in R : q.qty \in Int /\ Alike(q, r)
    /\ \A q, t \in R : q.trade = t.trade => q = t

\* The items of an account are all read or all unread.
LEMMA ItemsRead ==
    ASSUME NEW I, NEW R, NEW S, NEW a, ItemPerRow(I, R, S, a), NEW r, NEW s,
           \A q \in R : Alike(q, r), \A t \in S : Alike(t, s), \A i \in I : i.item.status = "ok"
    PROVE  \E x \in BOOLEAN : \A i \in I : i.item.read = x
<1> DEFINE x == IsOption => Missing \notin {r.delta, r.others, s.others}
<1>1. ASSUME NEW i \in I PROVE i.item.read = x
  <2>1. PICK q \in R, t \in S : i.item = AttributeRow(q, t)
    BY DEF ItemPerRow
  <2>2. i.item.read = (IsOption => Missing \notin {q.delta, q.others, t.others})
    BY <2>1, OkItem
  <2>3. q.delta = r.delta /\ q.others = r.others /\ t.others = s.others
    BY <2>1 DEF Alike
  <2> QED BY <2>2, <2>3
<1>2. x \in BOOLEAN
  OBVIOUS
<1> HIDE DEF x
<1> QED BY <1>1, <1>2

\* The rows at this close are marked like row s; every item is ok; and its P&L is that of
\* the position h from row r to row s.
MarkedLike(S, s) == s.mark \in Int /\ \A t \in S : Alike(t, s)
Explained(I) == I # {} /\ \A i \in I : i.item.status = "ok"
HeldIs(I, h, r, s) == Held(I, TRUE) + Held(I, FALSE) = h * (s.mark - r.mark)

\* The items of an account add up to the P&L of its position.
LEMMA HeldAdds ==
    ASSUME NEW I, NEW R, NEW S, NEW a, ItemPerRow(I, R, S, a), Explained(I),
           NEW h, NEW r, BookAlike(R, h, r), NEW s, MarkedLike(S, s)
    PROVE  HeldIs(I, h, r, s)
<1> USE DEF MarkedLike, Explained
<1> DEFINE c == s.mark - r.mark
           F == [q \in R |-> q.qty * c]
           Q == [q \in R |-> q.qty]
           G == [i \in I |-> SumSet(i.item.held)]
           b == [i \in I |-> CHOOSE q \in R : q.trade = i.key[2]]
<1>1. c \in Int
  BY DEF BookAlike
<1>2. PICK x \in BOOLEAN : \A i \in I : i.item.read = x
  BY ItemsRead DEF BookAlike
<1>3. ASSUME NEW i \in I
      PROVE  b[i] \in R /\ i.key = <<a, b[i].trade>> /\ G[i] = F[b[i]]
  <2>1. PICK q \in R, t \in S : i.key = <<a, q.trade>> /\ i.item = AttributeRow(q, t)
    BY DEF ItemPerRow
  <2>2. b[i] = q
    BY <2>1 DEF BookAlike
  <2>3. i.item.held = {q.qty * c}
    <3>1. i.item.held = {q.qty * (t.mark - q.mark)}
      BY <2>1, OkItem
    <3>2. q.mark = r.mark /\ t.mark = s.mark
      BY <2>1 DEF BookAlike, Alike
    <3> QED BY <3>1, <3>2
  <2> HIDE DEF c
  <2>4. q.qty * c \in Int
    BY <1>1 DEF BookAlike
  <2>5. G[i] = q.qty * c
    BY <2>3, <2>4, SumOfOne
  <2> QED BY <2>1, <2>2, <2>5
<1>4. Carries(b, G, I, F, R) /\ Image(b, I) = R
  <2> HIDE DEF b, G, F
  <2>1. ASSUME NEW i \in I, NEW k \in I, b[i] = b[k] PROVE i = k
    <3>1. i.key = k.key
      BY <1>3, <2>1
    <3> QED BY <3>1 DEF ItemPerRow
  <2>2. ASSUME NEW q \in R PROVE \E i \in I : b[i] = q
    <3>1. PICK i \in I : i.key = <<a, q.trade>>
      BY DEF ItemPerRow
    <3>2. b[i].trade = q.trade /\ b[i] \in R
      BY <1>3, <3>1
    <3> QED BY <3>2 DEF BookAlike
  <2>3. Carries(b, G, I, F, R)
    BY <1>3, <2>1 DEF Carries
  <2> QED BY <1>3, <2>2, <2>3 DEF Image
<1>5. IsFiniteSet(R) /\ IsFiniteSet(I)
  <2>1. b \in [I -> R]
    BY <1>3
  <2>2. \A i, k \in I : b[i] = b[k] => i = k
    BY <1>4 DEF Carries
  <2> HIDE DEF b
  <2>3. b \in Injection(I, R)
    BY <2>1, <2>2 DEF Injection, IsInjective
  <2> QED BY <2>3, FS_Injection DEF BookAlike
<1>6. Numbers(F, R) /\ Numbers(Q, R) /\ Scales(F, Q, R, c)
  <2> HIDE DEF c
  <2> QED BY <1>1 DEF Numbers, BookAlike, Scales
<1>7. PICK T : Table(T, G, I) /\ T[I] = Total(I)
  BY <1>5, SumOfItems
<1>8. PICK V : Table(V, Q, R) /\ V[R] = h
  BY <1>5, SumOfQuantities DEF BookAlike
<1> HIDE DEF F, Q, G, b, c
<1>9. PICK U : Table(U, F, R)
  BY <1>5, TableExists
<1>10. T[I] = U[R]
  <2>1. T[I] = U[Image(b, I)]
    BY <1>4, <1>5, <1>6, <1>7, <1>9, SumAlong
  <2> QED BY <1>4, <2>1
<1>11. U[R] = V[R] * c
  BY <1>1, <1>5, <1>6, <1>8, <1>9, SumScaled
<1>12. Total(I) = h * c
  BY <1>7, <1>8, <1>10, <1>11, Zenon
<1>13. Held(I, TRUE) + Held(I, FALSE) = Total(I)
  <2> DEFINE Read == {i \in I : i.item.read = TRUE}
             Unread == {i \in I : i.item.read = FALSE}
  <2>1. Held(I, TRUE) = Total(Read) /\ Held(I, FALSE) = Total(Unread)
    BY DEF Held, Total
  <2>2. \/ Read = I /\ Unread = {}
        \/ Read = {} /\ Unread = I
    BY <1>2
  <2>3. Total(I) \in Int
    <3>1. h \in Int
      BY DEF BookAlike
    <3> QED BY <1>1, <1>12, <3>1
  <2>6. Total(I) + 0 = Total(I) /\ 0 + Total(I) = Total(I)
    BY <2>3
  <2> HIDE DEF Read, Unread
  <2>4. CASE Read = I /\ Unread = {}
    <3>1. Held(I, TRUE) = Total(I) /\ Held(I, FALSE) = 0
      BY <2>1, <2>4, TotalOfNone, Zenon
    <3> QED BY <2>6, <3>1, Zenon
  <2>5. CASE Read = {} /\ Unread = I
    <3>1. Held(I, TRUE) = 0 /\ Held(I, FALSE) = Total(I)
      BY <2>1, <2>5, TotalOfNone, Zenon
    <3> QED BY <2>6, <3>1, Zenon
  <2> QED BY <2>2, <2>4, <2>5
<1> QED BY <1>12, <1>13 DEF c, HeldIs

\* The rows of an account and a session.
LEMMA RowsAlike ==
    ASSUME SnapshotAssumption, SnapshotInv, Books, NEW d, NEW a \in Accounts, NEW r \in RowsOn(d, a)
    PROVE  d \in 1 .. Days /\ BookAlike(RowsOn(d, a), nav[d][a].held, r)
<1> DEFINE R == RowsOn(d, a)
           h == nav[d][a].held
<1>1. d \in 1 .. Days /\ r.mark \in Int
  BY DEF SnapshotInv, RowOK, RowsOn
<1>2. BookOf(R, h) /\ R # {} /\ \A q \in R : Alike(q, r)
  BY <1>1 DEF Books
<1> HIDE DEF R, h
<1>3. h \in Nat /\ Quantities(R) = h /\ Whole(R, h)
  BY <1>2, BookAdds
<1>4. IsFiniteSet(R) /\ \A q \in R : q.qty \in Int
  BY <1>3, WholeIsFinite, WholeAdds
<1>5. \A q, t \in R : q.trade = t.trade => q = t
  BY <1>3 DEF Whole
<1>6. BookAlike(R, h, r)
  BY <1>1, <1>2, <1>3, <1>4, <1>5 DEF BookAlike
<1> QED BY <1>1, <1>6 DEF R, h

\* The items of an account.
ItemsFor(d, a) == {i \in Attribution(d, TRUE) : i.key[1] = a}

\* They do in every state, whatever the shares of the trades.
LEMMA HeldItems ==
    ASSUME SnapshotAssumption, SnapshotInv, Books, NEW d, NEW a \in Accounts, Explained(ItemsFor(d, a)),
           NEW p, p = PreviousSession(d, TRUE), NEW r \in RowsOn(p, a), NEW s \in RowsOn(d, a)
    PROVE  HeldIs(ItemsFor(d, a), nav[p][a].held, r, s)
<1>1. BookAlike(RowsOn(p, a), nav[p][a].held, r)
  BY RowsAlike
<1>2. MarkedLike(RowsOn(d, a), s)
  BY RowsAlike DEF BookAlike, MarkedLike
<1>3. ItemPerRow(ItemsFor(d, a), RowsOn(p, a), RowsOn(d, a), a)
  BY ItemsOf DEF ItemsFor, Explained
<1> QED BY <1>1, <1>2, <1>3, HeldAdds

-----------------------------------------------------------------------------
(* The theorems.                                                           *)

\* Every state of the nightly job and of its tables satisfies the inductive invariant.
THEOREM SnapshotInvariant == Spec => []SnapshotInv
<1>1. Init => SnapshotInv
  BY InitSnapshot, SnapshotAssumption
<1>2. SnapshotInv /\ [Next]_snapshotVars => SnapshotInv'
  BY SnapshotStep, SnapshotAssumption
<1> QED BY <1>1, <1>2, PTL DEF Spec

\* The tables hold what the job and the sync can write: a balance of no later than now, a
\* row of a session, an account and a trade (or of no trade).
THEOREM SnapshotTypes == Spec => []TypeOK
<1>1. SnapshotInv => TypeOK
  <2> SUFFICES ASSUME SnapshotInv PROVE TypeOK
    OBVIOUS
  <2>1. \A d \in 1 .. Days, a \in Accounts : nav[d][a].at \in 0 .. clock
    <3> SUFFICES ASSUME NEW d \in 1 .. Days, NEW a \in Accounts
                 PROVE  nav[d][a].at \in 0 .. clock
      OBVIOUS
    <3>1. CASE nav[d][a] = NoNav
      <4>1. clock \in Nat
        BY DEF SnapshotInv, Domains
      <4> QED BY <3>1, <4>1 DEF NoNav
    <3>2. CASE nav[d][a] # NoNav
      BY <3>2 DEF SnapshotInv, NavOK, AtClose
    <3> QED BY <3>1, <3>2
  <2>2. \A r \in rows : r.day \in 1 .. Days /\ r.acct \in Accounts /\ r.trade \in Trades \cup {NoTrade}
    BY DEF SnapshotInv, RowOK
  <2>3. \A j \in Jobs : job[j].at \in {"idle", "capture", "write", "enrich", "fetch", "update"}
    BY DEF SnapshotInv, JobOK
  <2>4. \A a \in Accounts :
            /\ broker[a].held \in Holdings
            /\ {broker[a].at, broker[a].cash, broker[a].seen} \subseteq 0 .. clock
    BY DEF SnapshotInv, BrokerOK
  <2>5. /\ share \in [Accounts -> [Trades -> Shares]]
        /\ clock \in 1 .. 3 * Days /\ cast \in Casts
        /\ \A d \in 1 .. Days : offer[d] \in Offers \cup {NoOffer}
    BY DEF SnapshotInv, Domains
  <2> QED BY <2>1, <2>2, <2>3, <2>4, <2>5 DEF TypeOK
<1> QED BY <1>1, SnapshotInvariant, PTL

\* "A row read before the close is not a closing balance": what the job has written passes
\* the reader's own test, whatever calendar lookups failed, and for an account whose syncs
\* were whole its balances and positions are of the close.
THEOREM SnapshotBookIsTheClose == Spec => []BookIsTheClose
<1>1. SnapshotInv => BookIsTheClose
  <2> SUFFICES ASSUME SnapshotInv PROVE BookIsTheClose
    OBVIOUS
  <2>1. ASSUME NEW d \in 1 .. Days, NEW a \in Accounts, nav[d][a] # NoNav
        PROVE  AtClose(d, a, nav[d][a])
    BY <2>1 DEF SnapshotInv, NavOK
  <2>2. ASSUME NEW d \in 1 .. Days, NEW a \in Accounts, nav[d][a] # NoNav
        PROVE  ~(nav[d][a].at < CloseAt(d, TRUE))
    <3>1. nav[d][a].at \in 0 .. clock /\ nav[d][a].at >= CloseAt(d, TRUE)
      BY <2>1, <2>2 DEF AtClose
    <3>2. CloseAt(d, TRUE) \in Int
      BY DEF CloseAt
    <3>3. clock \in Int
      BY DEF SnapshotInv, Domains
    <3> DEFINE n == nav[d][a].at
               c == CloseAt(d, TRUE)
    <3>4. n \in 0 .. clock /\ n >= c /\ c \in Int
      BY <3>1, <3>2
    <3> HIDE DEF n, c
    <3>5. ~(n < c)
      BY <3>3, <3>4
    <3> QED BY <3>5 DEF n, c
  <2>3. Dropped(TRUE) = {}
    BY <2>2 DEF Dropped
  <2>4. \A d \in 1 .. Days, a \in Accounts \ ragged :
            nav[d][a] # NoNav => nav[d][a].cash >= CloseAt(d, TRUE) /\ nav[d][a].seen >= CloseAt(d, TRUE)
    BY <2>1 DEF AtClose
  <2> QED BY <2>3, <2>4 DEF BookIsTheClose
<1> QED BY <1>1, SnapshotInvariant, PTL

\* "enrich no longer stores such a close": an option's mark under intrinsic, or an earlier
\* session's trade where an IV was there, is only of a session some enrich marked blind.
THEOREM SnapshotNoStaleMark == Spec => []NoStaleMark
<1>1. SnapshotInv => NoStaleMark
  BY DEF SnapshotInv, MarksOK, Stale, NoStaleMark
<1> QED BY <1>1, SnapshotInvariant, PTL

\* A row the reader grades "vendor" has Greeks of its own session, as long as no two jobs
\* have run at the same time.
THEOREM SnapshotVendorGrade == Spec => []VendorGradeIsTheSessions
<1>1. SnapshotInv => VendorGradeIsTheSessions
  <2> SUFFICES ASSUME SnapshotInv, ~overlapped, NEW r \in rows, GreeksQuality(r) = "vendor"
               PROVE  r.delta = r.day /\ r.others = r.day
    BY DEF VendorGradeIsTheSessions
  <2>1. GreeksOK(r)
    BY DEF SnapshotInv, Solo
  <2>2. r.delta # Missing /\ r.others # Missing /\ r.asof = r.day
    BY DEF GreeksQuality
  <2> QED BY <2>1, <2>2 DEF GreeksOK
<1> QED BY <1>1, SnapshotInvariant, PTL

\* "the first capture of an account is the one kept", "only NULLs change": no step of any
\* run, in any order with the others, takes a row of history away or changes a value.
THEOREM SnapshotHistoryKept == Spec => HistoryIsKept
<1> DEFINE Same(r, s) == /\ SameKey(r, s) /\ s.qty = r.qty /\ s.read = r.read
                         /\ \A f \in {"mark", "under", "asof", "delta", "others"} : r[f] \in {Missing, s[f]}
                         /\ r.mark # Missing => s.src = r.src
           Goal == /\ \A d \in 1 .. Days, a \in Accounts : nav[d][a] # NoNav => nav'[d][a] = nav[d][a]
                   /\ \A r \in rows : \E s \in rows' : Same(r, s)
<1>1. SnapshotInv /\ [Next]_snapshotVars => [Goal]_snapshotVars
  <2> SUFFICES ASSUME SnapshotInv, Next PROVE Goal
    OBVIOUS
  <2>1. CASE UNCHANGED nav /\ rows \subseteq rows'
    BY <2>1 DEF SameKey
  <2>2. ASSUME NEW j \in Jobs, CaptureWrite(j)
        PROVE  Goal
    <3>1. rows \subseteq rows'
      BY <2>2 DEF CaptureWrite
    <3>2. ASSUME NEW d \in 1 .. Days, NEW a \in Accounts, nav[d][a] # NoNav
          PROVE  nav'[d][a] = nav[d][a]
      BY <2>2, <3>2 DEF CaptureWrite, SnapshotInv, Domains
    <3> QED BY <3>1, <3>2 DEF SameKey
  <2>3. ASSUME NEW j \in Jobs, EnrichWrite(j)
        PROVE  Goal
    <3>1. UNCHANGED nav
      BY <2>3 DEF EnrichWrite
    <3>2. ASSUME NEW r \in rows PROVE \E n \in rows' : Same(r, n)
      <4>1. CASE r \in rows'
        BY <4>1 DEF SameKey
      <4>2. CASE \E s \in job[j].todo :
                     Filled(r, Values(s, job[j].close, job[j].offer, job[j].bounds)) \in rows'
        <5>1. PICK v : Filled(r, v) \in rows'
          BY <4>2
        <5>2. Shape(r)
          BY DEF SnapshotInv, RowOK
        <5> DEFINE n == Filled(r, v)
        <5>3. /\ n.day = r.day /\ n.acct = r.acct /\ n.trade = r.trade
              /\ n.qty = r.qty /\ n.read = r.read
              /\ n.under = Coalesce(r.under, v.under) /\ n.delta = Coalesce(r.delta, v.delta)
              /\ n.others = Coalesce(r.others, v.others) /\ n.asof = Coalesce(r.asof, v.asof)
              /\ n.mark = Coalesce(r.mark, v.eod.mark)
              /\ n.src = IF NewMark(r, v) THEN v.eod.src ELSE r.src
          BY <5>2, FilledFields
        <5> HIDE DEF n
        <5>4. SameKey(r, n) /\ n.qty = r.qty /\ n.read = r.read /\ (r.mark # Missing => n.src = r.src)
          BY <5>3 DEF SameKey, NewMark
        <5>5. /\ r.mark \in {Missing, n.mark} /\ r.under \in {Missing, n.under}
              /\ r.asof \in {Missing, n.asof} /\ r.delta \in {Missing, n.delta}
              /\ r.others \in {Missing, n.others}
          BY <5>3 DEF Coalesce
        <5>6. \A f \in {"mark", "under", "asof", "delta", "others"} : r[f] \in {Missing, n[f]}
          BY <5>5
        <5>7. Same(r, n)
          BY <5>4, <5>6
        <5> QED BY <5>1, <5>7 DEF n
      <4> QED BY <2>3, <4>1, <4>2, EnrichedRows
    <3> QED BY <3>1, <3>2
  <2>4. CASE UNCHANGED tables
    BY <2>1, <2>4 DEF tables
  <2>5. UNCHANGED tables \/ \E j \in Jobs : CaptureWrite(j) \/ EnrichWrite(j)
    <3>1. /\ \A a, h, summary, positions : Sync(a, h, summary, positions) => UNCHANGED tables
          /\ \A a, t, q : Attribute(a, t, q) => UNCHANGED tables
          /\ Tick => UNCHANGED tables
      BY DEF Sync, Attribute, Tick
    <3>2. \A j, step, d, calendar : Start(j, step, d, calendar) => UNCHANGED tables
      BY DEF Start
    <3>3. \A j, calendar, attribution : CaptureRead(j, calendar, attribution) => UNCHANGED tables
      BY DEF CaptureRead
    <3>4. \A j, bounds, closes, o : EnrichFetch(j, bounds, closes, o) => UNCHANGED tables
      BY DEF EnrichFetch
    <3>5. \A j : EnrichRead(j) \/ Crash(j) => UNCHANGED tables
      BY DEF EnrichRead, Crash
    <3> QED BY <3>1, <3>2, <3>3, <3>4, <3>5 DEF Next
  <2> HIDE DEF Goal
  <2> QED BY <2>2, <2>3, <2>4, <2>5, Zenon
<1>2. HistoryIsKept <=> [][Goal]_snapshotVars
  BY DEF HistoryIsKept
<1> HIDE DEF Goal
<1> QED BY <1>1, <1>2, SnapshotInvariant, PTL DEF Spec

\* While no two jobs have run at the same time, the rows of an account and a session are a
\* whole split of the position its balances are of, and marked alike.
THEOREM SnapshotBooks == Spec => []BookInv
<1>1. Init => BookInv
  <2>1. Init => Books
    BY DEF Init, Books, RowsOn
  <2>2. Init => \A j \in Jobs : job[j].at = "idle"
    BY DEF Init, IdleJob
  <2>3. Init => \A j \in Jobs : CaptureOK(job[j]) /\ EnrichOK(job[j])
    BY <2>2 DEF CaptureOK, EnrichOK
  <2> QED BY <2>1, <2>3 DEF BookInv
<1>2. SnapshotInv /\ BookInv /\ [Next]_snapshotVars => BookInv'
  BY BookStep, SnapshotAssumption
<1> QED BY <1>1, <1>2, SnapshotInvariant, PTL DEF Spec

\* "a rerun never mixes two reads of its book": without an overlap the rows of an account and
\* a session are of one read and add up to the position its NAV row holds, whatever is
\* synced, attributed, lost or run again in between, and there are none without that row.
THEOREM SnapshotOneRead == Spec => []OneReadPerBook
<1>1. BookInv => OneReadPerBook
  <2> SUFFICES ASSUME Books, NEW d \in 1 .. Days, NEW a \in Accounts
               PROVE  IF nav[d][a] = NoNav THEN RowsOn(d, a) = {}
                      ELSE /\ \A r, s \in RowsOn(d, a) : r.read = s.read
                           /\ Quantities(RowsOn(d, a)) = nav[d][a].held
    BY DEF BookInv, OneReadPerBook, Quantities
  <2> QED BY BookAdds, SnapshotAssumption DEF Books
<1> QED BY <1>1, SnapshotBooks, PTL

\* The held P&L pnl_attribution reports for an account, read and unread, is the position at
\* the prior close times the move of its mark, however many trades share it, while no two
\* jobs have run at the same time and the same trades are there at both closes.
THEOREM SnapshotHeld == Spec => []HeldIsThePositions
<1>1. SnapshotInv /\ BookInv => HeldIsThePositions
  <2>1. SUFFICES ASSUME SnapshotInv, Books PROVE HeldIsThePositions
    BY DEF BookInv, HeldIsThePositions
  <2>2. ASSUME NEW d \in 1 .. Days, NEW a \in Accounts, Explained(ItemsFor(d, a)),
               NEW r \in RowsOn(PreviousSession(d, TRUE), a), NEW s \in RowsOn(d, a)
        PROVE  HeldIs(ItemsFor(d, a), nav[PreviousSession(d, TRUE)][a].held, r, s)
    BY <2>1, <2>2, HeldItems, SnapshotAssumption
  <2> QED BY <2>2 DEF HeldIsThePositions, ItemsFor, Explained, HeldIs
<1> QED BY <1>1, SnapshotInvariant, SnapshotBooks, PTL
=============================================================================
