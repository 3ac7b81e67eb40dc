# Bifrost trade core: TLA+ specifications

This directory is a verification development of `bifrost_core`, the library the
trading daemon, the Monitor API and the IB operator share. The library starts
hardly a thread of its own; what makes it hard is that several processes use it
at once over two kinds of store, Redis (per-env daemon IPC, message center,
on-demand registries, IB RPC) and PostgreSQL (a per-env Trade database and a
shared Golden Source), with few transactions across calls and none across two
stores. Above the stores it computes: pairs, results, win rates, snapshots, each
by several readers that should agree.

Paths below are relative to `src/src/bifrost_core/`. `PROJECT.json` ties every
definition to the lines it models, every run to its properties, every property
to a mutant of the code that breaks it, and lists the hazards, findings and
theorems. To repeat anything:

    tlc -workers 2 -config Control.cfg MCDaemonControl
    tlapm DaemonProofs.tla

## 1. The system

| Component | State it keeps | Operations | Hard because |
|---|---|---|---|
| Daemon control stream (`persistence/redis_daemon_state.py`, `TradingDaemonSink.poll_and_consume_control`) | a capped Redis stream, a consumer group with a pending list | publish, create group, drain pending, read new, acknowledge, requeue | every call is a separate round trip: crash, lost reply, trimming, two daemons |
| Daemon state hash (same file, `TradingDaemonSink`, `monitor/reader/status.py`, `monitor/self_check.py`) | one HASH with a 180 s TTL: `suspended`, `last_ts`, `heartbeat_interval_sec`, `graceful_shutdown_at` | seed on connect, heartbeat, snapshot, operator resume or suspend, shutdown mark, poll of the run status, liveness test | read-then-write seed, TTL, partial HSET resurrecting an expired hash |
| Message center (`core/message_center.py`) | a stream, item keys with TTL, an index zset, dedupe keys, consumer offsets | publish a transition, materialize, fetch, save the offset | dedupe key read outside the pipeline, offset saved after a whole batch, reader prunes in a later call |
| Fill attribution (`portfolio/reader/accounts.py`) | raw rows on Golden Source, whole and split rows per fill in the env database | patch, update, insert, replace splits, two deletes, import | two databases committed one after the other |
| Executions (`portfolio/reader/accounts.py`, `executions.py`, `keyset.py`, `persistence/postgres/brokerage_views.py`) | raw rows of TWS, Flex and the journal, cash lines, the views over them | import, insert by hand, correct, delete, page | three sources of one fill in any order, cursors with NULL parts, edits between pages |
| Results (`accounts_helpers.py`, `executions.py`, `instance_exec_net_pnl.py`, `option_stock_link.py`, `instance_state.py`, `strategy_win_rate.py`, `portfolio/model/payoff.py`) | option-stock links | FIFO pairs, calendars, realized results, states, win rate, max risk; link, unlink | several readers compute the same thing their own way, over splits, ranges and limits |
| Plans, trades, reviews (`monitor/reader/strategy_plan.py`, `strategy_instance.py`, `trade_review.py`) | rows with a status machine and foreign keys | create, edit, extend, intend, link a fill, cancel, delete; open, close; review | checks and writes apart, row locks, foreign-key share locks, who waits for whom |
| Rule objects (`monitor/reader/strategy_opportunity_write.py`, `strategy_allocation_write.py`, `gate_safety_write.py`, `strategy_rules_delete.py`, `settings.py`) | gate sets, opportunities, allocations with a list of opportunities, the daemon's settings that name a gate set and an allocation | create, put, patch, replace a list, set active, guarded deletes | count-then-delete, lost update, halves checked apart, lists written row by row |
| Structures and templates (`strategy_structure_write.py`, `template_config_write.py`) | templates with codes and legs, structures made from them, the structure the daemon starts with | create, put, patch, replace legs, two deletes, deactivate, activate | legs copied from a template read some statements earlier, users looked up before a delete |
| Daily book snapshot (`portfolio/snapshot/daily.py`, `portfolio/reader/snapshots.py`) | a NAV row per account and session, a row per position and trade | capture, enrich, grade, attribute a session's P&L | the broker tables, the fills, the vendor's rows and another run change meanwhile; values are filled in one by one over several runs |
| Golden Source sync (`persistence/postgres/accounts_sync.py`, `postgres_sink.py`) | accounts, positions, fills | upsert, rollback | partial syncs, two connections |
| On-demand registries (`core/realtime/on_demand_opt.py`, `on_demand_stk.py`) | a SET and a HASH of heartbeats | ensure, drop, list fresh with prune | SET and HASH are written by separate calls; prune races ensure |
| Quote readers (`core/realtime/redis_quotes.py`, `redis_subscribe.py`) | a retry state machine, a throttle | connect, fall back, notify | retry limits, trailing update dropped |
| IB operator RPC (`ib_operator/client.py`, `protocol.py`) | request stream, result keys with TTL | request, poll the result, expire | timeout racing a late answer |
| Service health and Ops lease (`core/ops_lease.py`, `core/redis_health_keys.py`, `ib_operator/health_redis.py`) | one host field per service, a HASH of health fields | maintain the host | HGET then HSET |
| Portfolio model (`portfolio/model/`) | none | positions, payoff, pricing | pure arithmetic |
| Schema and migrations (`persistence/postgres/*ddl.py`, `wave*_migrations.py`) | the schema | idempotent DDL | runs once per release |
| Configuration, metrics, single-statement readers, HTTP clients | none to speak of | | sequential |

How they meet. The Monitor API publishes commands into the control stream and
writes `suspended` into the state hash; the daemon polls both in its main loop
and writes the hash; the Monitor derives its lamps from the hash. Socket
services and Ops publish connection events, the API's worker materializes them,
its HTTP handlers page through them. Fills arrive on Golden Source from TWS and
from Flex imports; the operator attributes them to trades of the env database;
a plan is linked to a trade when it is filled, and a trade can be closed
(deleted) only while nothing refers to it. The readers derive positions, results
and states from the attributed fills; every night a job copies the positions, by
the same attribution, into the history.

Three modules look at the attribution of fills, each at what the others leave
out: `FillAttribution` at how one fill's rows are written across two databases,
`TradeBook` at the rows as what ties a trade down (a fill names at most one
trade), `ExecutionBook` at what many fills, imported and attributed in one step
each, add up to. `TradeResults`, `Performance` and `ExecutionBook` are one
specification in three modules. The control stream and the state hash live in
one Redis but share no key and no call, so they are two modules; so are
`RuleChain` and `StructureBook`, whose writers share only the daemon's settings,
of which each writes its own columns, and the structure an opportunity names,
which neither models.

## 2. Modules

| Module | Models | Role |
|---|---|---|
| `DaemonControl` | the control stream and its polls | specification |
| `DaemonState` | the state hash, the daemon that writes it, the lamps | specification |
| `DaemonProofs` | | five theorems about the control stream, six about the state hash |
| `MessageCenter` | publishers, worker and reader for one connection slot | specification |
| `MessageCenterProofs` | | five theorems |
| `FillAttribution` | the writers of one fill across both databases | specification |
| `FillAttributionProofs` | | four theorems |
| `ExecutionBook` | imports, corrections and deletes of executions, the views, the paged lists, position attribution | specification |
| `Payoff` | the payoff of option legs at expiration and its worst case | operators |
| `Performance` | FIFO pairs, calendars, realized results of a book, a range, a trade | operators over `ExecutionBook`, using `Payoff` |
| `TradeResults` | option-stock links; a trade's state, net, max risk and the win rate | extends the specification of `ExecutionBook` |
| `ExecutionProofs` | | ten theorems, on all of `ExecutionBook`, `Performance` and `TradeResults` |
| `PlanLifecycle` | what plan and trade writers promise | abstract specification |
| `TradeBook` | the same writers as transactions with locks | implements `PlanLifecycle` |
| `TradeBookProofs` | | five theorems, the refinement among them |
| `RuleChain` | the writers and deletes of rule objects as transactions with locks | specification |
| `RuleChainProofs` | | six theorems |
| `StructureBook` | the writers of templates, structures and the active structure as transactions with locks | specification |
| `StructureBookProofs` | | four theorems |
| `BookSnapshot` | the broker sync, the nightly job, the grades and the P&L attribution of its reader | specification |
| `BookSnapshotProofs` | | seven theorems, and what sums over finite sets are |
| `MC*` | | constants of the runs |

Operators whose comment begins "Mutant:" are the plausible mistakes each
property is tried against; no specification uses them. Most specifications take
a set of `Casts`: a cast is a record of bounds (which operations, how many calls,
faults, days) chosen in `Init`, so that one run holds several scenarios, each
small, which meet different hazards.

### DaemonControl

`log` is every entry ever added (an entry's id is its index), `stream` the ids
Redis still holds, `group`, `last` and `pending` the consumer group. A poll is
`EnsureGroup`, `ReadPending`, `ReadNew`, `Ack` and then `Return` or `Requeue`,
one action per Redis call of `consume_control`, with `pc` and `hand` telling how
far each daemon is. Approximate trimming may drop any number of the oldest
entries down to `MAXLEN`. `AckFails`, `ReadFails`, `RequeueFails`, `Crash` and
`Flush` are the failures the code swallows or survives. Redis clients differ in
how they answer `XREADGROUP` with id 0 when nothing is pending: `NamedReply`
chooses. `faults`, `ackFailed`, `overlapped` and `dropped` are history: they
name the excuses a property allows. The age of a command is not modelled:
`CONTROL_CMD_MAX_AGE_SEC`, said to bound it, is used nowhere
(`persistence/postgres/postgres_sink.py:493`).

### DaemonState

The fields of the hash are variables; a write is one MULTI of HSET and EXPIRE
and so one step, while connecting reads the hash (`Connect`) and writes the
default in a second call (`Seed`). `Heartbeat`, `Snapshot`, `WriteOther`,
`GracefulShutdown` are the daemon's writes, `SetRunStatus` the operator's,
`PollRunStatus` its effect on the daemon. `AliveThreshold`, `Alive`,
`DaemonLamp`, `HealthLamp` translate `monitor/self_check.py`. `Tick` never
passes a heartbeat a live daemon owes and never falls between the two calls of
a connect. `gap`, `beaten` and `order` are history: the daemon's hold on the
hash was broken, this process has written a heartbeat, the operator's last word.
The longest threshold (3 x 120 s) exceeds the TTL (180 s), so a daemon that dies
with a long interval is noticed when the hash expires and not by the threshold
(`monitor/self_check.py:20`); `DeadIsNoticed` states both bounds.

### MessageCenter

`events` is the stream, in the order of `occurred_at`. `Update`, `OpsStop`,
`Exit` publish; `Sync`, `ReadDedupe`, `Materialize`, `SaveOffset` are the worker's
calls, `FetchStart`, `FetchPage`, `FetchItems`, `FetchDone` the reader's. A
failed read of the offset counts as `0-0`, a failed materialization is skipped,
a failed save of the offset is only logged: those paths are actions or
disjuncts. `spoken`, `skipped`, `redone`, `quiet` are history. `NewestFirst` is `ZREVRANGE`, an
element's `Rank` its place in it. The reader's loop ends when it has enough, when
a page is empty, or when it has gone through four times its limit
(`core/message_center.py:556`). One slot, one worker; the stream is not trimmed (it
takes thousands of events).

### FillAttribution

One fill, its raw rows (TWS, Flex twin) with their row lock, its whole-fill row
and its split rows. A call of any of the six writers holds a transaction on each
database: `Begin` reads or locks the raw row, `CheckWrite`, `CheckUpdate`,
`CheckDelete` are its checks, `EnvWrite` its statements on the env database,
then `GoldenCommit` and `EnvCommit` in the order of the code
(`replace_execution_fill_splits` has nothing to commit on Golden Source).
`Blocked` says which uncommitted rows a statement waits for; a DELETE that has
waited (`EnvWriteAfterWait`) deletes only rows it had seen, as READ COMMITTED
does. `Fail` rolls back what is not committed. `torn` records that an env commit
was lost after its raw row had changed.

### ExecutionBook, Performance, Payoff, TradeResults

`broker` is what the broker has executed; `raw` holds the rows of the three raw
tables, each told by the sign and size of its id (a Flex row f, a TWS row -f, a
journal row below -100), so that `Canonical`, `Final` and `Fly` read as the views
do. A fill may be told by Flex under another exec_id (`alias`) or without a trade
date, by a journal without a time. A day has a session and an evening, because
the sources date a fill by UTC and the views by New York: the evening fill is
where they differ. `att` is each exec_id's whole trade and splits, here written
in one step (`AttributeWhole`, `SplitFill`). `ImportFlex` imports one account's
statement up to a day and raises what the view takes for its horizon.
`PageFrom`, `ExecutionsAfter`, `TransactionsAfter` are the keyset conditions with
their NULLs; `ReadPage` is one call of a reader that goes on from the last
cursor while rows come and go between its pages (`walk`). `LIMIT` is told by places
(`Newest`): the row in place j has j - 1 before it.

A position is a row of `account_positions`: an account, a contract and the quantity
the broker lists, which may differ from the fills (it is synced apart from them, an
expired option leaves it, and it has what came before the fills that are read). So
`AttributionRows` takes it as an argument, and the properties speak of every
quantity: one of zero has no rows, one without fills a row of no trade, which has
all of it, any other a row per trade that its fills name. `OnPosition` is the join
of the code: an option's fill is on every position of its account, expiry, right
and strike, of whatever underlying, and `Counted` prefers Flex and the journal to
TWS among those. `BrokerHolds`, external, is what the broker has of a contract once
it has synced.

`Performance` computes from these rows what `accounts_helpers.py` and
`executions.py` do: `PairsOf` (a recursive function of the number of rounds, each a
turn of the code's loop), `Calendar`, `RangePairs`, `Stats`, `ByTrade`,
`TradeSummary`. Money is a multiple of `Unit` and quantities divide it (60 in the
run), so every share is whole. `TradeResults`
adds the links (`AskLink` looks its legs up, `InsertLink` inserts later), whose steps are
steps of the book (`SharedNext`: a strict delete, an edit that leaves it alone), `StateOf`,
`InstanceNet`, `MaxRisk`, `WinRate`. The properties check each reader against
another reader or against a definition of another form: FIFO pairs against the
k-th unit bought and sold, a range's calendar against the whole book's, a
trade's statistics three ways, the max risk against every price.

### PlanLifecycle and TradeBook

`PlanLifecycle` is the promise: each call is one step on plans, trades and the
set of trades that reviews or fills name. `TradeBook` takes a call apart: `Begin`
draws a request, `LockPlan` is the SELECT FOR UPDATE, `WritePlan` the checks
(`Allowed`), the statement (`Edited`) and the commit; `CheckLink`, `ReadTrade`,
`TakeShare`, `Commit` are `link_fill`, reviews and attributions, which read the
trade without a lock and lean on the foreign key; `LockTrade`, `Count`, `Erase`
are `delete_instance_strict`. A lock lasts from the step that takes it to the
end of the call, so it is derived from `at` and `req` (`HoldsPlan`, `HoldsTrade`,
`Shares`, `HoldsFill`) and is no variable. An edit sends a whole body: whatever
columns a partial PATCH carries, the row ends in some body. The refinement
mapping (`Life`) is the identity on `plan` and `trade` and collects what reviews
and fills name in `tied`; each call is its one abstract step at its commit.

### RuleChain

Committed rows are variables; what a transaction will write is in its request
and becomes visible at its `Commit*` or `Erase`. Here locks are explicit
(`held`), for calls lock rows of four tables in different orders: `Wants` is what
the next statement takes, `WaitsFor` who is in its way. `Lock` is the UPDATE or
SELECT FOR UPDATE a call begins with, `Share` the foreign keys of the row
written, `Look` and `Unlink` the DELETE of an allocation's list (its snapshot,
then the rows, some of them after a wait), `Link` the INSERTs, `Check` the
question whether an object is in use, `Erase` the DELETE with its cascades.
`relink` is an `update_allocation` that sends the list alone: it never touches the
allocation's row, so two of them, or one beside a patch, can leave the union of
two lists; `mixed` marks such calls and `ListIsReplaced` excuses them. A patch of
a gate set keeps the params it has read in `read` until it writes them back. A
row put in the place of a deleted one is another row: a DELETE that has waited
for the first does not see the second (`Over`).

### StructureBook

As in `RuleChain`, committed rows are variables, locks explicit (`held`, with
PostgreSQL's three strengths) and what a call writes is seen at its commit. A
call that saves a structure is `Resolve`, `ReadLegs`, `Lock`, `Share`,
`CommitStructure`: the template is found, its legs read in a later statement, then
the structure's row and the template's foreign key are locked. `Recodes` says
when an UPDATE takes the stronger lock because the template's code, a unique
column, changes. `Clear` is the second UPDATE of `deactivate_structure`, which
writes the settings only where they name the structure. `during` is history:
what each template's legs have been, and what was activated, since a call began.

### BookSnapshot

The world: `Sync` (whole or partial), `Attribute`, `Tick`, and the vendor's row of
a session, which only gets newer and more complete. The job: `Start` with its
checks of the day, `CaptureRead` (one remote snapshot of the broker tables),
`CaptureWrite`, `EnrichRead`, `EnrichFetch` (closes, bounds of the session, option
rows, each of which may fail or not be there), `EnrichWrite`; `Crash` at any step.
Two jobs may run at once. `EodMark` is `option_eod_mark` with its intrinsic floor
and stale-close rules, `Filled` the UPDATE that fills NULLs only. A Greek is
stood for by the session it is of, which is all the grade depends on. The reader
is `Dropped`, `GreeksQuality`, `AttributeRow`, `Attribution`. One contract; the split
of a position by trade looks at no other contract, except that it takes in another
underlying's option fills on the same terms (see Findings), which are left out. `overlapped`, `ragged` and `blind`
are history: jobs ran at once, a sync was partial, a session was marked without
its close or bounds.

## 3. Runs

| Run | Distinct states | Question | Properties |
|---|---|---|---|
| `control` | 801,541 | Is a command lost, doubled, reordered or left lying, with two daemons and two faults? | `NoSilentLoss` `EachOnceInOrder` `EventuallyReturned` |
| `control_named_reply` | 20 | What if the server names the stream with nothing pending? | `EventuallyReturned`, violated |
| `state` | 732,039 | Who can switch trading on, and do the lamps tell the truth? | `LampsAreRight` `OnlyResumeEnables` `SuspendReaches` |
| `center_sync` | 3,261,195 | Do crashes, failures and rewinds of the worker hide or double messages, or show an old status? | `NothingVanishes` `OneToastPerWindow` `NewestTellsStatus` |
| `center_read` | 335,448 | Does a reader that prunes meanwhile return the newest and unlist nothing, and is everything consumed? | `ReaderFindsAll` `EventuallyCaughtUp` |
| `fill` | 1,279,906 | Is a fill attributed one way, in full, and let go with its last row, and never twice to one trade? | `AttributedOnce` `NoOrphan` `NoTradeTwice` |
| `fill_both_ways` | 4,909 | Two callers of `patch_execution`: one way or the other? | `OneWay`, violated |
| `executions` | 66,971 | Do the views, pages, pairs, totals, states and rates agree with one another, in whatever order fills are told, attributed, corrected and deleted? | `PendingUntilFlex` `PagesAreTheBook` `FillsCountOnce` `PairsAreFifo` `RangesAgree` `TradesAddUp` `StatesAgree` `WinRateIsTheBook` `RiskIsTheWorst` |
| `trade_book` | 176,588 | Do interleaved calls keep the plan lifecycle, the foreign keys' promise and their word to return? | `NamesAStandingTrade` `IntentIsFrozen` `LifecycleKept` `EveryCallReturns` |
| `rule_chain` | 1,970,669 | Do deletes stay right after their check, and are lists, scopes and gate params kept apart? Who waits for whom? | `NothingElseStopsIt` `RowsStayWhole` `OnlyListsDeadlock` `PatchKeepsOthers` |
| `structure_book` | 1,331,032 | Do structures take the legs their template has, does a refused delete name its users, is a deactivated structure left to be started? | `UsersAreNamed` `LegsAreTheTemplates` `DeactivatedIsNotStarted` |
| `book_snapshot` | 451,800 | Is what the nightly job keeps one read of the book, at the close, with true marks and grades, and never changed? | `OneReadPerBook` `BookIsTheClose` `NoStaleMark` `VendorGradeIsTheSessions` `HeldIsThePositions` `HistoryIsKept` |

Each module has its type invariant, `TypeOK` (in `DaemonState` `StateTypeOK`: its names
differ from those of `DaemonControl`, so that one module can prove about both). Those
of the modules with proofs are theorems, and the others hold in the instances above.

### Bounds, and why they are enough

- `control`: two daemons, `MAXLEN` 1, three entries, two faults, one word the
  daemon knows, one it does not, and a `consume_only` filter. Three entries
  trim, requeue and reorder; two faults are what the worst traces need (a crash
  between acknowledgement and return, then a second one; an overlap and a failed
  XACK). A fault-free overlap is counted as a fault because deployments mean to
  run one daemon.
- `state`: the constants keep the order of the real ones: default interval <
  floor < longest interval < TTL < longest threshold (10 < 35 < 120 < 180 < 360 s
  become 1 < 2 < 3 < 4 < 6). `MaxTime` 8 passes the longest threshold and leaves
  room for a full TTL; the theorems hold for any values in that order.
- `center_sync`: two statuses, batches of two, two events, item TTL 2, dedupe
  window 1, time to 3, two faults, a fetch of one message: an event can expire, give
  way to its successor, be gone through again and lie outside its window, while a
  reader prunes. `center_read`: the same with batches, TTL and pages of one and one
  fault, for the fairness. The theorems cover any number of events, faults and fetches.
- `fill`: quantity 2 so that a split has two parts, two trades, both raw rows. The
  cast `serial` has five calls of one session after another, one of which fails or
  crashes; `meeting` has three calls of two sessions and all six writers. The
  session and trade sets are symmetric: only equality of their members is looked
  at, and the run checks safety alone. `fill_both_ways`: patches alone on one row.
- `executions`: six casts. `views`: two fills of three sources, of the
  session and the evening, some with an alias, one of them without a date. `rows`: three rows, in an
  evening, without a date, without a time, read a row per page while one is imported or
  deleted. `lines`: three cash lines, NULL ids, a failed read. `pairs`: four option
  fills of both sides over two days. `shares`: two fills split and corrected.
  `results`: two fills of calls, puts and stock, split, linked, deleted. Both `views` and
  `results` have an option of another underlying on the same terms; positions have any
  quantity from -2 to 2. Limits are
  so small that they are met: a look-back of one day, statistics over three
  fills, summaries over five.
- `trade_book`: two sessions, one plan, trade and fill, two accounts, two
  expiries, four bodies (whole on either account, without a leg, without an
  exit). Calls are not bounded: ids run out. Every lock is between two calls
  over one row of each table, which is what is there; the theorems cover any
  number.
- `rule_chain`: two sessions (symmetric), one gate set, rule and allocation, two gate
  params of two values, 23 requests: each writer, and for each column it can
  name both the object and nothing. A list is empty or the one rule; the
  rows of a statement, and the INSERTs of one list, are locked together. With
  more rules, two calls on one allocation that list them in different orders
  could also wait for each other where one sends the list alone; the property
  admits those pairs, though this instance does not reach them. Each object has one life: created,
  used, deleted.
- `structure_book`: two sessions (symmetric), two templates, a structure made of
  each, two codes (so that codes are taken, given up and exchanged), two leg lists.
  The theorems cover any number.
- `book_snapshot`: three days (an early close, a holiday, a session), one account, one
  trade and the remainder, a call of strike 1000. The casts: one session with
  three runs, two faults and vendor rows of each kind `EodMark` tells apart; partial
  syncs before and after the close; two jobs that overlap; two sessions with a
  row that is newer at the second read; a run of each step with a fault.
  The account, the trade and the contract are independent of one another in the
  job's statements, and the theorems cover any number of accounts and trades.

Where calls, events, fills or ids are used up nothing is left to do: `CenterSync`,
`CenterRead`, `Fill`, `FillBothWays`, `Executions`, `TradeBook`, `RuleChain`,
`StructureBook` and `BookSnapshot` switch the deadlock check off. `Control`,
`ControlNamedReply` and `State` keep it.

### Fairness, and why the code justifies it

- `control`: weak fairness of each daemon's `Poll` and `Start`. The daemon's main
  loop polls on every iteration, and a supervisor restarts a dead one.
- `state`: weak fairness of `Connect`, `Seed` and `PollRunStatus`. Every call of the
  main loop begins with `_ensure_redis`.
- `center_read`: weak fairness of the worker's calls that succeed and of its
  restart; the API's task syncs in a loop. Nothing is assumed of publishers,
  readers or faults.
- `trade_book`: strong fairness of each session's `Step`. A caller goes on until its
  call returns, and the server grants a contended lock in turn; with weak
  fairness a session could be passed over for ever at a lock others keep
  taking.

### What the properties excuse

An excuse is a state in which the code does not keep the promise. Each is a
history variable or a condition of the property, and each names a behaviour:

- `EachOnceInOrder`: two daemons at once, a failed XACK. `NoSilentLoss`: a trim, a
  flush, a crash after XACK, a failed requeue. `LampsAreRight`: a daemon that missed
  a heartbeat or lost its connection (`gap`).
- `NothingVanishes`, `NewestTellsStatus`: a failed materialization, a replay from
  `0-0`, and `Crossed`: a reader came by while a batch was gone through again, and its
  ZREM took the id of an item that had been put back. `NewestTellsStatus` also lets Ops
  speak for the service. `OneToastPerWindow` excuses nothing. `ReaderFindsAll`: a batch
  gone through again, and a fetch that stopped at four times its limit.
- `AttributedOnce`, `NoOrphan`: overlapping calls, `update_one_execution` and
  `insert_one_execution` (see Findings) and, for the orphan, a commit lost between
  the two databases.
- `RowsStayWhole`: a list sent alone. `OnlyListsDeadlock` names the pairs.
- `executions`: each property names its own: an aliased fill of an evening or
  without a date; a failed page read, which looks like the end; a quantity
  corrected after the fill was split; fills without a time or older than the
  look-back; a read at its limit. `FillsCountOnce` compares the rows with what the broker
  holds only where each fill of the contract counts as executed and no fill of another
  underlying beside it; that the rows are the fills the position counts, or the position,
  it says of all. `StatesAgree` asks for splits of one sign, for a trade's fills of a
  contract to be on one account, and that its positions count them and none of
  another underlying. It is about positions the broker lists: where it lists none (trades
  that offset each other, an option that expired) the page is empty whatever the
  state. `RiskIsTheWorst` asks for legs bought or sold and not both, of one expiry.
- `book_snapshot`: jobs that overlapped, an account with a partial sync, a session
  marked without its close or bounds.

## 4. Proofs

Each theorem is proved for all values of the constants that satisfy the named
assumption of its module (`ControlAssumption`, `StateAssumption`, `CenterAssumption`, `FillAssumption`,
`BookAssumption` of `TradeBook` and of `ExecutionBook`, `RuleAssumption`, `StructureAssumption`,
`SnapshotAssumption`), so the bounds above, the number of daemons, callers, plans,
rules, templates, accounts, jobs and runs, TTL, intervals and prices are arbitrary.

| Theorem | Says |
|---|---|
| `ControlTypes`, `ControlNoSilentLoss`, `ControlAtMostOnce`, `ControlInStreamOrder`, `ControlEachOnceInOrder` | the safety properties of `control`; the last joins the two before it |
| `StateTypes`, `StateOnlyResumeEnables`, `StateOnSchedule`, `StateDeadIsNoticed`, `StateGreenMeansResumed`, `StateLampsAreRight` | the safety properties of `state`, an action property among them; the last joins the three before it |
| `CenterTypes`, `NothingIsLost`, `OneToast`, `NewestIsTold`, `ReaderFinds` | the safety properties of `center_sync` and `center_read` |
| `FillTypes`, `FillNoTradeTwice`, `FillAttributedOnce`, `FillNoOrphan` | the safety properties of `fill` |
| `ExecutionTypes`, `ExecutionPending`, `ExecutionCountsOnce`, `ExecutionPages` | of `executions`: `PendingUntilFlex`, `FillsCountOnce`, `PagesAreTheBook`, and types |
| `PerformancePairs`, `PerformanceRanges`, `PerformanceAddsUp` | of `executions`: `PairsAreFifo`, `RangesAgree`, `TradesAddUp` |
| `ResultsStates`, `ResultsWinRate`, `ResultsRisk` | of `executions`: `StatesAgree`, `WinRateIsTheBook`, `RiskIsTheWorst` |
| `BookTypes`, `TradesStand`, `IntentsComplete`, `IntentsFrozen`, `BookKeepsLifecycle` | the safety properties of `trade_book`, and that it implements `PlanLifecycle` |
| `RuleTypes`, `RuleNothingElseStopsIt`, `RulePatchKeepsOthers`, `RuleRowsStayWhole`, `RuleOnlyListsDeadlock` | the properties of `rule_chain`, an action property among them, and types; `RuleWatchlistHasSymbols` is a half of `RuleRowsStayWhole` |
| `StructureTypes`, `StructureUsersAreNamed`, `StructureLegs`, `StructureDeactivated` | the properties of `structure_book`, two of them action properties |
| `SnapshotTypes`, `SnapshotBookIsTheClose`, `SnapshotNoStaleMark`, `SnapshotVendorGrade`, `SnapshotHistoryKept`, `SnapshotOneRead`, `SnapshotHeld` | the properties of `book_snapshot`, an action property among them, and its types |

**Control stream.** None of the properties is inductive. `ControlInv` adds to the
types: an entry's origin is an entry no later than itself, and a daemon holds an
id exactly between its read and the end of its poll (`Core`); pending ids are not
above the group's last id (`GroupOK`); whatever was executed is an entry, with
that entry's origin (`ExecutedOK`). `LossInv` strengthens `NoSilentLoss`: a copy
that is read and not acknowledged does not count, for it is still pending, and
what trimming took from the pending list is in `dropped`. `SingleInv` says that
without an overlap one daemon is up and reads new messages only when none is
pending; from it `OrderInv` orders what was executed before what is in hand,
before the pending ids, before the unread ones. `OnceInv` says the same of
copies: two copies of one command that could still be executed, or one beside
an executed one, have an excuse. One lemma per action and part, then PTL.

**State hash.** `HashInv` ties the fields to one another (`suspended` says "no"
only if the last order is Resume; a hash that is there has not expired and one
that is not has no fields; a heartbeat is not in the future). `DaemonInv` says
that a daemon that never lost its hold owes its first heartbeat now or is
`OnSchedule`: its next one is due before the threshold and before the hash
expires. The lemma `Threshold` bounds `AliveThreshold` from both sides and is the
only place where the clamping arithmetic is opened.

**Message center.** `CenterInv` adds to the types what each Redis key says of the others.
Events are published in order of time (`StreamOK`); a worker in a batch is past the offset
unless it replays from `0-0` (`WorkerOK`), and what it has read from the dedupe key is
still what the key says (`PrevOK`: time does not pass in a batch, and there is one worker).
An item expires with its event, and what is listed was put there (`ItemsOK`); a key
names an event of its status and lasts for the window or the item's life (`DedupeOK`).
Hence `ToastOK`, which is inductive where `OneToastPerWindow` is not: an item in the store is
the one its key names, or older than the window. `CoverOK` strengthens `NothingVanishes`
from the saved offset to what the worker has gone through: such an event is too old, or one
as new, of its status, is on show; that it be as *new* is what `NewestTellsStatus` needs,
with `SpokenOK`. `FreshOK` is why a reader prunes nothing that is there: until something
is gone through again, what it found without an item stays without one. `ReadOK` says
what an undisturbed reader has after each page, by rank. The rest is about
`NewestFirst`: that it lists a set in descending order (`RankBijection`,
`NewestFirstProperties`), is the only such sequence (`NewestFirstUnique`), is put together
from the newer part and the older (`NewestFirstConcat`), and that its slices are its ranks.

**Fill attribution.** `NoTradeTwice` is a property of committed rows, so the invariant
speaks of what is written and not committed: each pending write fits the rows
(`Fits`: the unique keys have nothing against it now), and any two are apart
(`Apart`: they neither drop the same row nor take a key the other takes or drops).
A statement that meets a pending row of another waits, which is what keeps `Apart`;
and a commit that is apart from a pending write leaves it fitting (`CommittedFits`).
`AttributedOnce` and `NoOrphan` are about calls one after another. `SerialInv`
carries what the only call has checked to its commit: the rows it will leave are
right (`WriteIsRight`), and a delete that keeps the attribution has a twin that
stands. That no two calls are under way rests on a finite set of sessions.

**Executions.** The book and its performance are proved of `SharedSpec`, the book under
`TradeResults`: the run checks `ResultSpec`, of which each step is one of `SharedNext` or
leaves the book alone (`ResultsShareTheBook`), so that the results have its invariants.
`ExecutionInv` says what ties the raw rows to what the broker did, for the views compare
rows of different sources and know the broker from none: a row is of the fill its id names,
in that fill's account and from a source that tells of it, and a Flex or TWS row has the
exec_id and the day its source gives (`OfItsFill`); a correction or a replacement leaves
that so. `StatementInv` is the other direction, that a statement leaves out no fill of the
days it covers unless its row was deleted. `ExecutionPending` needs both: of a fill that is
not on the fly, either its exec_id has a Flex row, or its day is one that Flex covers, and
then Flex has it. The excuse is where the day of UTC is not New York's (`Days`).

`ExecutionCountsOnce`: no two counted rows are of one fill, for a fill has one row in each
source and those of TWS count only where no other does. The sum of the rows of
`AttributionRows` is a sum by trades of sums by fills; `TotalBothWays` exchanges the
two, and by fills the parts of one are its whole (`PageAdds`; `PageOfNone` for a position
without fills). What the broker holds is a sum over its fills, which the counted rows
carry one to one once each is told (`BrokerHoldsIt`, with the side and the contract of a
row from `AmountsInv` below). The theory of folds over sets is the
one of `BookSnapshotProofs` with what a sum over a second index adds. That the splits of a
fill add up is the hypothesis of the property, for a corrected quantity leaves splits
that do not; that the trades be finitely many is an assumption, as there.

`ExecutionPages`: `Precedes` orders the keys totally, whatever parts are NULL, and what
`ExecutionsAfter` and `TransactionsAfter` keep after a cursor is what the cursor precedes.
Keys have places (`Place`), a finite set of n has the places 1 to n, and so `Newest` tells a
set in order and from the top (`NewestFacts`). `ReadInv` says of a reader on its way: what it
has is in order and not after its cursor, and a row that stood since the start is had or
comes after the cursor. A row that is written between the pages may be had or not and does not
enter; one that goes is not asked for any more.

**Performance.** `AmountsInv` is the second invariant of the book: a row has its fill's
contract and side and only TWS wrote those told as TWS's, its amounts are multiples of `Unit`, its
quantity divides it. `PerformancePairs`: lay the units of a side end to end in FIFO
order. Each round takes the first units that neither side has used, so after n rounds
both sides have used equally many, the quantity paired of two legs is the overlap
of their `Units` up to there, and a round that finds nothing has one side used up. When a
contract is flat every unit is paired, and the money follows. `PerformanceRanges`: a range
that begins flat has the same rounds, moved by the units before it (a prefix of the
order uses as many of one side as of the other); and the calendar is the whole book's,
for the look-back has all of it. `PerformanceAddsUp`: since amounts are
multiples, the shares of a fill's splits make up the whole (`Weighted` loses nothing to
rounding), and the book's total, by fills, by trades, by accounts or by types, is one
double sum taken by either index (`TotalByKey`). It has no hypothesis on the splits: the code
divides by their own total, whatever a correction has made of the quantity.

**Results.** `ResultsWinRate` is of the same kind: an option's slippage is a sum over links,
each in multiples of `Unit`, and a fill's moved money is shared out as the code shares
premium, commission, slippage and realized P&L one by one (`SliceIsShare`).
`ResultsStates`: `_LEGS_SQL` gives a split's absolute quantity the side of its fill, the
position page adds up the quantities as written. Splits whose absolute values and
whose values both add up to the fill have its side one by one (`SplitsHaveTheSide`), so
the two agree by contract (`HeldIs`). A row that a TWS fill loses to Flex is lost to it on
each position (`CountedIs`), so a fill is on an option position and names the trade just
when the trade has a leg (`ListedIs`), and the position of a fill's contract, of
whatever quantity, gives the trade something just when its leg has a net (`GivesIs`). If no
contract has a net, every fill is in some
pair (`AllPaired`, from the units above), so the last leg is the last pair (`ClosedOn`).
`ResultsRisk`: positions by strike and right pay what their fills pay (`PayoffIs`),
for a position that was bought or sold and not both cancels nothing. Between two prices
with no strike between them the worth is a line (`Line`), whose slope beyond the last
strike is the calls held (`SlopeBeyond`, and `CallsAre` on what `Unlimited` counts); so at
each price it is no lower than at one of `Grid` (`LowestAtABend`), and the rows of `Grid` are
prices. The theorem is of every number of legs, strikes and premiums.

**Trade book.** `BookInv` = `TypeOK`, `Locks` and the two invariants. `Locks` says
what each session's place protects: a plan is held by one session and is the row
that session has read (`PlanLocks`); the trade a session has looked at is still
on that account, or is gone (`TradesRead`); a trade that is about to be named, or
is locked to be closed, is there, and both at once only when it has a review,
which keeps it (`TradeLocks`); only a filled plan names a trade
(`OnlyFilledNames`). From that each action maps to a lifecycle step or a stutter,
hence `BookKeepsLifecycle`; `IntentsFrozen` follows from the refinement and a
lemma about `PlanLifecycle` alone (`LifeFreezes`).

**Rule objects.** `RuleInv` adds to the types: a row that is not there names no gate set
(`Blank`); no two sessions hold locks that exclude one another (`Mutex`); and of each
session (`SessionOK`) which calls can be at its step (`Where`), that the id it has
drawn is nobody else's, that its row is locked from its first statement on and
what it will name from `Share` on, that the row it is about to delete is unused
(`Used`), and that the params a patch has read are still the gate set's. The question
of a delete covers every use (`UnusedIsUnused`). From then on a call that comes to name
the row would hold it in share mode against the delete's own lock (`NamedStays`), and two
calls never write one row (`RowsApart`); so what a commit changes leaves the others as
they know the tables (`Stays`), the one lemma each commit owes (`OverKeeps`). That a
`DELETE` never empties the settings follows: at `Erase` nothing names its row.
`RulePatchKeepsOthers` is `SessionOK`'s last part, read at the commit.

`ListIsReplaced` needs to know what every call has seen of a list. `ListInv` says: what a
list call's DELETE saw is what its allocation still has, unless another meets it
(`ListOK`); two calls under way on one list of which one sends it alone are both `mixed`
(`Met`), and any other two exclude one another by the lock of the allocation's row; the
rules that a call will list are there and locked from `Share` to its commit. Deletes of
rules and allocations take rows off a list, and a call that meets one either waits for it
or is waited for (`ListedStays`, `RowStays`). Each action owes `ListOK` of its own session, of
the others (`OtherListOK`), and `Met`.

`OnlyListsDeadlock` is about locks: `HeldInv` says which ones a call at each step can have
(its row's, its foreign keys', list rows it has deleted or put in). Who waits wants a row
that another holds, and two calls that wait for each other are both past their
first lock (`WhoWaits`), where only an `unlink`, a `link` or an `erase` waits; `WhatBlocks`
says what for, and the pairs left over are those the property names.

**Structure book.** `StructureInv` = `TypeOK`, `Bare` (a template that is not there has
no legs), `Mutex` (no two sessions hold locks that exclude one another) and, for each
session, `SessionOK`: which calls can be at which step (`Steps`), what they hold
there (`Locks`), what they have read (`Reads`), what stands (`Rows`), whom the
setting names (`Setting`), and the property itself (`Unused`). `Reads` carries the
argument: the legs a session has read are among those the template has had since
its call began, and when it commits it either shares the template's row or keeps
the template its locked structure already has. Every step but a commit changes one
session alone, so two lemmas carry the invariant over the other sessions: one
for steps that leave the tables alone, one for commits, where `Mutex` says what the
others cannot hold. `StructureDeactivated` needs `Setting`: a setting that was not
locked to be emptied can name the structure only since.

**Book snapshot.** `SnapshotInv` says of what a job has read (`JobOK`) what will be
said of the rows once it has written them: balances at the close or later
(`AtClose`, `NavOK`, with `BrokerOK` tying the parts of an account row to its time),
rows of their session with the underlying's own close (`RowOK`), a mark that is
not stale wherever the session was not marked blind (`MarksOK`), Greeks that go
with their as-of while jobs run one after another (`Solo`, `GreeksOK`). The mark is
judged by the row as the SELECT read it and fills the row as it is now: `MarksOK`
holds because the underlying's close has one value, so both rows agree on it where
they have it. The arithmetic of the mark is one lemma (`EodMarkSound`), what an
UPDATE leaves of a row another (`FilledFields`), and `SnapshotHistoryKept` follows from
that one and the shape of the statements.

`OneReadPerBook` and `HeldIsThePositions` need more: `BookInv`. While jobs run one after
another the rows of an account and a session are the whole split of one position by one
choice of net fills (`Whole`), and alike in all that `enrich` goes by and fills
(`Alike`); what a capture holds is that already, for accounts that have no balances yet
(`CaptureOK`), and what an enrich holds is all there still is to fill (`EnrichOK`), so it
fills the rows of a book alike or not at all (`EnrichImage`). That a split adds up to its
position (`WholeAdds`) rests on what a fold over a set is: the community modules take the
elements in an order of their own, and `TableStep` shows that any could come first, by
a smallest set for which one could not (`OneByOne`). Sums that a one-to-one map
carries into each other agree (`SumAlong`): the rows with the trades, and the items of
the P&L with the rows at the prior close, whence `HeldAdds`. The reader's sum of what it
has read and what not is then the position times the move of one mark (`SumScaled`).
`SnapshotAssumption` asks that the trades be finitely many, as they are in a table; of an
infinite set a fold says nothing.

Only model-checked: every liveness property (`EventuallyReturned`,
`SuspendReaches`, `EventuallyCaughtUp`, `EveryCallReturns`), for liveness under
fairness is beyond the prover. Every safety property of a passing run is a theorem. Where
a proof needs an induction (over a stream, a
batch, a set's size) it takes the least counterexample of a set of naturals, for the
library's induction rules take an operator, which the provers cannot instantiate.

## 5. Findings

Where what the code does and what its text says part, a run shows it:

- `control_named_reply`: `consume_control` reads new messages only when the
  pending read is falsy (`persistence/redis_daemon_state.py:244`). A server that
  answers `[[stream, []]]` makes every poll return `None`, and no command is
  ever consumed, although entries published before the daemon starts "are still
  delivered".
- `fill_both_ways`: `patch_execution` releases the raw row's lock before the env
  commit (`portfolio/reader/accounts.py:1617`); two patches leave a fill both
  whole and split.

Met while modelling, not backed by a run of their own. Daemon and message
plumbing:

- `_connect_redis` reads the hash and seeds `suspended=True` in a second call
  (`persistence/postgres/postgres_sink.py:88`): a Resume in between is overwritten. It
  fails on the safe side (`OnlyResumeEnables` holds).
- `CONTROL_CMD_MAX_AGE_SEC`, said to bound a command's age, is used nowhere
  (`postgres_sink.py:493`); a refused command is published again and the result of
  that is not looked at (`postgres_sink.py:520`).
- The sink commits its Golden Source connection, then its env connection
  (`postgres_sink.py:196`): a failure between them rolls back one.
- `ib_operator/client.py:207` uses a name imported in another branch only.

Fills and their readers:

- Two deletes of a fill's twins each keep the attribution for the other's row
  (`portfolio/reader/accounts.py:1676`, `accounts.py:121`): it outlives the fill. A
  twin imported after the delete looked is the mirror case.
- Two callers who replace the splits of a fill's twins can leave splits of both:
  up to twice the fill (`accounts.py:214`).
- `update_one_execution` takes `fill_splits: null` for "replaced" and then sets a trade
  on a split fill (`accounts.py:1415`); `insert_one_execution` attributes the row it
  inserts without a look at the splits its fill has (`accounts.py:1107`); a corrected quantity leaves splits that no
  longer add up (`accounts.py:1369`).
- A fill both whole and split counts twice in a trade's state and not on the
  position page; one split with quantities of both signs is read differently by
  the two (`monitor/reader/instance_state.py:115`). The state adds up a trade's legs
  by contract (`instance_state.py:101`), the page by account too: a contract bought
  on one account and sold on the other is closed for one and held for the other.
- The position page joins an option's fills by account, expiry, right and strike and
  not by the underlying (`portfolio/reader/executions.py:1522`), which the
  lookup of a position's last fill does compare (`accounts.py:362`): a fill of another underlying on
  the same terms counts in the position, on both pages if both are held, and one Flex row of it
  hides the position's own TWS fills. `docs/DATABASE.md:349` takes the sum for
  "the trade's net fills on the contract". The page lists only positions that are
  not zero (`executions.py:1583`), so trades that offset each other at the broker, and an
  option that has expired and left it, are open or expired for the state and nowhere
  on the page.
- The writers date a fill by UTC (`accounts.py:775`), the on-the-fly view by New
  York (`persistence/postgres/brokerage_views.py:116`): an evening fill that Flex
  reports under another exec_id stays on the fly beside its Flex row, and both
  count. The calendar's days are UTC too, its range filter the trade date.
- Rows inserted by hand have no trade date, so a range of days leaves them out.
  Statistics drop fills without a time and count those of weight zero, the
  trade's summary does neither. Position attribution leaves out a contract's TWS
  fills once Flex has any row of it.
- The comment at `executions.py:55` tells an on-the-fly row by its contract; the view
  decides by fill and day (`brokerage_views.fly_rows_sql`), and `PendingUntilFlex` with it.
- A failed page read looks like the end of the list (`portfolio/reader/executions.py:539`).
- In the win rate a trade without fills in the range is a loss of zero, the
  underlying's cost is not limited to the range, and the part that is not options
  does not subtract commission. The max risk drops legs that are flat and does
  not look at expiries.
- The legs of an option-stock link are checked, then inserted
  (`portfolio/reader/option_stock_link.py:188`), and `delete_one_execution` leaves
  links to the row it deletes.

Plans and rules:

- `strategy_plan.py:19` says "There is no delete." beside `delete_plan`;
  `_SOURCE_KINDS` there (610) lacks two kinds the table's CHECK admits
  (`persistence/postgres/trade_ddl.py:124`); ON DELETE SET NULL on a plan's links
  changes a frozen plan (`trade_ddl.py:133`).
- A structure takes its template's legs whatever legs the payload has; a PUT
  without `is_active` or `version` resets both, and so reactivates a deactivated
  structure; a patch that turns a structure off leaves the daemon's setting; the
  setting may name a structure that is off, or be turned off meanwhile
  (`monitor/reader/strategy_structure_write.py:322`).
- `update_template` and `replace_template_legs` do not look at the row count after
  their first SELECT, and report success when the row has gone
  (`monitor/reader/template_config_write.py:213`). Two calls that exchange codes
  can wait for each other. `delete_template` may fail with the raw foreign key error.

Snapshot:

- A sync sets `updated_at` also when the net liquidation or the positions were
  missing (`persistence/postgres/accounts_sync.py:116`), and the capture takes the
  account for fresh by that time (`portfolio/snapshot/daily.py:339`): balances or
  positions of before the close are kept for good. `BookIsTheClose` excuses
  accounts with a partial sync.
- An option is marked without the intrinsic floor when the close of its underlying
  could not be read, and the mark is never revised (`daily.py:673`).
- `SplitRows` has no live-quote mark, though `split_rows` takes one (`daily.py:138`): no reader
  labels a row `quote_live` any more (`label_marks`), so a capture stores none. The
  comment at `portfolio/reader/snapshots.py:106`, by which a live quote at capture may be under
  its intrinsic value, is out of date.
- Two enrich runs at once can mix two sessions' Greeks under the grade "vendor".

## 6. Not modelled, and the plan

| Part | Why not yet, or not at all |
|---|---|
| On-demand registries | planned: `OnDemand`, ensure against prune (`core/realtime/on_demand_opt.py:153` removes what it saw stale two reads ago) |
| IB operator client | planned: `OperatorRpc`, a late answer against a timeout and a repeated request (`ib_operator/client.py:116`) |
| Quote readers and bridge, service health, Ops lease | planned after those |
| Golden Source sync | the account sync is in `BookSnapshot`, the fill upserts in `ExecutionBook`; the parsing of gateway messages and the rollback of two connections are not modelled |
| Portfolio model | the payoff is in `Payoff`; Black-Scholes is real-valued and out of reach, the aggregation of live positions a fold over one message |
| Schema and migrations | idempotent DDL text; the constraints writers lean on are in `TradeBook`, `FillAttribution`, `RuleChain` and `StructureBook`, the views in `ExecutionBook` |
| Configuration, metrics, single-statement readers, HTTP clients | no state of their own, or sequential and unit-tested |

Left out inside modelled parts: a plan's parent, structure and opportunity;
labels, times and tags of trades and reviews; two API processes sharing one
message consumer; the trimming of the message stream; a rule object's other
columns and the plans a deleted opportunity unlinks; a structure's version, name
and gate; of executions, rows without an exec_id, corrections of other columns
than the quantity and the account, commissions written apart from their fill,
page limits below one, unrealized results, equity curves and categories; a row
that was deleted and imported again gets its old id; the covered shares of
`portfolio/model/payoff.py:165`; of the snapshot, more than one contract.

Assumed of what is outside: the reads of one capture see one state of the broker
tables (one remote transaction); the vendor's row of a session only gets newer
and more complete; a client's answer to `XREADGROUP` is one of two forms.

Order of the work: the control stream and the state hash first, for they decide
whether the daemon trades; then fills and plans, where money is counted; then
the message center and the rule objects; then structures, the nightly history
and the readers of executions. These are done. Next `OnDemand` and
`OperatorRpc` (Redis, timeouts).
The theorems now cover every safety property of the runs; what is added to the model should
bring its own.
