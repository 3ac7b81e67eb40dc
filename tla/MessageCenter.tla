---------------------------- MODULE MessageCenter ----------------------------
(***************************************************************************)
(* The message center (core/message_center.py) for one connection slot: a  *)
(* socket service and Ops publish status changes to a stream; the API's    *)
(* worker, consumer monitor_api, turns them into items, an index and a     *)
(* dedupe key per status; a reader pages through the index.                *)
(*                                                                         *)
(* A pipeline is a MULTI and one step; every other Redis call is a step of *)
(* its own. Events are numbered in the order they were published, which is *)
(* also the order of occurred_at, hence of the index.                      *)
(***************************************************************************)
EXTENDS Integers, FiniteSets, Sequences, SequencesExt

CONSTANTS
    Statuses,       \* "connected" and the other connection statuses
    Batch,          \* count of sync_events_for_consumer
    ItemTtl,        \* MESSAGE_CENTER_TTL_SEC
    Window,         \* MESSAGE_CENTER_DEDUPE_WINDOW_SEC
    Limit,          \* limit of fetch_materialized_messages
    MaxEvents,      \* bound: events ever published
    MaxFaults,      \* bound: failed calls and crashes
    MaxFetches,     \* bound: fetches
    MaxTime         \* bound: the clock

ASSUME CenterAssumption ==
    /\ {"connected", "disconnected"} \subseteq Statuses /\ "none" \notin Statuses
    /\ {Batch, ItemTtl, Window, Limit} \subseteq Nat \ {0}
    /\ {MaxEvents, MaxFaults, MaxFetches, MaxTime} \subseteq Nat

VARIABLES
    events,         \* the stream, an event's id is its index
    alive,          \* the socket service's process is up
    last,           \* IbConnectionStatusTracker: the slot's last status
    offset,         \* the consumer's last id
    item,           \* when each event's item expires; 0 when there is none
    index,          \* the index zset
    dedupe,         \* dedupe key of each status: the id it holds, its expiry
    pc, pos, upto,  \* the worker: its step, its event, the end of its batch
    prev,           \* the worker: the id it read from the dedupe key
    fetch,          \* the reader: step, rank, ids of the page, results, stale
    spoken,         \* history: the newest event is this process's last status
    skipped,        \* history: an event was not materialized, its call failed
    redone,         \* history: a worker went through events again: since its
                    \* offset was not saved, or from 0-0
    quiet,          \* history: nothing was written since the fetch began
    fetches, faults, clock

service == <<alive, last, spoken>>
worker == <<pc, pos, upto, prev>>
store == <<item, index, dedupe>>
reader == <<fetch, fetches>>
centerVars == <<events, service, offset, store, worker, reader, skipped, redone,
                quiet, faults, clock>>

Ids == 1 .. Len(events)
NoFetch == [at |-> "idle", start |-> 0, ids |-> <<>>, out |-> <<>>, stale |-> {}]
NoStatus == "none"

Live(e) == item[e] > clock
Shown(e) == e \in index /\ Live(e)
Old(e) == clock - events[e].at >= ItemTtl
Status(e) == events[e].to

TypeOK ==
    /\ events \in Seq([from : Statuses \cup {"unknown"}, to : Statuses, at : Nat])
    /\ alive \in BOOLEAN /\ last \in Statuses \cup {NoStatus}
    /\ offset \in 0 .. Len(events)
    /\ item \in [1 .. MaxEvents -> Nat]
    /\ index \subseteq Ids
    /\ dedupe \in [Statuses -> [id : 0 .. Len(events), expires : Nat]]
    /\ pc \in {"down", "idle", "batch", "exec"}
    /\ pos \in 1 .. Len(events) + 1 /\ upto \in 0 .. Len(events)
    /\ prev \in 0 .. Len(events)
    /\ fetch \in [at : {"idle", "page", "get", "zrem"}, start : Nat, ids : Seq(Nat),
                 out : Seq(Nat), stale : SUBSET Nat]
    /\ {spoken, skipped, quiet} \subseteq BOOLEAN
    /\ redone \in {"nothing", "a batch", "everything"}
    /\ fetches \in Nat /\ faults \in Nat /\ clock \in Nat

Init ==
    /\ events = <<>> /\ offset = 0
    /\ alive = FALSE /\ last = NoStatus /\ spoken = FALSE
    /\ item = [e \in 1 .. MaxEvents |-> 0] /\ index = {}
    /\ dedupe = [s \in Statuses |-> [id |-> 0, expires |-> 0]]
    /\ pc = "idle" /\ prev = 0 /\ pos = 1 /\ upto = 0
    /\ fetch = NoFetch /\ quiet = FALSE
    /\ skipped = FALSE /\ redone = "nothing"
    /\ fetches = 0 /\ faults = 0 /\ clock = 0

Fault == faults < MaxFaults /\ faults' = faults + 1

-----------------------------------------------------------------------------
(* Publishers.                                                             *)

\* publish_system_message_event: XADD, or a failure nobody hears of.
Publish(from, to) ==
    \/ /\ Len(events) < MaxEvents
       /\ events' = Append(events, [from |-> from, to |-> to, at |-> clock])
       /\ UNCHANGED faults
    \/ Fault /\ UNCHANGED events

\* Mutant: the tracker announces nothing but a connection.
UpdateOnlyConnected(s) ==
    /\ alive /\ s # last
    /\ last' = s
    /\ IF s # "connected"
       THEN UNCHANGED <<events, spoken, faults>>
       ELSE /\ Publish(IF last = NoStatus THEN "unknown" ELSE last, s)
            /\ spoken' = (events' # events)
    /\ UNCHANGED <<alive, offset, store, worker, reader, skipped, redone, quiet, clock>>

\* IbConnectionStatusTracker.update with a changed status. The tracker remembers
\* the status before it publishes; a first status other than connected is silent.
Update(s) ==
    /\ alive /\ s # last
    /\ last' = s
    /\ IF last = NoStatus /\ s # "connected"
       THEN UNCHANGED <<events, spoken, faults>>
       ELSE /\ Publish(IF last = NoStatus THEN "unknown" ELSE last, s)
            /\ spoken' = (events' # events)
    /\ UNCHANGED <<alive, offset, store, worker, reader, skipped, redone, quiet, clock>>

StartService ==
    /\ ~alive
    /\ alive' = TRUE /\ last' = NoStatus
    /\ UNCHANGED <<events, spoken, offset, store, worker, reader, skipped, redone,
                   quiet, faults, clock>>

\* publish_ib_service_stopped_messages: Ops speaks for a slot that is connected,
\* or merely alive, in the health hash; the process may still report its own end.
OpsStop ==
    /\ alive
    /\ Publish("connected", "disconnected")
    /\ spoken' = (spoken /\ events' = events)
    /\ UNCHANGED <<alive, last, offset, store, worker, reader, skipped, redone, quiet,
                   clock>>

Exit ==
    /\ alive
    /\ alive' = FALSE /\ last' = NoStatus /\ spoken' = FALSE
    /\ UNCHANGED <<events, offset, store, worker, reader, skipped, redone, quiet,
                   faults, clock>>

-----------------------------------------------------------------------------
(* sync_events_for_consumer.                                               *)

\* Mutant: the offset is saved as soon as the batch is read.
SyncSavesFirst ==
    /\ pc = "idle" /\ offset < Len(events)
    /\ pos' = offset + 1
    /\ upto' = Min({offset + Batch, Len(events)})
    /\ offset' = Min({offset + Batch, Len(events)})
    /\ pc' = "batch"
    /\ UNCHANGED <<events, service, store, prev, reader, skipped, redone, quiet,
                   faults, clock>>

\* consumer_last_id and XREAD. A failed read of the offset counts as 0-0.
Sync ==
    /\ pc = "idle"
    /\ \E from \in {0, offset} :
          /\ from < Len(events)
          /\ IF from = offset THEN UNCHANGED <<faults, redone>>
                              ELSE Fault /\ redone' = "everything"
          /\ pos' = from + 1
          /\ upto' = Min({from + Batch, Len(events)})
    /\ pc' = "batch"
    /\ UNCHANGED <<events, service, offset, store, prev, reader, skipped, quiet, clock>>

\* materialize_stream_event: an event past its TTL is left out; otherwise the
\* dedupe key is read before the pipeline that replaces it.
ReadDedupe ==
    /\ pc = "batch" /\ pos <= upto
    /\ LET e == pos
           d == dedupe[Status(e)]
       IN  IF Old(e)
           THEN pos' = e + 1 /\ UNCHANGED <<pc, prev>>
           ELSE /\ prev' = IF d.expires > clock THEN d.id ELSE 0
                /\ pc' = "exec"
                /\ UNCHANGED pos
    /\ UNCHANGED <<events, service, offset, store, upto, reader, skipped, redone,
                   quiet, faults, clock>>

\* Mutant: the message the dedupe key names stays.
ReplacedNever == {}

\* The message the dedupe key named, unless it is this one.
Replaced == {prev} \ {0, pos}

\* What the pipeline sets besides the index: the item with what is left of its TTL
\* and the dedupe key.
PutItem(e) ==
    LET expiry == events[e].at + ItemTtl
    IN  /\ item' = [f \in DOMAIN item |-> IF f = e THEN expiry
                            ELSE IF f \in Replaced THEN 0 ELSE item[f]]
        /\ dedupe' = [dedupe EXCEPT ![Status(e)] =
                          [id |-> e, expires |-> Min({clock + Window, expiry})]]
        /\ pos' = e + 1 /\ prev' = 0 /\ pc' = "batch" /\ quiet' = FALSE
        /\ UNCHANGED <<events, service, offset, upto, reader, skipped, redone,
                       faults, clock>>

\* The pipeline of materialize_stream_event.
Materialize ==
    /\ pc = "exec"
    /\ index' = (index \ Replaced) \cup {pos}
    /\ PutItem(pos)

\* The GET or the pipeline fails: the event is skipped and the batch goes on.
MaterializeFails ==
    /\ pc = "exec" \/ (pc = "batch" /\ pos <= upto /\ ~Old(pos))
    /\ Fault
    /\ skipped' = TRUE
    /\ pos' = pos + 1 /\ prev' = 0
    /\ pc' = "batch"
    /\ UNCHANGED <<events, service, offset, store, upto, reader, redone,
                   quiet, clock>>

BatchOver == pos' = 1 /\ upto' = 0 /\ prev' = 0
BatchUnsaved == redone' = IF redone = "nothing" THEN "a batch" ELSE redone

\* Mutant: the id is saved only when the batch had something to show.
SaveOffsetIfShown ==
    /\ pc = "batch" /\ pos > upto
    /\ offset' = IF \E e \in offset + 1 .. upto : ~Old(e) THEN upto ELSE offset
    /\ pc' = "idle" /\ BatchOver
    /\ UNCHANGED <<events, service, store, reader, skipped, redone, quiet, faults,
                   clock>>

\* set_consumer_last_id, once the whole batch has been gone through; a failure is
\* only logged.
SaveOffset ==
    /\ pc = "batch" /\ pos > upto
    /\ \/ offset' = upto /\ UNCHANGED <<faults, redone>>
       \/ Fault /\ BatchUnsaved /\ UNCHANGED offset
    /\ pc' = "idle" /\ BatchOver
    /\ UNCHANGED <<events, service, store, reader, skipped, quiet, clock>>

CrashWorker ==
    /\ pc # "down" /\ Fault
    /\ pc' = "down" /\ BatchOver
    /\ IF pc = "idle" THEN UNCHANGED redone ELSE BatchUnsaved
    /\ UNCHANGED <<events, service, offset, store, reader, skipped, quiet, clock>>

StartWorker ==
    /\ pc = "down"
    /\ pc' = "idle"
    /\ UNCHANGED <<events, service, offset, store, pos, upto, prev, reader, skipped,
                   redone, quiet, faults, clock>>

-----------------------------------------------------------------------------
(* fetch_materialized_messages.                                            *)

\* Ids by rank, newest first.
Rank(S, e) == Cardinality({f \in S : f >= e})
NewestFirst(S) == [i \in 1 .. Cardinality(S) |-> CHOOSE e \in S : Rank(S, e) = i]
Slice(s, first, n) == SubSeq(s, first + 1, Min({first + n, Len(s)}))

FetchStart ==
    /\ fetch.at = "idle" /\ fetches < MaxFetches
    /\ fetch' = [NoFetch EXCEPT !.at = "page"]
    /\ fetches' = fetches + 1 /\ quiet' = TRUE
    /\ UNCHANGED <<events, service, offset, store, worker, skipped, redone, faults,
                   clock>>

\* ZREVRANGE of as many ids as are still wanted.
FetchPage ==
    /\ fetch.at = "page"
    /\ LET ids == Slice(NewestFirst(index), fetch.start, Limit - Len(fetch.out))
       IN  fetch' = [fetch EXCEPT !.ids = ids, !.at = IF ids = <<>> THEN "zrem" ELSE "get"]
    /\ UNCHANGED <<events, service, offset, store, worker, fetches, skipped, redone,
                   quiet, faults, clock>>

\* The page's items in one pipeline; an id without an item is stale.
FetchItems ==
    /\ fetch.at = "get"
    /\ LET out == fetch.out \o NewestFirst({e \in ToSet(fetch.ids) : Live(e)})
           start == fetch.start + Len(fetch.ids)
       IN  fetch' = [fetch EXCEPT !.out = out, !.start = start,
                !.stale = @ \cup {e \in ToSet(fetch.ids) : ~Live(e)},
                !.at = IF Len(out) < Limit /\ start < 4 * Limit THEN "page" ELSE "zrem"]
    /\ UNCHANGED <<events, service, offset, store, worker, fetches, skipped, redone,
                   quiet, faults, clock>>

\* Mutant: the last page read is pruned along with the stale ids.
FetchDonePage ==
    /\ fetch.at = "zrem"
    /\ index' = index \ (fetch.stale \cup ToSet(fetch.ids))
    /\ fetch' = NoFetch /\ quiet' = FALSE
    /\ UNCHANGED <<events, service, offset, item, dedupe, worker, fetches, skipped,
                   redone, faults, clock>>

\* ZREM of the stale ids; a failure is ignored.
FetchDone ==
    /\ fetch.at = "zrem"
    /\ \/ index' = index \ fetch.stale /\ UNCHANGED faults
       \/ fetch.stale # {} /\ Fault /\ UNCHANGED index
    /\ fetch' = NoFetch /\ quiet' = FALSE
    /\ UNCHANGED <<events, service, offset, item, dedupe, worker, fetches, skipped,
                   redone, clock>>

-----------------------------------------------------------------------------
(* Time passes between syncs, not in the middle of one.                    *)
Tick ==
    /\ clock < MaxTime
    /\ pc \in {"down", "idle"}
    /\ clock' = clock + 1 /\ quiet' = FALSE
    /\ UNCHANGED <<events, service, offset, store, worker, reader, skipped, redone,
                   faults>>

Next ==
    \/ \E s \in Statuses : Update(s)
    \/ StartService \/ OpsStop \/ Exit
    \/ Sync \/ ReadDedupe \/ Materialize \/ MaterializeFails
    \/ SaveOffset \/ CrashWorker \/ StartWorker
    \/ FetchStart \/ FetchPage \/ FetchItems \/ FetchDone
    \/ Tick

Spec == Init /\ [][Next]_centerVars

\* The API syncs in a loop and is restarted when it dies.
Fairness ==
    /\ WF_centerVars(Sync /\ faults' = faults)
    /\ WF_centerVars(ReadDedupe) /\ WF_centerVars(Materialize)
    /\ WF_centerVars(SaveOffset /\ faults' = faults)
    /\ WF_centerVars(StartWorker)
FairSpec == Spec /\ Fairness

-----------------------------------------------------------------------------
(* Properties.                                                             *)

CaughtUp == offset = Len(events) /\ pc = "idle"

\* A reader was there while a worker went through a batch again: an item is then deleted
\* and put back between the reader's calls, and the ZREM of the id it found no item for
\* takes the id of one that is there.
Crossed == redone = "a batch" /\ fetches > 0

\* An event the offset has passed is on show, or too old to be, or gave way to
\* another of its dedupe key that is; no crash and no unsaved offset makes one
\* vanish. (A call that failed, a replay from 0-0 cut short, or a reader that crosses a
\* batch gone through again, may.)
NothingVanishes ==
    \A e \in 1 .. offset :
        \/ Shown(e) \/ Old(e) \/ skipped \/ redone = "everything" \/ Crossed
        \/ \E f \in Ids : f # e /\ Status(f) = Status(e) /\ Shown(f)

\* The reader prunes ids it found no item for in a call of its own: an item in the
\* store can still be found through the index, unless a reader came by while a worker
\* went through events again.
ItemsAreListed ==
    redone = "nothing" \/ fetches = 0 => \A e \in Ids : Live(e) => e \in index

\* "suppressing repeated" messages: two messages of one dedupe key are on show only when
\* the earlier one's window has passed (Ops and the stopped process both report the end
\* of a connection), also while a worker dies, skips or starts over.
OneToastPerWindow ==
    \A e, f \in Ids : e < f /\ Status(e) = Status(f) /\ Shown(e) /\ Shown(f) =>
        clock - events[e].at >= Window

\* After a sync the newest message on show names the status the tracker holds,
\* whatever has been deduplicated, expired or rewound on the way, unless a
\* publish or a materialization failed, Ops has spoken for the service, or a reader
\* crossed a batch gone through again.
NewestTellsStatus ==
    /\ CaughtUp /\ ~skipped /\ redone # "everything" /\ ~Crossed
    /\ alive /\ spoken
    /\ ~Old(Len(events))
    => /\ Shown(Len(events))
       /\ Status(Max({e \in Ids : Shown(e)})) = last

\* A fetch nothing interferes with returns the newest messages, up to the limit; it gives
\* up when it has gone through four times as many ids.
FetchIsNewest ==
    fetch.at = "zrem" /\ quiet /\ (fetch.start < 4 * Limit \/ Len(fetch.out) = Limit) =>
        fetch.out = Slice(NewestFirst({e \in index : Live(e)}), 0, Limit)

\* Reading neither loses messages nor misses the newest: what the store holds stays
\* listed, and an undisturbed fetch has the newest (message_center.fetch_materialized_messages).
ReaderFindsAll == ItemsAreListed /\ FetchIsNewest

\* Every published event is gone through at last.
EventuallyCaughtUp == \A e \in 1 .. MaxEvents : (Len(events) >= e) ~> (offset >= e)
=============================================================================
