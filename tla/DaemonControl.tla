---------------------------- MODULE DaemonControl ----------------------------
(***************************************************************************)
(* The control half of the daemon IPC: the Monitor API publishes commands  *)
(* to a capped Redis stream and the trading daemon consumes them through a *)
(* consumer group (persistence/redis_daemon_state.py, and                  *)
(* TradingDaemonSink.poll_and_consume_control).                            *)
(*                                                                         *)
(* Every Redis call of a poll is a step of its own, so that publishers, a  *)
(* crash of the daemon, a lost reply, a failed XACK, a second daemon and a *)
(* flush of the server may fall between any two of them.                   *)
(***************************************************************************)
EXTENDS Integers, Sequences, FiniteSets

CONSTANTS
    Daemons,        \* daemon processes; all of them poll as consumer daemon_0
    Known,          \* the command words poll_and_consume_control accepts
    Words,          \* the words an API caller may publish
    Stop,           \* the word an unknown command turns into
    Filters,        \* the consume_only tuples a caller passes
    NoFilter,       \* consume_only=None
    MaxLen,         \* TRADING_CONTROL_MAXLEN
    NamedReply,     \* TRUE: XREADGROUP with id 0 names the stream even when
                    \* nothing is pending; FALSE: it answers with nothing
    MaxEntries,     \* bound: entries ever added to the stream
    MaxFaults       \* bound: crashes, failed calls, flushes and overlaps

ASSUME ControlAssumption ==
    /\ Stop \in Known
    /\ NoFilter \notin Filters
    /\ \A only \in Filters : only \subseteq Known
    /\ MaxLen \in Nat \ {0}
    /\ NamedReply \in BOOLEAN
    /\ MaxEntries \in Nat
    /\ MaxFaults \in Nat

VARIABLES
    log,            \* every entry ever added; an entry's id is its index
    stream,         \* the ids the stream still holds
    group,          \* the consumer group exists
    last,           \* the group's last delivered id
    pending,        \* the group's pending ids (delivered, not acknowledged)
    pc,             \* where each daemon is in poll_and_consume_control
    hand,           \* the id each daemon has read and not yet disposed of
    executed,       \* what the polls returned, in order
    faults,         \* number of faults so far
    ackFailed,      \* history: ids whose XACK failed after a read
    overlapped,     \* history: two daemons have been up together
    dropped         \* history: commands gone by trim, flush, crash or requeue

ctlVars == <<log, stream, group, last, pending, pc, hand, executed,
             faults, ackFailed, overlapped, dropped>>

\* origin is the id under which the API first published the command; a requeued
\* command keeps it, and gets a new id and a new created_at.
Entry == [word : Words \cup Known, origin : Nat]
Ids == DOMAIN log
None == 0

Up(d) == pc[d] # "down"
MinId(S) == CHOOSE i \in S : \A j \in S : i <= j

\* Ids the group has never handed out, and entries a poll can still be given.
Unread == {i \in stream : i > last}
Waiting == Unread \cup (stream \cap pending)

\* poll_and_consume_control: a word that is not in the list means stop.
Normalise(w) == IF w \in Known THEN w ELSE Stop

TypeOK ==
    /\ log \in Seq(Entry)
    /\ stream \in SUBSET Ids
    /\ group \in BOOLEAN
    /\ last \in Nat
    /\ pending \in SUBSET Ids
    /\ pc \in [Daemons -> {"down", "idle", "pending", "new", "ack", "blank", "deliver"}]
    /\ hand \in [Daemons -> {None} \cup Ids]
    /\ executed \in Seq([id : Nat, origin : Nat, word : Known])
    /\ faults \in Nat
    /\ ackFailed \in SUBSET Ids
    /\ overlapped \in BOOLEAN
    /\ dropped \in SUBSET Ids

Init ==
    /\ log = <<>>
    /\ stream = {}
    /\ group = FALSE
    /\ last = 0
    /\ pending = {}
    /\ pc = [d \in Daemons |-> "down"]
    /\ hand = [d \in Daemons |-> None]
    /\ executed = <<>>
    /\ faults = 0
    /\ ackFailed = {}
    /\ overlapped = FALSE
    /\ dropped = {}

-----------------------------------------------------------------------------
(* The stream.                                                             *)

\* XADD ... MAXLEN ~ n: append, then drop any number of the oldest entries as
\* long as n remain (approximate trimming removes whole nodes only).
Trimmed(S) == {T \in {{i \in S : i >= t} : t \in S} : T = S \/ Cardinality(T) >= MaxLen}

Xadd(e) ==
    /\ Len(log) < MaxEntries
    /\ log' = Append(log, e)
    /\ stream' \in Trimmed(stream \cup {Len(log) + 1})
    /\ dropped' = dropped \cup {log[i].origin : i \in Waiting \ stream'}

\* write_control_command / publish_trading_control by the API. A caller that
\* only publishes blank text, or finds Redis down, changes nothing.
Publish(w) ==
    /\ Xadd([word |-> w, origin |-> Len(log) + 1])
    /\ UNCHANGED <<group, last, pending, pc, hand, executed, faults,
                   ackFailed, overlapped>>

-----------------------------------------------------------------------------
(* One poll: ensure_control_group, XREADGROUP 0, XREADGROUP >, XACK, and   *)
(* the consume_only decision.                                              *)

\* Mutant: the group is created at id $ (only what comes later).
EnsureGroupAtTail(d) ==
    /\ pc[d] = "idle"
    /\ group' = TRUE
    /\ last' = IF group THEN last ELSE Len(log)
    /\ pc' = [pc EXCEPT ![d] = "pending"]
    /\ UNCHANGED <<log, stream, pending, hand, executed, faults,
                   ackFailed, overlapped, dropped>>

\* ensure_control_group: XGROUP CREATE from id 0, BUSYGROUP swallowed.
EnsureGroup(d) ==
    /\ pc[d] = "idle"
    /\ group' = TRUE
    /\ last' = IF group THEN last ELSE 0
    /\ pc' = [pc EXCEPT ![d] = "pending"]
    /\ UNCHANGED <<log, stream, pending, hand, executed, faults,
                   ackFailed, overlapped, dropped>>

\* Mutants: new messages are read before the pending ones, or instead of them.
ReadPendingLast(d) ==
    /\ pc[d] = "pending"
    /\ \/ /\ group /\ pending # {} /\ Unread = {}
          /\ hand' = [hand EXCEPT ![d] = MinId(pending)]
          /\ pc' = [pc EXCEPT ![d] = IF MinId(pending) \in stream THEN "ack" ELSE "blank"]
       \/ /\ pending = {} \/ Unread # {}
          /\ pc' = [pc EXCEPT ![d] = "new"]
          /\ UNCHANGED hand
    /\ UNCHANGED <<log, stream, group, last, pending, executed, faults,
                   ackFailed, overlapped, dropped>>

ReadPendingNever(d) ==
    /\ pc[d] = "pending"
    /\ pc' = [pc EXCEPT ![d] = "new"]
    /\ UNCHANGED <<log, stream, group, last, pending, hand, executed,
                   faults, ackFailed, overlapped, dropped>>

\* XREADGROUP with id 0: the oldest pending entry, if there is one (without
\* fields when the stream has trimmed it). Otherwise the code goes on to new
\* messages when the reply is falsy, and gives up when the reply names the
\* stream with no messages.
ReadPending(d) ==
    /\ pc[d] = "pending"
    /\ \/ /\ group /\ pending # {}
          /\ hand' = [hand EXCEPT ![d] = MinId(pending)]
          /\ pc' = [pc EXCEPT ![d] = IF MinId(pending) \in stream THEN "ack" ELSE "blank"]
       \/ /\ group /\ pending = {}
          /\ pc' = [pc EXCEPT ![d] = IF NamedReply THEN "idle" ELSE "new"]
          /\ UNCHANGED hand
       \/ /\ ~group                          \* NOGROUP: caught, returns None
          /\ pc' = [pc EXCEPT ![d] = "idle"]
          /\ UNCHANGED hand
    /\ UNCHANGED <<log, stream, group, last, pending, executed, faults,
                   ackFailed, overlapped, dropped>>

\* XREADGROUP with id >: the oldest unread entry becomes pending.
ReadNew(d) ==
    /\ pc[d] = "new"
    /\ \/ /\ group /\ Unread # {}
          /\ last' = MinId(Unread)
          /\ pending' = pending \cup {MinId(Unread)}
          /\ hand' = [hand EXCEPT ![d] = MinId(Unread)]
          /\ pc' = [pc EXCEPT ![d] = "ack"]
       \/ /\ ~group \/ Unread = {}
          /\ pc' = [pc EXCEPT ![d] = "idle"]
          /\ UNCHANGED <<last, pending, hand>>
    /\ UNCHANGED <<log, stream, group, executed, faults, ackFailed,
                   overlapped, dropped>>

\* XACK. An entry read without fields is acknowledged and the poll returns None.
AfterAck(d) ==
    IF pc[d] = "ack"
    THEN pc' = [pc EXCEPT ![d] = "deliver"] /\ UNCHANGED hand
    ELSE pc' = [pc EXCEPT ![d] = "idle"] /\ hand' = [hand EXCEPT ![d] = None]

Ack(d) ==
    /\ pc[d] \in {"ack", "blank"}
    /\ pending' = pending \ {hand[d]}
    /\ AfterAck(d)
    /\ UNCHANGED <<log, stream, group, last, executed, faults, ackFailed,
                   overlapped, dropped>>

\* The XACK raises; the exception is swallowed and the command is still returned.
AckFails(d) ==
    /\ pc[d] \in {"ack", "blank"}
    /\ faults < MaxFaults
    /\ faults' = faults + 1
    /\ ackFailed' = ackFailed \cup {hand[d]}
    /\ AfterAck(d)
    /\ UNCHANGED <<log, stream, group, last, pending, executed, overlapped,
                   dropped>>

\* consume_only admits the command (or is None): the poll returns it.
Return(d, only) ==
    /\ pc[d] = "deliver"
    /\ LET e == log[hand[d]]
       IN  /\ only # NoFilter => Normalise(e.word) \in only
           /\ executed' = Append(executed, [id |-> hand[d], origin |-> e.origin,
                                  word |-> Normalise(e.word)])
    /\ pc' = [pc EXCEPT ![d] = "idle"]
    /\ hand' = [hand EXCEPT ![d] = None]
    /\ UNCHANGED <<log, stream, group, last, pending, faults, ackFailed,
                   overlapped, dropped>>

\* consume_only refuses it: republish at the tail; the poll returns None.
Requeue(d, only) ==
    /\ pc[d] = "deliver"
    /\ only # NoFilter
    /\ Normalise(log[hand[d]].word) \notin only
    /\ Xadd([word |-> Normalise(log[hand[d]].word), origin |-> log[hand[d]].origin])
    /\ pc' = [pc EXCEPT ![d] = "idle"]
    /\ hand' = [hand EXCEPT ![d] = None]
    /\ UNCHANGED <<group, last, pending, executed, faults, ackFailed,
                   overlapped>>

\* The command in d's hand, unless the group will hand it out again.
LastCopy(d) == IF pc[d] = "deliver" /\ hand[d] \notin pending
               THEN {log[hand[d]].origin} ELSE {}

\* The republish fails; its result is not looked at.
RequeueFails(d, only) ==
    /\ pc[d] = "deliver"
    /\ only # NoFilter
    /\ Normalise(log[hand[d]].word) \notin only
    /\ faults < MaxFaults
    /\ faults' = faults + 1
    /\ dropped' = dropped \cup LastCopy(d)
    /\ pc' = [pc EXCEPT ![d] = "idle"]
    /\ hand' = [hand EXCEPT ![d] = None]
    /\ UNCHANGED <<log, stream, group, last, pending, executed, ackFailed,
                   overlapped>>

\* An XREADGROUP raises, with or without having taken effect on the server: the
\* poll returns None, and an entry it was handed stays pending.
ReadFails(d) ==
    /\ pc[d] \in {"pending", "new"}
    /\ faults < MaxFaults
    /\ faults' = faults + 1
    /\ \/ UNCHANGED <<last, pending>>
       \/ /\ pc[d] = "new" /\ group /\ Unread # {}
          /\ last' = MinId(Unread)
          /\ pending' = pending \cup {MinId(Unread)}
    /\ pc' = [pc EXCEPT ![d] = "idle"]
    /\ UNCHANGED <<log, stream, group, hand, executed, ackFailed,
                   overlapped, dropped>>

-----------------------------------------------------------------------------
(* Processes, the server and time.                                         *)

\* A daemon comes up. Starting while another one runs (an overlapping restart)
\* counts as a fault: deployments mean to run one daemon.
Start(d) ==
    /\ ~Up(d)
    /\ pc' = [pc EXCEPT ![d] = "idle"]
    /\ \/ /\ \A e \in Daemons : ~Up(e)
          /\ UNCHANGED <<faults, overlapped>>
       \/ /\ \E e \in Daemons : Up(e)
          /\ faults < MaxFaults
          /\ faults' = faults + 1
          /\ overlapped' = TRUE
    /\ UNCHANGED <<log, stream, group, last, pending, hand, executed,
                   ackFailed, dropped>>

\* The process dies between any two calls; a command it had acknowledged and
\* not yet acted on goes with it.
Crash(d) ==
    /\ Up(d)
    /\ faults < MaxFaults
    /\ faults' = faults + 1
    /\ dropped' = dropped \cup LastCopy(d)
    /\ pc' = [pc EXCEPT ![d] = "down"]
    /\ hand' = [hand EXCEPT ![d] = None]
    /\ UNCHANGED <<log, stream, group, last, pending, executed, ackFailed,
                   overlapped>>

\* The per-env Redis loses its data (restart without persistence).
Flush ==
    /\ faults < MaxFaults
    /\ faults' = faults + 1
    /\ dropped' = dropped \cup {log[i].origin : i \in Waiting}
    /\ stream' = {}
    /\ group' = FALSE
    /\ last' = 0
    /\ pending' = {}
    /\ UNCHANGED <<log, pc, hand, executed, ackFailed, overlapped>>

Poll(d) ==
    \/ EnsureGroup(d) \/ ReadPending(d) \/ ReadNew(d) \/ Ack(d)
    \/ \E only \in Filters \cup {NoFilter} : Return(d, only) \/ Requeue(d, only)

Next ==
    \/ \E w \in Words : Publish(w)
    \/ \E d \in Daemons :
          \/ Start(d) \/ Crash(d)
          \/ Poll(d)
          \/ AckFails(d) \/ ReadFails(d)
          \/ \E only \in Filters : RequeueFails(d, only)
    \/ Flush

Spec == Init /\ [][Next]_ctlVars

\* The daemon's main loop polls on every iteration, and a dead daemon is
\* restarted by its supervisor.
Fairness == \A d \in Daemons : WF_ctlVars(Poll(d)) /\ WF_ctlVars(Start(d))
FairSpec == Spec /\ Fairness

-----------------------------------------------------------------------------
(* Properties.                                                             *)

\* publish_control / consume_control: a command the API got into the stream is
\* waiting there, held by a daemon or returned by a poll, unless a trim, a
\* flush, a crash after XACK or a failed requeue took its last copy.
NoSilentLoss ==
    \A c \in Ids : log[c].origin = c =>
        \/ \E i \in Waiting : log[i].origin = c
        \/ \E d \in Daemons : hand[d] # None /\ log[hand[d]].origin = c
        \/ \E k \in DOMAIN executed : executed[k].origin = c
        \/ c \in dropped

\* consume_control acknowledges before it returns: no command is returned by two
\* polls (not even after a crash, a lost reply or a requeue) unless one of its
\* XACKs failed or two daemons polled as the same consumer.
AtMostOnce ==
    \A j, k \in DOMAIN executed :
        j # k /\ executed[j].origin = executed[k].origin =>
            overlapped \/ \E i \in ackFailed : log[i].origin = executed[j].origin

\* consume_control drains what an earlier poll left pending before it reads new
\* messages: a single daemon, restarted or not, acts on the stream's entries in
\* stream order.
InStreamOrder ==
    \A j, k \in DOMAIN executed :
        j < k /\ ~overlapped => executed[j].id <= executed[k].id

\* A command is acted on once and in its turn, whatever crashes, trims, requeues and failed
\* acknowledgements come between the polls of consume_control.
EachOnceInOrder == AtMostOnce /\ InStreamOrder

\* ensure_control_group starts at id 0 "so commands published before the daemon
\* starts are still delivered", and pending entries are drained: once faults and
\* publishing stop, a command still in the stream is eventually returned.
EventuallyReturned ==
    \A c \in 1..MaxEntries :
        (c \in Ids /\ log[c].origin = c)
            ~> \/ \E k \in DOMAIN executed : executed[k].origin = c
               \/ c \in dropped
=============================================================================
