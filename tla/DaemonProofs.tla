---------------------------- MODULE DaemonProofs ----------------------------
(***************************************************************************)
(* Theorems about the two halves of the daemon IPC, which share no key:    *)
(* the control stream (DaemonControl), for any number of daemons, any      *)
(* command words and filters, any stream cap and any bound on faults and   *)
(* entries; and the state hash (DaemonState), for any TTL, floor and       *)
(* intervals.                                                              *)
(***************************************************************************)
EXTENDS DaemonControl, DaemonState, TLAPS, WellFoundedInduction

-----------------------------------------------------------------------------
(***************************************************************************)
(* The control stream.                                                     *)
(***************************************************************************)

(* Helpers: least id, appending to the log.                                *)

\* XREADGROUP COUNT 1 returns an entry of the set it reads, the oldest one.
LEMMA MinIdIsLeast ==
    ASSUME NEW S \in SUBSET Nat, S # {}
    PROVE  MinId(S) \in S /\ \A j \in S : MinId(S) <= j
<1>1. PICK x \in S : \A y \in S : ~(<<y, x>> \in OpToRel(<, Nat))
  BY NatLessThanWellFounded, WFMin, Zenon
<1>2. \A y \in S : ~(y < x)
  BY <1>1, Zenon DEF OpToRel
<1>3. \A y \in S : x <= y
  BY <1>2
<1> QED
  BY <1>3 DEF MinId

\* The effect of XADD on ids: one new id, larger than every other, that the
\* trim keeps; old entries are untouched.
LEMMA XaddFacts ==
    ASSUME TypeOK, NEW e \in Entry, Xadd(e)
    PROVE  /\ log' \in Seq(Entry)
           /\ Len(log') = Len(log) + 1
           /\ DOMAIN log' = DOMAIN log \cup {Len(log) + 1}
           /\ Len(log) + 1 \notin DOMAIN log
           /\ log'[Len(log) + 1] = e
           /\ \A i \in DOMAIN log : log'[i] = log[i]
           /\ stream' \subseteq stream \cup {Len(log) + 1}
           /\ Len(log) + 1 \in stream'
<1>1. /\ log' \in Seq(Entry)
      /\ Len(log') = Len(log) + 1
      /\ DOMAIN log' = DOMAIN log \cup {Len(log) + 1}
      /\ Len(log) + 1 \notin DOMAIN log
      /\ log'[Len(log) + 1] = e
      /\ \A i \in DOMAIN log : log'[i] = log[i]
  BY DEF Xadd, TypeOK
<1>2. PICK t \in stream \cup {Len(log) + 1} :
         stream' = {i \in stream \cup {Len(log) + 1} : i >= t}
  BY DEF Xadd, Trimmed
<1>3. \A i \in stream : i \in 1..Len(log)
  BY DEF TypeOK, Ids
<1> QED
  BY <1>1, <1>2, <1>3

-----------------------------------------------------------------------------
(* Type correctness.                                                       *)

\* The words a poll returns are known words: Normalise maps the rest to stop.
LEMMA NormaliseType == \A w : Normalise(w) \in Known
  BY ControlAssumption DEF Normalise

LEMMA WaitingIds ==
    ASSUME TypeOK
    PROVE  /\ Ids = 1..Len(log) /\ Len(log) \in Nat
           /\ \A i \in Ids : log[i] \in Entry
           /\ Unread \in SUBSET Nat /\ pending \in SUBSET Nat /\ stream \in SUBSET Nat
           /\ Unread \subseteq Ids /\ Waiting \subseteq Ids
  BY DEF TypeOK, Ids, Unread, Waiting

\* An entry's origin is an earlier id or its own.
OriginOK == \A i \in Ids : log[i].origin \in 1..i

\* A daemon holds an id exactly between the read and the end of the poll.
HandOK == \A d \in Daemons :
              hand[d] \in Ids <=> pc[d] \in {"ack", "blank", "deliver"}

Core == TypeOK /\ OriginOK /\ HandOK

LEMMA CoreInit == Init => Core
<1> SUFFICES ASSUME Init PROVE Core
  OBVIOUS
<1>1. Ids = {}
  BY DEF Init, Ids
<1>2. log \in Seq(Entry) /\ executed \in Seq([id : Nat, origin : Nat, word : Known])
  BY DEF Init
<1>3. TypeOK
  BY <1>1, <1>2 DEF Init, TypeOK, None
<1>4. OriginOK /\ HandOK
  BY <1>1 DEF Init, OriginOK, HandOK
<1> QED
  BY <1>3, <1>4 DEF Core

LEMMA CorePublish ==
    ASSUME Core, NEW w \in Words, Publish(w)
    PROVE  Core'
<1> DEFINE e == [word |-> w, origin |-> Len(log) + 1]
<1>0. TypeOK BY DEF Core
<1>1. e \in Entry /\ Xadd(e)
  BY <1>0, WaitingIds DEF Entry, Publish, TypeOK
<1>2. /\ log' \in Seq(Entry) /\ Ids' = Ids \cup {Len(log) + 1}
      /\ Len(log) + 1 \notin Ids
      /\ \A i \in Ids : log'[i] = log[i]
      /\ log'[Len(log) + 1] = e
      /\ stream' \subseteq stream \cup {Len(log) + 1}
  <2> HIDE DEF e
  <2> QED BY <1>0, <1>1, XaddFacts DEF Ids
<1>3. dropped' \in SUBSET Ids'
  BY <1>0, <1>1, <1>2, WaitingIds DEF Xadd, OriginOK, TypeOK, Core
<1>4. TypeOK'
  BY <1>0, <1>2, <1>3 DEF Publish, TypeOK
<1>5. OriginOK'
  BY <1>0, <1>2, WaitingIds DEF OriginOK, Core
<1>6. HandOK'
  BY <1>0, <1>2, WaitingIds DEF HandOK, Core, TypeOK, Publish, None
<1> QED
  BY <1>4, <1>5, <1>6 DEF Core

LEMMA CoreRead ==
    ASSUME Core, NEW d \in Daemons,
           EnsureGroup(d) \/ ReadPending(d) \/ ReadNew(d) \/ ReadFails(d)
    PROVE  Core'
<1>0. TypeOK BY DEF Core
<1>1. Unread # {} => MinId(Unread) \in Ids
  BY <1>0, WaitingIds, MinIdIsLeast
<1>2. pending # {} => MinId(pending) \in Ids
  BY <1>0, WaitingIds, MinIdIsLeast DEF TypeOK
<1>3. /\ log' = log /\ stream' = stream /\ Ids' = Ids
      /\ Ids \subseteq Nat
  BY <1>0, WaitingIds DEF EnsureGroup, ReadPending, ReadNew, ReadFails, Ids
<1>4. TypeOK'
  <2>1. CASE EnsureGroup(d)
    BY <1>0, <1>3, <2>1 DEF EnsureGroup, TypeOK
  <2>2. CASE ReadPending(d)
    BY <1>0, <1>2, <1>3, <2>2 DEF ReadPending, TypeOK
  <2>3. CASE ReadNew(d)
    BY <1>0, <1>1, <1>3, <2>3 DEF ReadNew, TypeOK
  <2>4. CASE ReadFails(d)
    <3>1. Ids' = Ids
      BY <1>3
    <3>2. faults' \in Nat
      BY <1>0, <2>4 DEF ReadFails, TypeOK
    <3>3. last' \in Nat /\ pending' \in SUBSET Ids
      BY <1>0, <1>1, <1>3, <2>4 DEF ReadFails, TypeOK
    <3>4. pc' \in [Daemons -> {"down", "idle", "pending", "new", "ack", "blank", "deliver"}]
      BY <1>0, <2>4 DEF ReadFails, TypeOK
    <3>5. UNCHANGED <<log, stream, group, hand, executed, ackFailed, overlapped, dropped>>
      BY <2>4 DEF ReadFails
    <3> QED BY <1>0, <3>1, <3>2, <3>3, <3>4, <3>5 DEF TypeOK
  <2> QED BY <2>1, <2>2, <2>3, <2>4
<1>5. OriginOK' /\ HandOK'
  BY <1>0, <1>1, <1>2, <1>3
  DEF EnsureGroup, ReadPending, ReadNew, ReadFails, TypeOK, OriginOK, HandOK, Core
<1> QED
  BY <1>4, <1>5 DEF Core

LEMMA CoreAck ==
    ASSUME Core, NEW d \in Daemons, Ack(d) \/ AckFails(d)
    PROVE  Core'
<1>1. Ids' = Ids /\ Ids \subseteq Nat \ {0} /\ log' = log
  BY WaitingIds DEF Ack, AckFails, Ids, Core
<1>2. hand[d] \in Ids
  BY DEF Ack, AckFails, Core, HandOK
<1>3. TypeOK'
  <2>1. CASE Ack(d)
    BY <1>1, <2>1 DEF Ack, AfterAck, TypeOK, Core, None
  <2>2. CASE AckFails(d)
    <3>0. TypeOK /\ Ids' = Ids
      BY <1>1 DEF Core
    <3>1. faults' \in Nat /\ ackFailed' \in SUBSET Ids
      BY <1>2, <2>2, <3>0 DEF AckFails, TypeOK
    <3>2. pc' \in [Daemons -> {"down", "idle", "pending", "new", "ack", "blank", "deliver"}]
      BY <2>2, <3>0 DEF AckFails, AfterAck, TypeOK
    <3>3. hand' \in [Daemons -> {None} \cup Ids]
      BY <2>2, <3>0 DEF AckFails, AfterAck, TypeOK
    <3>4. UNCHANGED <<log, stream, group, last, pending, executed, overlapped, dropped>>
      BY <2>2 DEF AckFails
    <3> QED BY <3>0, <3>1, <3>2, <3>3, <3>4 DEF TypeOK
  <2> QED BY <2>1, <2>2
<1>4. OriginOK' /\ HandOK'
  BY <1>1 DEF Ack, AckFails, AfterAck, TypeOK, OriginOK, HandOK, Core, None
<1> QED
  BY <1>3, <1>4 DEF Core

LEMMA CoreReturn ==
    ASSUME Core, NEW d \in Daemons, NEW only, Return(d, only)
    PROVE  Core'
<1>1. Ids' = Ids /\ Ids \subseteq Nat \ {0} /\ log' = log
  BY WaitingIds DEF Return, Ids, Core
<1>2. hand[d] \in Nat /\ log[hand[d]] \in Entry
  BY <1>1, WaitingIds DEF Return, HandOK, Core
<1>3. executed' \in Seq([id : Nat, origin : Nat, word : Known])
  BY <1>2, NormaliseType DEF Return, TypeOK, Core, Entry
<1> QED
  BY <1>1, <1>3 DEF Return, TypeOK, OriginOK, HandOK, Core, None

LEMMA CoreRequeue ==
    ASSUME Core, NEW d \in Daemons, NEW only, Requeue(d, only)
    PROVE  Core'
<1> DEFINE e == [word |-> Normalise(log[hand[d]].word),
                 origin |-> log[hand[d]].origin]
<1>0. TypeOK BY DEF Core
<1>1. hand[d] \in Ids /\ log[hand[d]].origin \in 1..hand[d]
  BY DEF Requeue, Core, HandOK, OriginOK
<1>2. e \in Entry /\ Xadd(e)
  BY <1>0, <1>1, WaitingIds, NormaliseType DEF Entry, Requeue, TypeOK
<1>3. /\ log' \in Seq(Entry) /\ Ids' = Ids \cup {Len(log) + 1}
      /\ Len(log) + 1 \notin Ids
      /\ \A i \in Ids : log'[i] = log[i]
      /\ log'[Len(log) + 1] = e
      /\ stream' \subseteq stream \cup {Len(log) + 1}
  <2> HIDE DEF e
  <2> QED BY <1>0, <1>2, XaddFacts DEF Ids
<1>4. dropped' \in SUBSET Ids'
  BY <1>0, <1>2, <1>3, WaitingIds DEF Xadd, OriginOK, TypeOK, Core
<1>5. TypeOK'
  BY <1>0, <1>3, <1>4 DEF Requeue, TypeOK
<1>6. OriginOK'
  BY <1>0, <1>1, <1>3, WaitingIds DEF OriginOK, Core
<1>7. HandOK'
  BY <1>0, <1>3, WaitingIds DEF HandOK, Core, TypeOK, Requeue, None
<1> QED
  BY <1>5, <1>6, <1>7 DEF Core

LEMMA CoreProcess ==
    ASSUME Core,
           \/ \E d \in Daemons : Start(d) \/ Crash(d)
           \/ \E d \in Daemons : \E only \in Filters : RequeueFails(d, only)
           \/ Flush \/ UNCHANGED ctlVars
    PROVE  Core'
<1>1. Ids' = Ids /\ Ids \subseteq Nat \ {0} /\ log' = log
  BY WaitingIds DEF Start, Crash, RequeueFails, Flush, ctlVars, Ids, Core
<1>2. Waiting \subseteq Ids
  BY WaitingIds DEF Core
<1>3. \A d \in Daemons : LastCopy(d) \subseteq Ids
  BY <1>1 DEF LastCopy, Core, HandOK, OriginOK, TypeOK, Ids
<1>4. \A i \in Waiting : log[i].origin \in Ids
  BY <1>2 DEF Core, OriginOK, TypeOK, Ids
<1>5. dropped \in SUBSET Ids
  BY DEF Core, TypeOK
<1>6. TypeOK'
  <2>0. TypeOK /\ Ids' = Ids
    BY <1>1 DEF Core
  <2>1. CASE \E d \in Daemons : Start(d)
    <3>0. faults' \in Nat
      BY <2>0, <2>1 DEF Start, TypeOK
    <3>1. overlapped' \in BOOLEAN
      BY <2>0, <2>1, Zenon DEF Start, TypeOK
    <3>2. pc' \in [Daemons -> {"down", "idle", "pending", "new", "ack", "blank", "deliver"}]
      BY <2>0, <2>1 DEF Start, TypeOK
    <3>3. UNCHANGED <<log, stream, group, last, pending, hand, executed, ackFailed, dropped>>
      BY <2>1 DEF Start
    <3> QED BY <2>0, <3>0, <3>1, <3>2, <3>3 DEF TypeOK
  <2>2. ASSUME NEW d \in Daemons, Crash(d) PROVE TypeOK'
    <3>1. LastCopy(d) \subseteq Ids BY <1>3
    <3> QED BY <2>0, <2>2, <3>1 DEF Crash, TypeOK
  <2>3. ASSUME NEW d \in Daemons, NEW only \in Filters, RequeueFails(d, only) PROVE TypeOK'
    <3>1. LastCopy(d) \subseteq Ids BY <1>3
    <3> QED BY <2>0, <2>3, <3>1 DEF RequeueFails, TypeOK
  <2>4. CASE Flush
    <3>1. dropped' \in SUBSET Ids
      BY <1>4, <1>5, <2>4 DEF Flush
    <3>2. faults' \in Nat
      BY <2>0, <2>4 DEF Flush, TypeOK
    <3>4. group' = FALSE /\ last' = 0 /\ stream' = {} /\ pending' = {}
      BY <2>4 DEF Flush
    <3>3. UNCHANGED <<log, pc, hand, executed, ackFailed, overlapped>>
      BY <2>4 DEF Flush
    <3> QED BY <2>0, <3>1, <3>2, <3>3, <3>4 DEF TypeOK
  <2>5. CASE UNCHANGED ctlVars
    BY <2>0, <2>5 DEF ctlVars, TypeOK
  <2> QED BY <2>1, <2>2, <2>3, <2>4, <2>5
<1>7. OriginOK' /\ HandOK'
  BY <1>1
  DEF Start, Crash, RequeueFails, Flush, ctlVars, Core, TypeOK, OriginOK, HandOK, None, Up
<1> QED
  BY <1>6, <1>7 DEF Core

LEMMA CoreStep == Core /\ [Next]_ctlVars => Core'
<1> SUFFICES ASSUME Core, [Next]_ctlVars PROVE Core'
  OBVIOUS
<1> QED
  BY CorePublish, CoreRead, CoreAck, CoreReturn, CoreRequeue, CoreProcess
  DEF Next, Poll

\* DaemonControl keeps its types: ids name logged entries, a returned word is a
\* known one, and every daemon is at a point of poll_and_consume_control.
THEOREM ControlTypes == Spec => []TypeOK
<1>1. Core => TypeOK
  BY DEF Core
<1> QED
  BY <1>1, CoreInit, CoreStep, PTL DEF Spec

-----------------------------------------------------------------------------
(* The inductive strengthenings of the three safety properties.            *)

GroupOK ==
    /\ last \in 0..Len(log)
    /\ \A p \in pending : p <= last
    /\ ~group => last = 0

ExecutedOK ==
    \A k \in DOMAIN executed :
        executed[k].id \in Ids /\ executed[k].origin = log[executed[k].id].origin

\* NoSilentLoss without the copies that are only read, not yet acknowledged: an
\* unacknowledged read leaves the entry pending, so a crash loses nothing.
Safe(c) ==
    \/ \E i \in Waiting : log[i].origin = c
    \/ \E d \in Daemons : pc[d] = "deliver" /\ log[hand[d]].origin = c
    \/ \E k \in DOMAIN executed : executed[k].origin = c
    \/ c \in dropped

TrimmedPendingDropped == \A p \in pending \ stream : log[p].origin \in dropped

BlankGone == \A d \in Daemons : pc[d] = "blank" => hand[d] \notin stream

LossInv ==
    /\ TrimmedPendingDropped
    /\ BlankGone
    /\ \A c \in Ids : log[c].origin = c => Safe(c)

\* One daemon at a time, and it reads new messages only when none is pending.
SingleInv == ~overlapped =>
    /\ \A d, e \in Daemons : Up(d) /\ Up(e) => d = e
    /\ \A d \in Daemons : pc[d] = "new" => pending = {}

\* Returned ids come before the id in hand, which comes before pending ids,
\* which come before unread ones.
OrderInv == ~overlapped =>
    /\ \A k \in DOMAIN executed :
          /\ \A i \in Unread : executed[k].id < i
          /\ \A p \in pending : executed[k].id <= p
          /\ \A d \in Daemons : hand[d] # None => executed[k].id <= hand[d]
    /\ \A d \in Daemons : hand[d] # None =>
          /\ \A i \in Unread : hand[d] < i
          /\ \A p \in pending : hand[d] <= p
    /\ \A j, k \in DOMAIN executed : j < k => executed[j].id <= executed[k].id

\* The origins whose duplication AtMostOnce excuses.
Excused(c) == overlapped \/ \E i \in ackFailed : log[i].origin = c

\* An origin that is not excused has one carrier: an entry still to be handed
\* out, an acknowledged hand, or a returned command.
Offered == Unread \cup pending
OnceInv ==
    /\ \A i, j \in Offered :
          i # j /\ log[i].origin = log[j].origin => Excused(log[i].origin)
    /\ \A i \in Offered, k \in DOMAIN executed :
          log[i].origin = executed[k].origin => Excused(log[i].origin)
    /\ \A d \in Daemons : hand[d] # None =>
          /\ \A k \in DOMAIN executed :
                log[hand[d]].origin = executed[k].origin => Excused(executed[k].origin)
          /\ \A i \in Offered :
                /\ log[hand[d]].origin = log[i].origin
                /\ i # hand[d] \/ pc[d] = "deliver"
                => Excused(log[i].origin)
    /\ AtMostOnce

ControlInv == Core /\ GroupOK /\ ExecutedOK /\ LossInv /\ SingleInv /\ OrderInv /\ OnceInv

-----------------------------------------------------------------------------
(* What the steps that add an entry (Publish, Requeue) do to the rest.     *)

LEMMA AddedEntry ==
    ASSUME Core, GroupOK, NEW e \in Entry, Xadd(e), UNCHANGED <<last, pending>>,
           NEW n, n = Len(log) + 1
    PROVE  /\ n \in Nat /\ n \notin Ids /\ Ids' = Ids \cup {n} /\ Len(log') = n
           /\ \A i \in Ids : log'[i] = log[i] /\ i < n
           /\ log'[n] = e
           /\ Unread' \subseteq Unread \cup {n} /\ n \in Unread'
           /\ stream' \subseteq stream \cup {n}
           /\ Waiting' \subseteq Waiting \cup {n} /\ n \in Waiting'
           /\ \A i \in Waiting : i \in Waiting' \/ log[i].origin \in dropped'
           /\ dropped \subseteq dropped'
<1>0. TypeOK BY DEF Core
<1>1. /\ Len(log') = n /\ Ids' = Ids \cup {n} /\ n \notin Ids /\ log'[n] = e
      /\ \A i \in Ids : log'[i] = log[i]
      /\ stream' \subseteq stream \cup {n} /\ n \in stream'
  BY <1>0, XaddFacts DEF Ids
<1>2. n \in Nat /\ (\A i \in Ids : i < n /\ i \in Nat) /\ last < n /\ last \in Nat
  BY <1>0, WaitingIds DEF GroupOK, TypeOK
<1>3. n \in Unread' /\ Unread' \subseteq Unread \cup {n}
  BY <1>1, <1>2 DEF Unread
<1>4. /\ dropped \subseteq dropped'
      /\ \A i \in Waiting : i \in stream' \/ log[i].origin \in dropped'
  BY DEF Xadd
<1>5. /\ Waiting' \subseteq Waiting \cup {n} /\ n \in Waiting'
      /\ \A i \in Waiting : i \in stream' => i \in Waiting'
  BY <1>1, <1>3 DEF Waiting, Unread
<1> QED
  BY <1>1, <1>2, <1>3, <1>4, <1>5

\* Publish and Requeue in the form AddedEntry needs.
LEMMA PublishAdds ==
    ASSUME Core, NEW w \in Words, Publish(w)
    PROVE  \E e \in Entry : e.origin = Len(log) + 1 /\ Xadd(e)
<1>1. [word |-> w, origin |-> Len(log) + 1] \in Entry
  BY WaitingIds DEF Entry, Core, TypeOK
<1> QED
  BY <1>1 DEF Publish

LEMMA RequeueAdds ==
    ASSUME Core, NEW d \in Daemons, NEW only, Requeue(d, only)
    PROVE  \E e \in Entry : e.origin = log[hand[d]].origin /\ Xadd(e)
<1>1. log[hand[d]] \in Entry
  BY WaitingIds DEF Core, HandOK, Requeue
<1>2. [word |-> Normalise(log[hand[d]].word), origin |-> log[hand[d]].origin] \in Entry
  BY <1>1, NormaliseType DEF Entry, Core, TypeOK
<1> QED
  BY <1>2 DEF Requeue

\* The steps that leave the log, the stream and the group's cursor alone.
Reading(d) == EnsureGroup(d) \/ ReadPending(d) \/ ReadNew(d) \/ ReadFails(d)

LEMMA ReadingFacts ==
    ASSUME Core, GroupOK, NEW d \in Daemons, Reading(d)
    PROVE  /\ UNCHANGED <<log, stream, executed, dropped, ackFailed, overlapped>>
           /\ Ids' = Ids
           /\ Waiting' = Waiting
           /\ Offered' \subseteq Offered
           /\ \A p \in pending' \ pending : p \in stream
           /\ GroupOK'
<1>0. TypeOK /\ last \in Nat BY DEF Core, TypeOK
<1>1. UNCHANGED <<log, stream, executed, dropped, ackFailed, overlapped>> /\ Ids' = Ids
  BY DEF Reading, EnsureGroup, ReadPending, ReadNew, ReadFails, Ids
<1>2. CASE UNCHANGED <<last, pending, group>>
  BY <1>1, <1>2 DEF Waiting, Unread, Offered, GroupOK
<1>3. CASE EnsureGroup(d)
  <2>1. UNCHANGED <<last, pending>> /\ group'
    BY <1>3 DEF EnsureGroup, GroupOK
  <2> QED BY <1>1, <2>1 DEF Waiting, Unread, Offered, GroupOK
<1>4. CASE /\ Unread # {} /\ last' = MinId(Unread)
           /\ pending' = pending \cup {MinId(Unread)} /\ group /\ group' = group
  <2> DEFINE m == MinId(Unread)
  <2>1. m \in Unread /\ (\A j \in Unread : m <= j) /\ Unread \subseteq Ids
    BY <1>0, <1>4, WaitingIds, MinIdIsLeast
  <2>2. m \in stream /\ m > last /\ m \in Nat
    BY <1>0, <2>1, WaitingIds DEF Unread
  <2> HIDE DEF m
  <2>3. last' = m /\ pending' = pending \cup {m}
    BY <1>4 DEF m
  <2>4. \A i \in Unread : i = m \/ i > m
    BY <1>0, <2>1, <2>2, WaitingIds
  <2>5. Unread' = Unread \ {m}
    <3>1. Unread' = {i \in stream : i > m}
      BY <1>1, <2>3 DEF Unread
    <3>2. \A i \in stream : i \in Nat
      BY <1>0, WaitingIds
    <3>3. \A i \in stream : i > m <=> i \in Unread /\ i # m
      BY <1>0, <2>2, <2>4, <3>2 DEF Unread
    <3> QED BY <3>1, <3>3 DEF Unread
  <2>6. Waiting' = Waiting
    BY <1>1, <2>1, <2>2, <2>3, <2>5 DEF Waiting
  <2>7. Offered' \subseteq Offered
    BY <2>1, <2>3, <2>5 DEF Offered
  <2>8. GroupOK'
    BY <1>0, <1>1, <1>4, <2>1, <2>2, <2>3, WaitingIds DEF GroupOK
  <2> QED BY <1>1, <2>2, <2>3, <2>6, <2>7, <2>8
<1> QED
  BY <1>2, <1>3, <1>4 DEF Reading, ReadPending, ReadNew, ReadFails

\* A poll that returns adds one element to executed: the id in hand.
LEMMA ReturnFacts ==
    ASSUME Core, NEW d \in Daemons, NEW only, Return(d, only),
           NEW m, m = Len(executed) + 1
    PROVE  /\ DOMAIN executed' = DOMAIN executed \cup {m}
           /\ m \in Nat /\ \A k \in DOMAIN executed : k \in Nat /\ k < m /\ executed'[k] = executed[k]
           /\ executed'[m].id = hand[d] /\ executed'[m].origin = log[hand[d]].origin
           /\ hand[d] \in Ids /\ hand[d] # None /\ pc[d] = "deliver"
           /\ UNCHANGED <<log, stream, group, last, pending, ackFailed, overlapped, dropped>>
           /\ Ids' = Ids
<1>1. /\ hand[d] \in Ids /\ hand[d] # None /\ pc[d] = "deliver"
      /\ UNCHANGED <<log, stream, group, last, pending, ackFailed, overlapped, dropped>>
      /\ Ids' = Ids
  BY WaitingIds DEF Return, Core, HandOK, Ids, None
<1> DEFINE R == [id |-> hand[d], origin |-> log[hand[d]].origin,
                 word |-> Normalise(log[hand[d]].word)]
<1>2. executed' = Append(executed, R)
  BY DEF Return
<1>3. R \in [id : Nat, origin : Nat, word : Known]
  BY <1>1, NormaliseType, WaitingIds DEF Core, TypeOK, Entry
<1>4. R.id = hand[d] /\ R.origin = log[hand[d]].origin
  OBVIOUS
<1>5. executed \in Seq([id : Nat, origin : Nat, word : Known])
  BY DEF Core, TypeOK
<1> HIDE DEF R
<1> QED BY <1>1, <1>2, <1>3, <1>4, <1>5, SMTT(30)

-----------------------------------------------------------------------------
(* The stream group and the returned commands.                             *)

LEMMA GroupStep == Core /\ GroupOK /\ ExecutedOK /\ [Next]_ctlVars => GroupOK' /\ ExecutedOK'
<1> SUFFICES ASSUME Core, GroupOK, ExecutedOK, [Next]_ctlVars
             PROVE  GroupOK' /\ ExecutedOK'
  OBVIOUS
<1>0. TypeOK /\ last \in Nat /\ Len(log) \in Nat
  BY WaitingIds DEF Core, TypeOK
<1>1. ASSUME NEW e \in Entry, Xadd(e), UNCHANGED <<last, pending, group, executed>>
      PROVE  GroupOK' /\ ExecutedOK'
  <2> DEFINE n == Len(log) + 1
  <2>1. /\ Len(log') = n /\ Ids' = Ids \cup {n}
        /\ \A i \in Ids : log'[i] = log[i]
    BY <1>1, AddedEntry
  <2> QED BY <1>0, <1>1, <2>1 DEF GroupOK, ExecutedOK
<1>2. ASSUME NEW w \in Words, Publish(w) PROVE GroupOK' /\ ExecutedOK'
  BY <1>1, <1>2, PublishAdds DEF Publish
<1>3. ASSUME NEW d \in Daemons, NEW only, Requeue(d, only) PROVE GroupOK' /\ ExecutedOK'
  BY <1>1, <1>3, RequeueAdds DEF Requeue
<1>4. ASSUME NEW d \in Daemons, Reading(d) PROVE GroupOK' /\ ExecutedOK'
  BY <1>4, ReadingFacts DEF ExecutedOK
<1>5. ASSUME NEW d \in Daemons, NEW only, Return(d, only) PROVE GroupOK' /\ ExecutedOK'
  <2>1. GroupOK'
    BY <1>5, ReturnFacts DEF GroupOK
  <2>2. ExecutedOK'
    <3>1. PICK m : /\ DOMAIN executed' = DOMAIN executed \cup {m}
                   /\ \A k \in DOMAIN executed : executed'[k] = executed[k]
                   /\ executed'[m].id = hand[d] /\ executed'[m].origin = log[hand[d]].origin
                   /\ hand[d] \in Ids
                   /\ log' = log /\ Ids' = Ids
      BY <1>5, ReturnFacts
    <3> QED BY <3>1 DEF ExecutedOK
  <2> QED BY <2>1, <2>2
<1>6. CASE Flush
  BY <1>0, <1>6, WaitingIds DEF Flush, GroupOK, ExecutedOK, Ids
<1>7. ASSUME UNCHANGED <<log, last, group, executed>>, pending' \subseteq pending
      PROVE  GroupOK' /\ ExecutedOK'
  BY <1>7 DEF GroupOK, ExecutedOK, Ids
<1>8. ASSUME NEW d \in Daemons, Start(d) \/ Crash(d) \/ Ack(d) \/ AckFails(d)
                                \/ \E only : RequeueFails(d, only)
      PROVE  GroupOK' /\ ExecutedOK'
  BY <1>7, <1>8 DEF Start, Crash, Ack, AckFails, RequeueFails
<1>9. CASE UNCHANGED ctlVars
  BY <1>7, <1>9 DEF ctlVars
<1> QED
  BY <1>2, <1>3, <1>4, <1>5, <1>6, <1>8, <1>9 DEF Next, Poll, Reading

-----------------------------------------------------------------------------
(* No silent loss.                                                         *)

\* A command stays safe while its three kinds of copies only move or are
\* recorded as dropped.
LEMMA SafeKept ==
    ASSUME Core, LossInv, UNCHANGED log,
           \A i \in Waiting : i \in Waiting' \/ log[i].origin \in dropped'
                              \/ \E d \in Daemons : pc'[d] = "deliver" /\ hand'[d] = i,
           \A d \in Daemons : pc[d] = "deliver" =>
              \/ pc'[d] = "deliver" /\ hand'[d] = hand[d]
              \/ hand[d] \in Waiting'
              \/ log[hand[d]].origin \in dropped'
              \/ \E k \in DOMAIN executed' : executed'[k].origin = log[hand[d]].origin,
           \A k \in DOMAIN executed : k \in DOMAIN executed' /\ executed'[k] = executed[k],
           dropped \subseteq dropped'
    PROVE  (\A c \in Ids : log[c].origin = c => Safe(c))'
<1>1. SUFFICES ASSUME NEW c \in Ids, log[c].origin = c PROVE Safe(c)'
  BY DEF Ids
<1>2. Safe(c)
  BY <1>1 DEF LossInv
<1>3. CASE \E i \in Waiting : log[i].origin = c
  BY <1>3 DEF Safe
<1>4. CASE \E d \in Daemons : pc[d] = "deliver" /\ log[hand[d]].origin = c
  BY <1>4 DEF Safe
<1>5. CASE (\E k \in DOMAIN executed : executed[k].origin = c) \/ c \in dropped
  BY <1>5 DEF Safe
<1> QED BY <1>2, <1>3, <1>4, <1>5 DEF Safe

LEMMA LossStep == Core /\ GroupOK /\ LossInv /\ [Next]_ctlVars => LossInv'
<1> SUFFICES ASSUME Core, GroupOK, LossInv, [Next]_ctlVars PROVE LossInv'
  OBVIOUS
<1>0. /\ TypeOK /\ pending \subseteq Ids /\ Waiting \subseteq Ids
      /\ TrimmedPendingDropped /\ BlankGone /\ \A c \in Ids : log[c].origin = c => Safe(c)
  BY WaitingIds DEF Core, TypeOK, LossInv
<1>1. ASSUME NEW e \in Entry, Xadd(e), UNCHANGED <<last, pending>>,
             UNCHANGED executed,
             \A d \in Daemons : pc'[d] = "blank" => pc[d] = "blank" /\ hand'[d] = hand[d],
             \/ e.origin = Len(log) + 1 /\ UNCHANGED <<pc, hand>>
             \/ \E d \in Daemons : /\ pc[d] = "deliver" /\ e.origin = log[hand[d]].origin
                                   /\ \A f \in Daemons \ {d} : pc'[f] = pc[f] /\ hand'[f] = hand[f]
      PROVE  LossInv'
  <2> DEFINE n == Len(log) + 1
  <2>1. /\ n \in Nat /\ n \notin Ids /\ Ids' = Ids \cup {n}
        /\ \A i \in Ids : log'[i] = log[i]
        /\ log'[n] = e
        /\ stream' \subseteq stream \cup {n}
        /\ n \in Waiting'
        /\ \A i \in Waiting : i \in Waiting' \/ log[i].origin \in dropped'
        /\ dropped \subseteq dropped'
    BY <1>1, AddedEntry
  <2>2. \A p \in pending : p \in Waiting' => p \in stream'
    BY DEF Waiting, Unread
  <2>3. TrimmedPendingDropped'
    BY <1>0, <1>1, <2>1, <2>2 DEF TrimmedPendingDropped, Waiting
  <2>4. ASSUME NEW c \in Ids', log'[c].origin = c PROVE Safe(c)'
    <3>1. CASE c = n
      <4>1. log'[n].origin = n BY <2>4, <3>1
      <4> QED BY <2>1, <3>1, <4>1 DEF Safe
    <3>2. CASE c \in Ids
      <4>1. log[c].origin = c BY <2>1, <2>4, <3>2
      <4>2. Safe(c) BY <1>0, <3>2, <4>1
      <4>3. CASE \E i \in Waiting : log[i].origin = c
        BY <1>0, <2>1, <4>3 DEF Safe
      <4>4. CASE (\E k \in DOMAIN executed : executed[k].origin = c) \/ c \in dropped
        BY <1>1, <2>1, <4>4 DEF Safe
      <4>5. ASSUME NEW f \in Daemons, pc[f] = "deliver", log[hand[f]].origin = c
            PROVE  Safe(c)'
        <5>1. hand[f] \in Ids BY <4>5 DEF Core, HandOK
        <5>2. CASE e.origin = c
          BY <2>1, <5>2 DEF Safe
        <5>3. CASE pc'[f] = pc[f] /\ hand'[f] = hand[f]
          BY <2>1, <4>5, <5>1, <5>3 DEF Safe
        <5> QED BY <1>1, <4>5, <5>2, <5>3
      <4> QED BY <4>2, <4>3, <4>4, <4>5 DEF Safe
    <3> QED BY <2>1, <3>1, <3>2
  <2>5. BlankGone'
    BY <1>0, <1>1, <2>1 DEF BlankGone, Core, HandOK
  <2> QED BY <2>3, <2>4, <2>5 DEF LossInv
<1>2. ASSUME NEW w \in Words, Publish(w) PROVE LossInv'
  BY <1>1, <1>2, PublishAdds DEF Publish
<1>3. ASSUME NEW d \in Daemons, NEW only, Requeue(d, only) PROVE LossInv'
  <2>1. PICK e \in Entry : e.origin = log[hand[d]].origin /\ Xadd(e)
    BY <1>3, RequeueAdds
  <2>2. /\ pc[d] = "deliver"
        /\ pc'[d] = "idle"
        /\ \A f \in Daemons \ {d} : pc'[f] = pc[f] /\ hand'[f] = hand[f]
        /\ UNCHANGED <<last, pending, executed>>
    BY <1>0, <1>3 DEF Requeue, TypeOK
  <2> QED BY <1>1, <2>1, <2>2
<1>4. ASSUME NEW d \in Daemons, Reading(d) PROVE LossInv'
  <2>1. /\ UNCHANGED <<log, stream, executed, dropped>> /\ Waiting' = Waiting
        /\ \A p \in pending' \ pending : p \in stream
    BY <1>4, ReadingFacts
  <2>2. TrimmedPendingDropped'
    BY <1>0, <2>1 DEF TrimmedPendingDropped
  <2>3. \A f \in Daemons : pc[f] = "deliver" => pc'[f] = "deliver" /\ hand'[f] = hand[f]
    BY <1>0, <1>4 DEF Reading, EnsureGroup, ReadPending, ReadNew, ReadFails, TypeOK
  <2>4. BlankGone'
    BY <1>0, <1>4, <2>1
    DEF BlankGone, Reading, EnsureGroup, ReadPending, ReadNew, ReadFails, TypeOK
  <2> QED BY <2>1, <2>2, <2>3, <2>4, SafeKept DEF LossInv
<1>5. ASSUME NEW d \in Daemons, Ack(d) \/ AckFails(d) PROVE LossInv'
  <2>1. /\ UNCHANGED <<log, stream, last, executed, dropped>>
        /\ pending' \subseteq pending /\ \A p \in pending \ pending' : p = hand[d]
    BY <1>5 DEF Ack, AckFails
  <2>2. \A f \in Daemons : pc[f] = "deliver" => pc'[f] = "deliver" /\ hand'[f] = hand[f]
    BY <1>0, <1>5 DEF Ack, AckFails, AfterAck, TypeOK
  <2>3. \A i \in Waiting : i \in Waiting' \/ i = hand[d]
    BY <2>1 DEF Waiting, Unread
  <2>4. CASE pc[d] = "ack"
    <3>1. pc'[d] = "deliver" /\ hand'[d] = hand[d]
      BY <1>0, <1>5, <2>4 DEF Ack, AckFails, AfterAck, TypeOK
    <3>2. TrimmedPendingDropped'
      BY <1>0, <2>1 DEF TrimmedPendingDropped
    <3>3. BlankGone'
      BY <1>0, <1>5, <2>1, <2>4 DEF BlankGone, Ack, AckFails, AfterAck, TypeOK
    <3> QED BY <2>1, <2>2, <2>3, <3>1, <3>2, <3>3, SafeKept DEF LossInv
  <2>5. CASE pc[d] = "blank"
    <3>1. hand[d] \notin Waiting
      BY <1>0, <2>5 DEF BlankGone, Waiting, Unread
    <3>2. \A i \in Waiting : i \in Waiting'
      BY <2>3, <3>1
    <3>3. TrimmedPendingDropped'
      BY <1>0, <2>1 DEF TrimmedPendingDropped
    <3>4. BlankGone'
      BY <1>0, <1>5, <2>1, <2>5 DEF BlankGone, Ack, AckFails, AfterAck, TypeOK
    <3> QED BY <2>1, <2>2, <3>2, <3>3, <3>4, SafeKept DEF LossInv
  <2> QED BY <1>5, <2>4, <2>5 DEF Ack, AckFails
<1>6. ASSUME NEW d \in Daemons, NEW only, Return(d, only) PROVE LossInv'
  <2>1. PICK m : /\ DOMAIN executed' = DOMAIN executed \cup {m}
                 /\ \A k \in DOMAIN executed : executed'[k] = executed[k]
                 /\ executed'[m].origin = log[hand[d]].origin
                 /\ UNCHANGED <<log, stream, last, pending, dropped>>
    BY <1>6, ReturnFacts
  <2>2. \A f \in Daemons \ {d} : pc'[f] = pc[f] /\ hand'[f] = hand[f]
    BY <1>0, <1>6 DEF Return, TypeOK
  <2>3. Waiting' = Waiting
    BY <2>1 DEF Waiting, Unread
  <2>4. TrimmedPendingDropped' /\ BlankGone'
    BY <1>0, <1>6, <2>1, <2>2 DEF TrimmedPendingDropped, BlankGone, Return, TypeOK
  <2> QED BY <2>1, <2>2, <2>3, <2>4, SafeKept DEF LossInv
<1>7. ASSUME NEW d \in Daemons, Crash(d) \/ \E only : RequeueFails(d, only)
      PROVE  LossInv'
  <2>1. /\ UNCHANGED <<log, stream, last, pending, executed>>
        /\ dropped' = dropped \cup LastCopy(d)
        /\ pc'[d] \in {"idle", "down"}
        /\ \A f \in Daemons \ {d} : pc'[f] = pc[f] /\ hand'[f] = hand[f]
    BY <1>0, <1>7 DEF Crash, RequeueFails, TypeOK
  <2>2. Waiting' = Waiting
    BY <2>1 DEF Waiting, Unread
  <2>3. TrimmedPendingDropped' /\ BlankGone'
    BY <1>0, <2>1 DEF TrimmedPendingDropped, BlankGone, LastCopy
  <2>4. pc[d] = "deliver" => hand[d] \in Waiting \/ log[hand[d]].origin \in dropped'
    BY <1>0, <2>1 DEF LastCopy, TrimmedPendingDropped, Waiting
  <2>5. dropped \subseteq dropped'
    BY <2>1
  <2> QED BY <2>1, <2>2, <2>3, <2>4, <2>5, SafeKept DEF LossInv
<1>8. CASE Flush
  <2>1. /\ UNCHANGED <<log, pc, hand, executed>>
        /\ stream' = {} /\ pending' = {}
        /\ dropped' = dropped \cup {log[i].origin : i \in Waiting}
    BY <1>8 DEF Flush
  <2>2. TrimmedPendingDropped' /\ BlankGone'
    BY <2>1 DEF TrimmedPendingDropped, BlankGone
  <2> QED BY <2>1, <2>2, SafeKept DEF LossInv
<1>9. ASSUME UNCHANGED <<log, stream, last, pending, executed, dropped, hand>>,
             \A f \in Daemons : pc[f] \in {"deliver", "blank"} \/ pc'[f] \in {"deliver", "blank"}
                                   => pc'[f] = pc[f]
      PROVE  LossInv'
  <2>1. Waiting' = Waiting
    BY <1>9 DEF Waiting, Unread
  <2>2. TrimmedPendingDropped' /\ BlankGone'
    BY <1>0, <1>9 DEF TrimmedPendingDropped, BlankGone
  <2> QED BY <1>9, <2>1, <2>2, SafeKept DEF LossInv
<1>10. ASSUME NEW d \in Daemons, Start(d) PROVE LossInv'
  BY <1>0, <1>9, <1>10 DEF Start, Up, TypeOK
<1>11. CASE UNCHANGED ctlVars
  BY <1>9, <1>11 DEF ctlVars
<1> QED
  BY <1>2, <1>3, <1>4, <1>5, <1>6, <1>7, <1>8, <1>10, <1>11 DEF Next, Poll, Reading

\* Every command accepted by the control stream is waiting, held, returned, or
\* recorded as dropped by a trim, a flush, a crash after XACK or a lost requeue.
THEOREM ControlNoSilentLoss == Spec => []NoSilentLoss
<1> DEFINE I == Core /\ GroupOK /\ ExecutedOK /\ LossInv
<1>1. Init => I
  <2> SUFFICES ASSUME Init PROVE I
    OBVIOUS
  <2>1. Ids = {} /\ Len(log) = 0 /\ DOMAIN executed = {}
    BY DEF Init, Ids
  <2> QED
    BY <2>1, CoreInit
    DEF Init, GroupOK, ExecutedOK, LossInv, TrimmedPendingDropped, BlankGone
<1>2. I /\ [Next]_ctlVars => I'
  BY CoreStep, GroupStep, LossStep
<1>3. I => NoSilentLoss
  <2> SUFFICES ASSUME I, NEW c \in Ids, log[c].origin = c, Safe(c)
               PROVE  \/ \E i \in Waiting : log[i].origin = c
                      \/ \E d \in Daemons : hand[d] # None /\ log[hand[d]].origin = c
                      \/ \E k \in DOMAIN executed : executed[k].origin = c
                      \/ c \in dropped
    BY DEF NoSilentLoss, LossInv
  <2>1. \A d \in Daemons : pc[d] = "deliver" => hand[d] # None
    BY WaitingIds DEF Core, HandOK, None
  <2> QED BY <2>1 DEF Safe
<1> QED
  BY <1>1, <1>2, <1>3, PTL DEF Spec

-----------------------------------------------------------------------------
(* Stream order, while one daemon at a time is up.                         *)

\* Under SingleInv the daemon that takes a step is the only one holding an id.
LEMMA OnlyHand ==
    ASSUME Core, SingleInv, ~overlapped, NEW d \in Daemons, Up(d)
    PROVE  /\ \A f \in Daemons : hand[f] # None => f = d
           /\ \A f \in Daemons : pc[f] # "down" => f = d
  BY DEF Core, HandOK, TypeOK, SingleInv, Up

LEMMA SingleStep == Core /\ SingleInv /\ [Next]_ctlVars => SingleInv'
<1> SUFFICES ASSUME Core, SingleInv, [Next]_ctlVars, ~overlapped' PROVE SingleInv'
  BY DEF SingleInv
<1>0. TypeOK BY DEF Core
<1>1. ~overlapped
  BY DEF Next, Poll, Publish, Start, Crash, EnsureGroup, ReadPending, ReadNew, Ack, Return,
         Requeue, AckFails, ReadFails, RequeueFails, Flush, ctlVars
<1>2. /\ \A d, e \in Daemons : Up(d) /\ Up(e) => d = e
      /\ \A d \in Daemons : pc[d] = "new" => pending = {}
  BY <1>1 DEF SingleInv
<1>3. ASSUME UNCHANGED pc, pending' \subseteq pending PROVE SingleInv'
  BY <1>2, <1>3 DEF SingleInv, Up
<1>4. ASSUME NEW d \in Daemons, pc[d] # "down",
             \A f \in Daemons : f # d => pc'[f] = pc[f],
             pc'[d] = "new" => pending' = {}
      PROVE  SingleInv'
  BY <1>2, <1>4 DEF SingleInv, Up
<1>5. ASSUME NEW w \in Words, Publish(w) PROVE SingleInv'
  BY <1>3, <1>5 DEF Publish
<1>6. ASSUME NEW d \in Daemons, Start(d) PROVE SingleInv'
  <2>1. \A e \in Daemons : pc[e] = "down"
    BY <1>1, <1>6 DEF Start, Up
  <2>2. pc' = [pc EXCEPT ![d] = "idle"]
    BY <1>6 DEF Start
  <2> QED BY <1>0, <2>1, <2>2 DEF SingleInv, Up, TypeOK
<1>7. ASSUME NEW d \in Daemons, Crash(d) \/ EnsureGroup(d) \/ ReadNew(d) \/ ReadFails(d)
      PROVE  SingleInv'
  BY <1>0, <1>4, <1>7 DEF Crash, EnsureGroup, ReadNew, ReadFails, TypeOK, Up
<1>8. ASSUME NEW d \in Daemons, ReadPending(d) PROVE SingleInv'
  BY <1>0, <1>4, <1>8 DEF ReadPending, TypeOK
<1>9. ASSUME NEW d \in Daemons, Ack(d) \/ AckFails(d) PROVE SingleInv'
  BY <1>0, <1>4, <1>9 DEF Ack, AckFails, AfterAck, TypeOK
<1>10. ASSUME NEW d \in Daemons, NEW only,
              Return(d, only) \/ Requeue(d, only) \/ RequeueFails(d, only)
       PROVE  SingleInv'
  BY <1>0, <1>4, <1>10 DEF Return, Requeue, RequeueFails, TypeOK
<1>11. CASE Flush \/ UNCHANGED ctlVars
  BY <1>3, <1>11 DEF Flush, ctlVars
<1> QED
  BY <1>5, <1>6, <1>7, <1>8, <1>9, <1>10, <1>11 DEF Next, Poll

LEMMA OrderStep ==
    Core /\ GroupOK /\ ExecutedOK /\ SingleInv /\ OrderInv /\ [Next]_ctlVars => OrderInv'
<1> SUFFICES ASSUME Core, GroupOK, ExecutedOK, SingleInv, OrderInv, [Next]_ctlVars,
                    ~overlapped'
             PROVE  OrderInv'
  BY DEF OrderInv
<1>0. /\ TypeOK
      /\ Ids = 1..Len(log) /\ Len(log) \in Nat /\ Ids \subseteq Nat
      /\ Unread \subseteq Ids /\ pending \subseteq Ids
      /\ \A k \in DOMAIN executed : executed[k].id \in Ids
      /\ \A d \in Daemons : hand[d] # None => hand[d] \in Ids
  BY WaitingIds DEF Core, TypeOK, ExecutedOK
<1>1. ~overlapped
  BY DEF Next, Poll, Publish, Start, Crash, EnsureGroup, ReadPending, ReadNew, Ack, Return,
         Requeue, AckFails, ReadFails, RequeueFails, Flush, ctlVars
<1>2. /\ \A k \in DOMAIN executed :
          /\ \A i \in Unread : executed[k].id < i
          /\ \A p \in pending : executed[k].id <= p
          /\ \A d \in Daemons : hand[d] # None => executed[k].id <= hand[d]
      /\ \A d \in Daemons : hand[d] # None =>
          /\ \A i \in Unread : hand[d] < i
          /\ \A p \in pending : hand[d] <= p
      /\ \A j, k \in DOMAIN executed : j < k => executed[j].id <= executed[k].id
  BY <1>1 DEF OrderInv
\* Steps that shrink what is offered and what is held.
<1>3. ASSUME Unread' \subseteq Unread, pending' \subseteq pending, UNCHANGED executed,
             \A f \in Daemons : hand'[f] # None => hand'[f] = hand[f]
      PROVE  OrderInv'
  BY <1>2, <1>3 DEF OrderInv
\* Steps that add an entry.
<1>4. ASSUME NEW e \in Entry, Xadd(e), UNCHANGED <<last, pending, executed>>,
             \A f \in Daemons : hand'[f] # None => hand'[f] = hand[f]
      PROVE  OrderInv'
  <2> DEFINE n == Len(log) + 1
  <2>1. Unread' \subseteq Unread \cup {n} /\ \A i \in Ids : i < n
    BY <1>4, AddedEntry
  <2> HIDE DEF n
  <2> QED BY <1>0, <1>2, <1>4, <2>1 DEF OrderInv
<1>5. ASSUME NEW w \in Words, Publish(w) PROVE OrderInv'
  BY <1>4, <1>5, PublishAdds DEF Publish
<1>6. ASSUME NEW d \in Daemons, NEW only, Requeue(d, only) PROVE OrderInv'
  <2>1. \A f \in Daemons : hand'[f] # None => hand'[f] = hand[f]
    BY <1>0, <1>6 DEF Requeue, TypeOK
  <2> QED BY <1>4, <1>6, <2>1, RequeueAdds DEF Requeue
<1>7. ASSUME NEW d \in Daemons, EnsureGroup(d) PROVE OrderInv'
  <2>1. UNCHANGED <<stream, last, pending, executed, hand>>
    BY <1>7 DEF EnsureGroup, GroupOK
  <2> QED BY <1>3, <2>1 DEF Unread
\* Reading the least pending or unread id.
<1>8. ASSUME NEW d \in Daemons, ReadPending(d) PROVE OrderInv'
  <2>1. CASE UNCHANGED hand
    BY <1>3, <1>8, <2>1 DEF ReadPending, Unread
  <2>2. CASE pending # {} /\ hand' = [hand EXCEPT ![d] = MinId(pending)]
    <3> DEFINE m == MinId(pending)
    <3>1. m \in pending /\ \A p \in pending : m <= p
      BY <1>0, <2>2, WaitingIds, MinIdIsLeast
    <3> HIDE DEF m
    <3>2. hand'[d] = m /\ \A f \in Daemons : f # d => hand'[f] = hand[f]
      BY <1>0, <2>2 DEF TypeOK, m
    <3>3. UNCHANGED <<stream, last, pending, executed>> /\ Unread' = Unread
      BY <1>8 DEF ReadPending, Unread
    <3>4. \A i \in Unread : m < i
      BY <1>0, <3>1 DEF Unread, GroupOK, TypeOK
    <3>5. \A f \in Daemons : f # d => hand[f] = None
      BY <1>1, <1>8, OnlyHand DEF ReadPending, Up
    <3> QED BY <1>2, <3>1, <3>2, <3>3, <3>4, <3>5 DEF OrderInv
  <2> QED BY <1>8, <2>1, <2>2 DEF ReadPending
<1>9. ASSUME NEW d \in Daemons, ReadNew(d) \/ ReadFails(d) PROVE OrderInv'
  <2>1. CASE UNCHANGED <<last, pending, hand>>
    BY <1>3, <1>9, <2>1 DEF ReadNew, ReadFails, Unread
  <2>2. CASE /\ Unread # {} /\ pc[d] = "new"
             /\ last' = MinId(Unread) /\ pending' = pending \cup {MinId(Unread)}
             /\ UNCHANGED hand \/ hand' = [hand EXCEPT ![d] = MinId(Unread)]
    <3> DEFINE m == MinId(Unread)
    <3>1. m \in Unread /\ \A i \in Unread : m <= i
      BY <1>0, <2>2, WaitingIds, MinIdIsLeast
    <3>2. pending' = {m}
      BY <1>1, <2>2 DEF SingleInv
    <3>3. last' = m
      BY <2>2
    <3>4. \A f \in Daemons : hand'[f] # None => f = d /\ hand'[f] = m
      <4>1. \A f \in Daemons : hand[f] = None
        BY <1>1, <2>2, OnlyHand DEF Core, HandOK, TypeOK, Up
      <4> QED BY <1>0, <2>2, <4>1 DEF TypeOK
    <3> HIDE DEF m
    <3>5. UNCHANGED <<stream, executed>>
      BY <1>9 DEF ReadNew, ReadFails
    <3>6. Unread' \subseteq Unread /\ \A i \in Unread' : m < i
      <4>1. Unread' = {i \in stream : i > m}
        BY <3>3, <3>5 DEF Unread
      <4>2. m > last /\ m \in Nat /\ last \in Nat /\ \A i \in stream : i \in Nat
        BY <1>0, <3>1, WaitingIds DEF Unread, TypeOK
      <4> QED BY <4>1, <4>2 DEF Unread
    <3>7. m \in Nat
      BY <1>0, <3>1
    <3>8. \A k \in DOMAIN executed : executed[k].id <= m
      BY <1>0, <1>2, <3>1, <3>7
    <3>9. \A j, k \in DOMAIN executed : j < k => executed[j].id <= executed[k].id
      BY <1>2
    <3> QED BY <1>2, <3>2, <3>4, <3>5, <3>6, <3>7, <3>8, <3>9 DEF OrderInv
  <2> QED BY <1>9, <2>1, <2>2 DEF ReadNew, ReadFails
<1>10. ASSUME NEW d \in Daemons, Ack(d) \/ AckFails(d) PROVE OrderInv'
  BY <1>0, <1>3, <1>10 DEF Ack, AckFails, AfterAck, Unread, TypeOK
\* Returning the id in hand.
<1>11. ASSUME NEW d \in Daemons, NEW only, Return(d, only) PROVE OrderInv'
  <2>1. PICK m : /\ DOMAIN executed' = DOMAIN executed \cup {m}
                 /\ m \in Nat /\ \A k \in DOMAIN executed : k \in Nat /\ k < m /\ executed'[k] = executed[k]
                 /\ executed'[m].id = hand[d]
                 /\ hand[d] \in Ids /\ hand[d] # None
                 /\ UNCHANGED <<log, stream, last, pending>>
    BY <1>11, ReturnFacts
  <2>2. \A f \in Daemons : hand'[f] = None
    BY <1>0, <1>1, <1>11, OnlyHand DEF Return, TypeOK, Up
  <2>3. Unread' = Unread
    BY <2>1 DEF Unread
  <2>4. \A j, k \in DOMAIN executed' : j < k => executed'[j].id <= executed'[k].id
    BY <1>2, <2>1
  <2>5. \A k \in DOMAIN executed' : /\ \A i \in Unread : executed'[k].id < i
                                    /\ \A p \in pending : executed'[k].id <= p
    BY <1>2, <2>1
  <2> QED BY <2>1, <2>2, <2>3, <2>4, <2>5 DEF OrderInv
<1>12. ASSUME NEW d \in Daemons, Start(d) \/ Crash(d) \/ \E only : RequeueFails(d, only)
       PROVE  OrderInv'
  BY <1>0, <1>3, <1>12 DEF Start, Crash, RequeueFails, Unread, TypeOK
<1>13. CASE Flush
  <2>1. Unread' = {}
    BY <1>13 DEF Flush, Unread
  <2> QED BY <1>3, <1>13, <2>1 DEF Flush
<1>14. CASE UNCHANGED ctlVars
  BY <1>3, <1>14 DEF ctlVars, Unread
<1> QED
  BY <1>5, <1>6, <1>7, <1>8, <1>9, <1>10, <1>11, <1>12, <1>13, <1>14 DEF Next, Poll

\* One daemon, restarted any number of times, returns the stream's entries in
\* stream order: pending ones are drained before new ones are read.
THEOREM ControlInStreamOrder == Spec => []InStreamOrder
<1> DEFINE I == Core /\ GroupOK /\ ExecutedOK /\ SingleInv /\ OrderInv
<1>1. Init => I
  <2> SUFFICES ASSUME Init PROVE I
    OBVIOUS
  <2>1. Len(log) = 0 /\ DOMAIN executed = {}
    BY DEF Init
  <2>2. SingleInv /\ OrderInv
    BY <2>1 DEF Init, SingleInv, OrderInv, Up
  <2> QED
    BY <2>1, <2>2, CoreInit DEF Init, GroupOK, ExecutedOK
<1>2. I /\ [Next]_ctlVars => I'
  BY CoreStep, GroupStep, SingleStep, OrderStep
<1>3. I => InStreamOrder
  BY DEF OrderInv, InStreamOrder
<1> QED
  BY <1>1, <1>2, <1>3, PTL DEF Spec

-----------------------------------------------------------------------------
(* At most once.                                                           *)

LEMMA OnceStep ==
    /\ Core /\ GroupOK /\ ExecutedOK /\ SingleInv /\ OrderInv /\ OnceInv
    /\ [Next]_ctlVars
    => OnceInv'
<1> SUFFICES ASSUME Core, GroupOK, ExecutedOK, SingleInv, OrderInv, OnceInv,
                    [Next]_ctlVars, ~overlapped'
             PROVE  OnceInv'
  BY DEF OnceInv, Excused, AtMostOnce
<1>0. /\ TypeOK
      /\ Ids = 1..Len(log) /\ Len(log) \in Nat /\ Ids \subseteq Nat
      /\ Offered \subseteq Ids
      /\ \A k \in DOMAIN executed : executed[k].id \in Ids
                                   /\ executed[k].origin = log[executed[k].id].origin
      /\ \A d \in Daemons : hand[d] # None => hand[d] \in Ids
      /\ \A i \in Ids : log[i].origin \in Ids
      /\ ackFailed \subseteq Ids
  BY WaitingIds DEF Core, TypeOK, ExecutedOK, Offered, OriginOK
<1>1. ~overlapped
  BY DEF Next, Poll, Publish, Start, Crash, EnsureGroup, ReadPending, ReadNew, Ack, Return,
         Requeue, AckFails, ReadFails, RequeueFails, Flush, ctlVars
<1> DEFINE X(c) == \E i \in ackFailed : log[i].origin = c
<1>2. /\ \A i, j \in Offered : i # j /\ log[i].origin = log[j].origin => X(log[i].origin)
      /\ \A i \in Offered, k \in DOMAIN executed :
            log[i].origin = executed[k].origin => X(log[i].origin)
      /\ \A d \in Daemons : hand[d] # None =>
            \A k \in DOMAIN executed :
               log[hand[d]].origin = executed[k].origin => X(executed[k].origin)
      /\ \A d \in Daemons : hand[d] # None =>
            \A i \in Offered :
                log[hand[d]].origin = log[i].origin /\ (i # hand[d] \/ pc[d] = "deliver")
                => X(log[i].origin)
      /\ \A j, k \in DOMAIN executed :
            j # k /\ executed[j].origin = executed[k].origin => X(executed[j].origin)
  BY <1>1 DEF OnceInv, Excused, AtMostOnce
\* Steps that only take away from what is offered and what is held.
<1>3. ASSUME UNCHANGED <<log, executed>>, Offered' \subseteq Offered,
             ackFailed \subseteq ackFailed',
             \A f \in Daemons : hand'[f] # None =>
                \/ hand'[f] = hand[f] /\ (pc'[f] = "deliver" => pc[f] = "deliver")
                \/ hand'[f] \in Offered /\ pc'[f] # "deliver"
                \/ hand'[f] = hand[f] /\ hand[f] \in ackFailed' \cup (Ids \ Offered')
      PROVE  OnceInv'
  <2>1. \A c : X(c) => Excused(c)'
    BY <1>0, <1>3 DEF Excused
  <2>2. \A f \in Daemons : hand'[f] # None =>
           \A k \in DOMAIN executed :
              log[hand'[f]].origin = executed[k].origin => X(executed[k].origin)
    BY <1>2, <1>3
  <2>3. \A f \in Daemons : hand'[f] # None =>
           \A i \in Offered' :
               log[hand'[f]].origin = log[i].origin /\ (i # hand'[f] \/ pc'[f] = "deliver")
               => Excused(log[i].origin)'
    <3> SUFFICES ASSUME NEW f \in Daemons, hand'[f] # None, NEW i \in Offered',
                        log[hand'[f]].origin = log[i].origin,
                        i # hand'[f] \/ pc'[f] = "deliver"
                 PROVE  Excused(log[i].origin)'
      OBVIOUS
    <3>1. i \in Offered BY <1>3
    <3>2. CASE i = hand'[f] /\ i \in ackFailed'
      BY <1>3, <3>2 DEF Excused
    <3>3. CASE i # hand'[f]
      BY <1>2, <1>3, <2>1, <3>1, <3>3
    <3>4. CASE i = hand'[f] /\ i \notin ackFailed'
      BY <1>2, <1>3, <2>1, <3>1, <3>4
    <3> QED BY <3>2, <3>3, <3>4
  <2> QED BY <1>2, <1>3, <2>1, <2>2, <2>3 DEF OnceInv, AtMostOnce
\* Steps that add an entry whose origin nothing offered, and nothing that stays
\* held, carries.
<1>4. ASSUME NEW e \in Entry, Xadd(e), UNCHANGED <<last, pending, executed, ackFailed, overlapped>>,
             \A f \in Daemons : hand'[f] # None => hand'[f] = hand[f] /\ pc'[f] = pc[f]
                                                /\ log[hand[f]].origin # e.origin,
             \A i \in Offered : log[i].origin = e.origin => X(e.origin),
             \A k \in DOMAIN executed : executed[k].origin = e.origin => X(e.origin)
      PROVE  OnceInv'
  <2> DEFINE n == Len(log) + 1
  <2>1. /\ n \notin Ids
        /\ \A i \in Ids : log'[i] = log[i]
        /\ log'[n] = e
        /\ Offered' \subseteq Offered \cup {n}
    BY <1>4, AddedEntry DEF Offered
  <2> HIDE DEF n
  <2>2. \A c : X(c) => Excused(c)'
    BY <1>0, <1>4, <2>1 DEF Excused
  <2>3. \A i \in Offered' : (i \in Offered /\ log'[i] = log[i]) \/ (i = n /\ log'[i] = e)
    BY <1>0, <2>1
  <2>4. \A i, j \in Offered' : i # j /\ log'[i].origin = log'[j].origin
                               => Excused(log[i].origin)' 
    <3> SUFFICES ASSUME NEW i \in Offered', NEW j \in Offered', i # j,
                        log'[i].origin = log'[j].origin
                 PROVE  Excused(log[i].origin)'
      OBVIOUS
    <3>1. CASE i \in Offered /\ j \in Offered
      <4>1. log'[i] = log[i] /\ log'[j] = log[j]
        BY <1>0, <2>1, <3>1
      <4>2. X(log[i].origin)
        BY <1>2, <3>1, <4>1
      <4> QED BY <2>2, <4>1, <4>2
    <3>2. CASE i = n /\ j \in Offered
      <4>1. log'[i].origin = e.origin /\ log[j].origin = e.origin
        BY <2>1, <2>3, <3>2
      <4>2. X(e.origin)
        BY <1>4, <3>2, <4>1
      <4> QED BY <2>2, <4>1, <4>2
    <3>3. CASE j = n /\ i \in Offered
      <4>1. log'[i].origin = e.origin /\ log[i].origin = e.origin
        BY <2>1, <2>3, <3>3
      <4>2. X(e.origin)
        BY <1>4, <3>3, <4>1
      <4> QED BY <2>2, <4>1, <4>2
    <3> QED BY <2>3, <3>1, <3>2, <3>3
  <2>5. \A i \in Offered', k \in DOMAIN executed :
           log'[i].origin = executed[k].origin => Excused(log[i].origin)'
    BY <1>2, <1>4, <2>2, <2>3
  <2>6. \A f \in Daemons : hand'[f] # None =>
           \A k \in DOMAIN executed :
              log'[hand'[f]].origin = executed[k].origin => Excused(executed[k].origin)'
    <3> SUFFICES ASSUME NEW f \in Daemons, hand'[f] # None, NEW k \in DOMAIN executed,
                        log'[hand'[f]].origin = executed[k].origin
                 PROVE  Excused(executed[k].origin)'
      BY <1>4
    <3>1. hand'[f] = hand[f] /\ hand[f] # None /\ hand[f] \in Ids
      BY <1>0, <1>4
    <3>2. log'[hand'[f]] = log[hand[f]]
      BY <2>1, <3>1
    <3>3. X(executed[k].origin)
      BY <1>2, <3>1, <3>2
    <3>4. executed' = executed
      BY <1>4
    <3> QED BY <2>2, <3>3, <3>4
  <2>7. \A f \in Daemons : hand'[f] # None =>
           \A i \in Offered' :
               log'[hand'[f]].origin = log'[i].origin /\ (i # hand'[f] \/ pc'[f] = "deliver")
               => Excused(log[i].origin)'
    <3> SUFFICES ASSUME NEW f \in Daemons, hand'[f] # None, NEW i \in Offered',
                        log'[hand'[f]].origin = log'[i].origin,
                        i # hand'[f] \/ pc'[f] = "deliver"
                 PROVE  Excused(log[i].origin)'
      OBVIOUS
    <3>1. /\ hand'[f] = hand[f] /\ pc'[f] = pc[f] /\ log[hand[f]].origin # e.origin
          /\ hand[f] # None /\ hand[f] \in Ids
      BY <1>0, <1>4
    <3>2. log'[hand'[f]] = log[hand[f]]
      BY <2>1, <3>1
    <3>3. i # n
      BY <2>1, <3>1, <3>2
    <3>4. i \in Offered /\ log'[i] = log[i]
      BY <2>3, <3>3
    <3>5. X(log[i].origin)
      BY <1>2, <3>1, <3>2, <3>4
    <3> QED BY <2>2, <3>4, <3>5
  <2>8. \A j, k \in DOMAIN executed :
            j # k /\ executed[j].origin = executed[k].origin => Excused(executed[j].origin)'
    BY <1>2, <1>4, <2>2
  <2>9. AtMostOnce'
    BY <1>4, <2>8 DEF AtMostOnce, Excused
  <2> QED BY <1>4, <2>4, <2>5, <2>6, <2>7, <2>9 DEF OnceInv
<1>5. ASSUME NEW w \in Words, Publish(w) PROVE OnceInv'
  <2>1. PICK e \in Entry : e.origin = Len(log) + 1 /\ Xadd(e)
    BY <1>5, PublishAdds
  <2>2. \A i \in Ids : log[i].origin # e.origin
    BY <1>0, <2>1
  <2> QED BY <1>0, <1>4, <1>5, <2>1, <2>2 DEF Publish
<1>6. ASSUME NEW d \in Daemons, NEW only, Requeue(d, only) PROVE OnceInv'
  <2>1. PICK e \in Entry : e.origin = log[hand[d]].origin /\ Xadd(e)
    BY <1>6, RequeueAdds
  <2>2. pc[d] = "deliver" /\ hand[d] # None
    BY <1>0, <1>6 DEF Requeue, Core, HandOK, None
  <2>3. \A f \in Daemons : hand'[f] = None
    BY <1>0, <1>1, <1>6, <2>2, OnlyHand DEF Requeue, TypeOK, Up
  <2> QED BY <1>2, <1>4, <1>6, <2>1, <2>2, <2>3 DEF Requeue
<1>7. ASSUME NEW d \in Daemons, Reading(d) PROVE OnceInv'
  <2>1. /\ UNCHANGED <<log, executed, overlapped, ackFailed>> /\ Offered' \subseteq Offered
    BY <1>7, ReadingFacts
  <2>2. pending # {} => MinId(pending) \in pending
    BY <1>0, WaitingIds, MinIdIsLeast
  <2>3. Unread # {} => MinId(Unread) \in Unread
    BY <1>0, WaitingIds, MinIdIsLeast
  <2>4. \A f \in Daemons : hand'[f] # None =>
           \/ hand'[f] = hand[f] /\ (pc'[f] = "deliver" => pc[f] = "deliver")
           \/ hand'[f] \in Offered /\ pc'[f] # "deliver"
    BY <1>0, <1>7, <2>2, <2>3
    DEF Reading, EnsureGroup, ReadPending, ReadNew, ReadFails, TypeOK, Offered
  <2> QED BY <1>3, <2>1, <2>4
<1>8. ASSUME NEW d \in Daemons, Ack(d) PROVE OnceInv'
  <2>1. UNCHANGED <<log, stream, last, executed, overlapped, ackFailed>> /\ pending' = pending \ {hand[d]}
    BY <1>8 DEF Ack
  <2>2. hand[d] # None /\ hand[d] \in Ids
    BY <1>0, <1>8 DEF Ack, Core, HandOK, None
  <2>3. hand[d] \notin Unread
    BY <1>0, <1>1, <2>2 DEF OrderInv
  <2>4. Offered' \subseteq Offered /\ hand[d] \notin Offered'
    BY <2>1, <2>3 DEF Offered, Unread
  <2>5. \A f \in Daemons : hand'[f] # None =>
           \/ hand'[f] = hand[f] /\ (pc'[f] = "deliver" => pc[f] = "deliver")
           \/ hand'[f] = hand[f] /\ f = d
    BY <1>0, <1>8 DEF Ack, AfterAck, TypeOK
  <2> QED BY <1>3, <2>1, <2>2, <2>4, <2>5
<1>9. ASSUME NEW d \in Daemons, AckFails(d) PROVE OnceInv'
  <2>1. /\ UNCHANGED <<log, stream, last, pending, executed, overlapped>>
        /\ ackFailed' = ackFailed \cup {hand[d]}
    BY <1>9 DEF AckFails
  <2>2. Offered' = Offered
    BY <2>1 DEF Offered, Unread
  <2>3. \A f \in Daemons : hand'[f] # None =>
           \/ hand'[f] = hand[f] /\ (pc'[f] = "deliver" => pc[f] = "deliver")
           \/ hand'[f] = hand[f] /\ f = d
    BY <1>0, <1>9 DEF AckFails, AfterAck, TypeOK
  <2> QED BY <1>3, <2>1, <2>2, <2>3
<1>10. ASSUME NEW d \in Daemons, NEW only, Return(d, only) PROVE OnceInv'
  <2>1. PICK m : /\ DOMAIN executed' = DOMAIN executed \cup {m}
                 /\ m \in Nat /\ \A k \in DOMAIN executed : executed'[k] = executed[k]
                 /\ executed'[m].origin = log[hand[d]].origin
                 /\ hand[d] # None /\ pc[d] = "deliver"
                 /\ UNCHANGED <<log, stream, last, pending, ackFailed, overlapped>>
    BY <1>10, ReturnFacts
  <2>2. \A f \in Daemons : hand'[f] = None
    BY <1>0, <1>1, <1>10, OnlyHand DEF Return, TypeOK, Up
  <2>3. Offered' = Offered
    BY <2>1 DEF Offered, Unread
  <2>4. \A c : X(c) => Excused(c)'
    BY <2>1 DEF Excused
  <2>5. \A i \in Offered : log[i].origin = log[hand[d]].origin => X(log[i].origin)
    BY <1>2, <2>1
  <2>6. \A k \in DOMAIN executed : executed[k].origin = log[hand[d]].origin => X(executed[k].origin)
    BY <1>2, <2>1
  <2>7. \A i \in Offered, k \in DOMAIN executed' :
           log[i].origin = executed'[k].origin => X(log[i].origin)
    BY <1>2, <2>1, <2>5
  <2>8. \A j, k \in DOMAIN executed' :
           j # k /\ executed'[j].origin = executed'[k].origin => X(executed'[j].origin)
    BY <1>2, <2>1, <2>6
  <2>9. AtMostOnce'
    BY <2>1, <2>4, <2>8 DEF AtMostOnce, Excused
  <2> QED BY <1>2, <2>1, <2>2, <2>3, <2>4, <2>7, <2>9 DEF OnceInv
<1>11. ASSUME NEW d \in Daemons, Start(d) \/ Crash(d) \/ \E only : RequeueFails(d, only)
       PROVE  OnceInv'
  <2>1. UNCHANGED <<log, stream, last, pending, executed, ackFailed>>
    BY <1>11 DEF Start, Crash, RequeueFails
  <2>2. Offered' = Offered
    BY <2>1 DEF Offered, Unread
  <2>3. \A f \in Daemons : hand'[f] # None =>
           hand'[f] = hand[f] /\ (pc'[f] = "deliver" => pc[f] = "deliver")
    BY <1>0, <1>11 DEF Start, Crash, RequeueFails, TypeOK
  <2> QED BY <1>1, <1>3, <2>1, <2>2, <2>3
<1>12. CASE Flush
  <2>1. Offered' = {}
    BY <1>12 DEF Flush, Offered, Unread
  <2> QED BY <1>3, <1>12, <2>1 DEF Flush
<1>13. CASE UNCHANGED ctlVars
  <2>1. Offered' = Offered
    BY <1>13 DEF ctlVars, Offered, Unread
  <2> QED BY <1>3, <1>13, <2>1 DEF ctlVars
<1> QED
  BY <1>5, <1>6, <1>7, <1>8, <1>9, <1>10, <1>11, <1>12, <1>13 DEF Next, Poll, Reading

\* No command is returned by two polls, through crashes, lost replies, trims and
\* requeues, unless an XACK for it failed or two daemons overlapped.
THEOREM ControlAtMostOnce == Spec => []AtMostOnce
<1> DEFINE I == Core /\ GroupOK /\ ExecutedOK /\ SingleInv /\ OrderInv /\ OnceInv
<1>1. Init => I
  <2> SUFFICES ASSUME Init PROVE I
    OBVIOUS
  <2>1. Len(log) = 0 /\ DOMAIN executed = {} /\ Offered = {}
    BY DEF Init, Offered, Unread
  <2>2. SingleInv /\ OrderInv
    BY <2>1 DEF Init, SingleInv, OrderInv, Up
  <2>3. OnceInv
    BY <2>1 DEF Init, OnceInv, AtMostOnce
  <2> QED
    BY <2>1, <2>2, <2>3, CoreInit DEF Init, GroupOK, ExecutedOK
<1>2. I /\ [Next]_ctlVars => I'
  BY CoreStep, GroupStep, SingleStep, OrderStep, OnceStep
<1>3. I => AtMostOnce
  BY DEF OnceInv
<1> QED
  BY <1>1, <1>2, <1>3, PTL DEF Spec

\* A command is acted on once and in its turn, for any number of daemons, words and bounds.
THEOREM ControlEachOnceInOrder == Spec => []EachOnceInOrder
<1>1. AtMostOnce /\ InStreamOrder => EachOnceInOrder
  BY DEF EachOnceInOrder
<1> QED
  BY <1>1, ControlAtMostOnce, ControlInStreamOrder, PTL

-----------------------------------------------------------------------------
(***************************************************************************)
(* The state hash. The run status is safe because of two facts that every  *)
(* write keeps: the field says "no" only after a Resume, and a daemon that *)
(* is on schedule owes its next heartbeat before the hash expires and      *)
(* before its last heartbeat stops counting.                               *)
(***************************************************************************)

(* The threshold.                                                          *)

\* A product by a factor of at least two exceeds the other factor, and grows
\* with it.
LEMMA Product ==
    ASSUME NEW k \in Nat, k > 1, NEW a \in Nat \ {0}, NEW b \in Nat, a <= b
    PROVE  k * a > a /\ k * a <= k * b /\ k * a \in Nat /\ k * b \in Nat
<1>1. k * a \in Nat /\ k * b \in Nat
    BY SMT
<1>2. k * b = k * a + k * (b - a) /\ k * (b - a) \in Nat
    BY SMT
<1>3. k * a = a + (k - 1) * a
    BY SMT
<1>4. (k - 1) * a >= a
    BY SMT
<1> QED BY <1>1, <1>2, <1>3, <1>4, SMT

\* daemon_alive_threshold_sec is above the floor's rival intervals: more than
\* the interval itself, at least the floor, at most what the longest one gives.
LEMMA Threshold ==
    ASSUME NEW i \in 0 .. MaxIv
    PROVE  /\ AliveThreshold(i) \in Nat
           /\ AliveThreshold(i) >= Floor
           /\ i \in MinIv .. MaxIv => AliveThreshold(i) > i
           /\ AliveThreshold(i) <= Intervals * MaxIv \/ AliveThreshold(i) = Floor
<1> DEFINE used == IF i <= 0 THEN DefaultIv ELSE IF i < MinIv THEN MinIv ELSE i
<1>1. /\ used \in Nat \ {0} /\ used <= MaxIv /\ (i \in MinIv .. MaxIv => used = i)
      /\ Intervals \in Nat /\ Intervals > 1 /\ MaxIv \in Nat /\ Floor \in Nat
    BY StateAssumption, SMT
<1>2. AliveThreshold(i) = IF Intervals * used > Floor THEN Intervals * used ELSE Floor
    BY StateAssumption, SMT DEF AliveThreshold
<1> HIDE DEF used
<1>3. /\ Intervals * used > used /\ Intervals * used <= Intervals * MaxIv
      /\ Intervals * used \in Nat
    BY <1>1, Product
<1> QED BY <1>1, <1>2, <1>3, SMT

-----------------------------------------------------------------------------
(* The inductive invariant.                                                *)

\* The field and the operator; the hash and its expiry.
HashInv ==
    /\ susp = "no" => order = "resume"
    /\ HasHash => clock < expires
    /\ ~HasHash => susp = "absent" /\ beat = NoBeat
    /\ beat # NoBeat => beat <= clock

\* The daemon's schedule. A process that is up and has not lost its hold owes its
\* first heartbeat now, or has written one that is good until the next is due.
OnSchedule ==
    /\ beat # NoBeat
    /\ due < beat + AliveThreshold(iv)
    /\ due < expires
    /\ susp # "absent"
    /\ process # "seeding"

DaemonInv ==
    /\ due <= clock + MaxIv
    /\ process # "down" => clock <= due
    /\ process # "down" /\ ~gap => IF beaten THEN OnSchedule ELSE due = clock
    /\ process = "online" /\ ~gap => susp # "absent"

StateInv == StateTypeOK /\ HashInv /\ DaemonInv

\* StateTypeOK in two parts: the flags apart from the rest.
Flags == shut \in BOOLEAN /\ beaten \in BOOLEAN /\ gap \in BOOLEAN

Fields ==
    /\ susp \in {"absent", "yes", "no"} /\ beat \in Nat \cup {NoBeat}
    /\ iv \in 0 .. MaxIv /\ expires \in Nat
    /\ row \in {"absent", "RUNNING", "RUNNING_SUSPENDED", "other"}
    /\ process \in {"down", "offline", "seeding", "online"}
    /\ seen \in {"none", "running", "suspended"}
    /\ order \in {"none", "resume", "suspend"}
    /\ due \in Nat /\ failures \in Nat /\ clock \in Nat

LEMMA TypeParts == /\ StateTypeOK <=> Flags /\ Fields
                   /\ StateTypeOK' <=> Flags' /\ Fields'
BY DEF StateTypeOK, Flags, Fields

LEMMA Constants ==
    /\ MaxIv \in Nat \ {0} /\ DefaultIv \in Nat \ {0} /\ Ttl \in Nat /\ Floor \in Nat
    /\ DefaultIv <= MaxIv /\ MaxIv < Ttl /\ DefaultIv < Floor
    /\ \A i \in Ivs : i \in MinIv .. MaxIv /\ i \in 1 .. MaxIv
BY StateAssumption, SMT

LEMMA StateInvInit == StateInit => StateInv
<1> SUFFICES ASSUME StateInit PROVE StateInv
    OBVIOUS
<1> USE DEF StateInit, NoBeat, HasHash
<1>1. StateTypeOK
    <2>1. Flags
        BY Zenon DEF Flags
    <2>2. Fields
        BY Constants, SMT DEF Fields
    <2> QED BY <2>1, <2>2, TypeParts
<1>2. HashInv
    BY SMT DEF HashInv
<1>3. DaemonInv
    BY Constants, SMT DEF DaemonInv
<1> QED BY <1>1, <1>2, <1>3 DEF StateInv

LEMMA StateInvStep == StateInv /\ [StateNext]_stateVars => StateInv'
<1> SUFFICES ASSUME StateInv, [StateNext]_stateVars PROVE StateInv'
    OBVIOUS
<1> USE Constants DEF StateInv, StateTypeOK, HashInv, DaemonInv, OnSchedule, NoBeat,
        HasHash, Hset, hash, daemon, Fault, Stopped, HashGone
<1>1. ASSUME NEW suspended \in BOOLEAN, SetRunStatus(suspended) PROVE StateInv'
    BY <1>1, SMT DEF SetRunStatus
<1>2. CASE StartProcess
    <2>1. StateTypeOK'
        <3>1. Flags'
            BY <1>2, TypeParts, Zenon DEF StartProcess, Flags
        <3>2. Fields'
            BY <1>2, TypeParts, SMT DEF StartProcess, Fields
        <3> QED BY <3>1, <3>2, TypeParts
    <2>2. HashInv'
        BY <1>2, SMT DEF StartProcess
    <2>3. DaemonInv'
        BY <1>2, SMT DEF StartProcess
    <2> QED BY <2>1, <2>2, <2>3
<1>3. CASE Connect
    BY <1>3, SMT DEF Connect
<1>4. CASE ConnectReadFails
    BY <1>4, SMT DEF ConnectReadFails
<1>5. CASE Seed
    BY <1>5, SMT DEF Seed
<1>6. CASE SeedFails
    BY <1>6, SMT DEF SeedFails
<1>7. CASE PingFails
    BY <1>7, SMT DEF PingFails
<1>8. ASSUME NEW i \in Ivs \cup {0}, Heartbeat(i) PROVE StateInv'
    <2>1. StateTypeOK'
        <3>1. Flags'
            BY <1>8, TypeParts, Zenon DEF Heartbeat, Owed, Flags
        <3>2. Fields'
            BY <1>8, TypeParts, SMT DEF Heartbeat, Owed, Fields
        <3> QED BY <3>1, <3>2, TypeParts
    <2>2. HashInv'
        BY <1>8, SMT DEF Heartbeat, Owed
    <2>3. DaemonInv'
        BY <1>8, Threshold, SMT DEF Heartbeat, Owed
    <2> QED BY <2>1, <2>2, <2>3
<1>9. ASSUME NEW i \in Ivs \cup {0}, HeartbeatFails(i) PROVE StateInv'
    BY <1>9, SMT DEF HeartbeatFails, Owed
<1>10. CASE Snapshot
    BY <1>10, SMT DEF Snapshot
<1>11. CASE WriteOther
    BY <1>11, SMT DEF WriteOther
<1>12. CASE PollRunStatus
    BY <1>12, SMT DEF PollRunStatus
<1>13. CASE PollFails
    BY <1>13, SMT DEF PollFails
<1>14. CASE GracefulShutdown
    BY <1>14, SMT DEF GracefulShutdown
<1>15. CASE CrashProcess
    BY <1>15, SMT DEF CrashProcess
<1>16. CASE FlushHash
    <2>1. StateTypeOK'
        <3>1. Flags'
            BY <1>16, TypeParts, Zenon DEF FlushHash, Flags
        <3>2. Fields'
            BY <1>16, TypeParts, SMT DEF FlushHash, Fields
        <3> QED BY <3>1, <3>2, TypeParts
    <2>2. HashInv'
        BY <1>16, SMT DEF FlushHash
    <2>3. DaemonInv'
        BY <1>16, SMT DEF FlushHash
    <2> QED BY <2>1, <2>2, <2>3
<1>17. CASE Tick
    <2>1. StateTypeOK'
        <3>1. Flags'
            BY <1>17, TypeParts, Zenon DEF Tick, Flags
        <3>2. Fields'
            BY <1>17, TypeParts, SMT DEF Tick, Fields
        <3> QED BY <3>1, <3>2, TypeParts
    <2>2. HashInv'
        BY <1>17, SMT DEF Tick
    <2>3. DaemonInv'
        BY <1>17, SMT DEF Tick
    <2> QED BY <2>1, <2>2, <2>3
<1>18. CASE UNCHANGED stateVars
    BY <1>18, SMT DEF stateVars
<1> QED BY <1>1, <1>2, <1>3, <1>4, <1>5, <1>6, <1>7, <1>8, <1>9, <1>10, <1>11,
          <1>12, <1>13, <1>14, <1>15, <1>16, <1>17, <1>18 DEF StateNext

LEMMA StateInvariant == StateSpec => []StateInv
<1>1. StateInit => StateInv
    BY StateInvInit
<1>2. StateInv /\ [StateNext]_stateVars => StateInv'
    BY StateInvStep
<1> QED BY <1>1, <1>2, PTL DEF StateSpec

-----------------------------------------------------------------------------
(* The theorems.                                                           *)

\* The fields of the hash, the daemon and the clock keep their types.
THEOREM StateTypes == StateSpec => []StateTypeOK
<1>1. StateInv => StateTypeOK
    BY DEF StateInv
<1> QED BY <1>1, StateInvariant, PTL

\* A daemon that holds its connection and its schedule never finds the run
\* status expired.
THEOREM StateRunStatusKept == StateSpec => []RunStatusKept
<1>1. StateInv => RunStatusKept
    BY DEF StateInv, DaemonInv, RunStatusKept
<1> QED BY <1>1, StateInvariant, PTL

\* is_daemon_alive never calls a daemon on schedule dead, at any interval.
THEOREM StateHealthyNeverDead == StateSpec => []HealthyNeverDead
<1>1. StateInv => HealthyNeverDead
    <2> SUFFICES ASSUME StateInv, process # "down", beaten, ~gap PROVE Alive
        BY DEF HealthyNeverDead
    <2>1. beat # NoBeat /\ due < beat + AliveThreshold(iv) /\ clock <= due
        BY DEF StateInv, DaemonInv, OnSchedule
    <2>2. AliveThreshold(iv) \in Nat /\ beat \in Nat /\ due \in Nat /\ clock \in Nat
        BY <2>1, Threshold DEF StateInv, StateTypeOK
    <2> QED BY <2>1, <2>2, SMT DEF Alive
<1> QED BY <1>1, StateInvariant, PTL

\* A daemon on schedule keeps its run status and its life, for any TTL and interval.
THEOREM StateOnSchedule == StateSpec => []OnScheduleIsAlive
<1>1. RunStatusKept /\ HealthyNeverDead => OnScheduleIsAlive
    BY DEF OnScheduleIsAlive
<1> QED BY <1>1, StateRunStatusKept, StateHealthyNeverDead, PTL

\* A heartbeat stops counting after the longest threshold, and with the hash.
THEOREM StateDeadIsNoticed == StateSpec => []DeadIsNoticed
<1>1. StateInv => DeadIsNoticed
    <2> SUFFICES ASSUME StateInv, Alive PROVE
            (clock < beat + Intervals * MaxIv \/ clock < beat + Floor) /\ clock < expires
        BY DEF DeadIsNoticed
    <2>1. beat # NoBeat /\ clock - beat < AliveThreshold(iv)
        BY DEF Alive
    <2>2. clock < expires
        BY <2>1 DEF StateInv, HashInv
    <2>3. /\ AliveThreshold(iv) \in Nat /\ beat \in Nat /\ clock \in Nat
          /\ AliveThreshold(iv) <= Intervals * MaxIv \/ AliveThreshold(iv) = Floor
        BY <2>1, Threshold DEF StateInv, StateTypeOK
    <2>4. Intervals * MaxIv \in Int /\ Floor \in Int
        BY StateAssumption, SMT
    <2> DEFINE longest == Intervals * MaxIv
    <2> HIDE DEF longest
    <2>5. longest = Intervals * MaxIv
        BY DEF longest
    <2>6. clock < beat + longest \/ clock < beat + Floor
        BY <2>1, <2>3, <2>4, <2>5, SMT
    <2> QED BY <2>2, <2>5, <2>6
<1> QED BY <1>1, StateInvariant, PTL

\* The hash says "run" only after a Resume, and the daemon starts to trade only
\* on reading it.
THEOREM StateOnlyResumeEnables == StateSpec => OnlyResumeEnables
<1>1. StateInv /\ StateInv' /\ [StateNext]_stateVars =>
         [ /\ susp' = "no" => order' = "resume"
           /\ seen' = "running" /\ seen # "running" => order = "resume" /\ susp = "no"
         ]_stateVars
    <2> SUFFICES ASSUME StateInv, StateInv', StateNext,
                        seen' = "running", seen # "running"
                 PROVE  order = "resume" /\ susp = "no"
        BY DEF StateInv, HashInv
    <2>1. PollRunStatus
        BY DEF StateNext, SetRunStatus, StartProcess, Connect, ConnectReadFails, Seed,
               SeedFails, PingFails, Heartbeat, HeartbeatFails, Snapshot, WriteOther, PollFails,
               GracefulShutdown, CrashProcess, FlushHash, Tick, Stopped, daemon
    <2> QED BY <2>1 DEF PollRunStatus, StateInv, HashInv
<1> QED BY <1>1, StateInvariant, PTL DEF StateSpec, OnlyResumeEnables

\* derive_health_roll_up is green, under a daemon that holds the hash, only while
\* the operator's last word is Resume.
THEOREM StateGreenMeansResumed == StateSpec => []GreenMeansResumed
<1>1. StateInv => GreenMeansResumed
    <2> SUFFICES ASSUME StateInv, NEW ib \in BOOLEAN, NEW trouble \in BOOLEAN,
                        NEW monitorLamp \in {"green", "yellow", "red"},
                        NEW socketLamp \in {"green", "yellow"},
                        HealthLamp(ib, trouble, monitorLamp, socketLamp) = "green",
                        process = "online", ~gap
                 PROVE  order = "resume"
        BY DEF GreenMeansResumed
    <2>1. LampRank(DaemonLamp(ib, trouble)) \notin {2, 3}
        BY SMT DEF HealthLamp
    <2>2. DaemonLamp(ib, trouble) = "green"
        BY <2>1, SMT DEF LampRank, DaemonLamp
    <2>3. susp # "yes"
        BY <2>2 DEF DaemonLamp
    <2>4. susp # "absent" /\ susp \in {"absent", "yes", "no"}
        BY DEF StateInv, DaemonInv, StateTypeOK
    <2> QED BY <2>3, <2>4 DEF StateInv, HashInv
<1> QED BY <1>1, StateInvariant, PTL

\* What the lamps say of the daemon is so, for any TTL, floor and interval.
THEOREM StateLampsAreRight == StateSpec => []LampsAreRight
<1>1. OnScheduleIsAlive /\ DeadIsNoticed /\ GreenMeansResumed => LampsAreRight
    BY DEF LampsAreRight
<1> QED BY <1>1, StateOnSchedule, StateDeadIsNoticed, StateGreenMeansResumed, PTL
=============================================================================
