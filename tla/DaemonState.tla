----------------------------- MODULE DaemonState -----------------------------
(***************************************************************************)
(* The state half of the daemon IPC: one Redis HASH with a TTL that the    *)
(* trading daemon and the operator write field by field, and the Monitor   *)
(* reads to light the lamps (persistence/redis_daemon_state.py,            *)
(* TradingDaemonSink, monitor/self_check.py).                              *)
(*                                                                         *)
(* A write is one MULTI of HSET and EXPIRE, hence one step. Connecting     *)
(* reads the hash and then writes a default, hence two. Time advances only *)
(* between calls, and never past a heartbeat a live daemon owes.           *)
(***************************************************************************)
EXTENDS Integers

CONSTANTS
    Ttl,            \* STATE_TTL_SEC
    Floor,          \* DAEMON_ALIVE_FLOOR_SEC
    Intervals,      \* DAEMON_ALIVE_INTERVALS
    MinIv,          \* HEARTBEAT_INTERVAL_MIN_SEC
    MaxIv,          \* HEARTBEAT_INTERVAL_MAX_SEC
    DefaultIv,      \* DEFAULT_HEARTBEAT_INTERVAL_SEC, also what a seed writes
    Ivs,            \* heartbeat intervals the daemon runs with
    MaxFailures,    \* bound: failed calls, crashes and flushes
    MaxTime         \* bound: the clock

ASSUME StateAssumption ==
    /\ {Ttl, Floor, Intervals, MinIv, MaxIv, DefaultIv} \subseteq Nat \ {0}
    /\ MinIv <= DefaultIv /\ DefaultIv <= MaxIv
    /\ MaxIv < Ttl
    /\ DefaultIv < Floor
    /\ Intervals > 1
    /\ Ivs \subseteq MinIv .. MaxIv
    /\ MaxFailures \in Nat
    /\ MaxTime \in Nat

VARIABLES
    susp,           \* field suspended: "yes", "no" or "absent"
    beat,           \* field last_ts, or NoBeat
    iv,             \* field heartbeat_interval_sec, or 0
    shut,           \* field graceful_shutdown_at is set
    row,            \* field daemon_state of the snapshot, or "absent"
    expires,        \* when the hash expires; 0 when there is none
    process,        \* the daemon: its process and its Redis client
    seen,           \* what poll_run_status last told the daemon
    order,          \* history: the operator's last instruction to reach Redis
    due,            \* when the daemon's next heartbeat is due
    beaten,         \* history: this process has written a heartbeat
    gap,            \* history: the daemon's hold on the hash was broken
    failures,       \* number of faults so far
    clock           \* wall clock

hash == <<susp, beat, iv, shut, row, expires>>
daemon == <<process, seen, due, beaten, gap>>
stateVars == <<hash, daemon, order, failures, clock>>

NoBeat == -1
HasHash == expires # 0

StateTypeOK ==
    /\ susp \in {"absent", "yes", "no"}
    /\ beat \in Nat \cup {NoBeat}
    /\ iv \in 0 .. MaxIv
    /\ shut \in BOOLEAN
    /\ row \in {"absent", "RUNNING", "RUNNING_SUSPENDED", "other"}
    /\ expires \in Nat
    /\ process \in {"down", "offline", "seeding", "online"}
    /\ seen \in {"none", "running", "suspended"}
    /\ order \in {"none", "resume", "suspend"}
    /\ due \in Nat
    /\ beaten \in BOOLEAN
    /\ gap \in BOOLEAN
    /\ failures \in Nat
    /\ clock \in Nat

StateInit ==
    /\ susp = "absent" /\ beat = NoBeat /\ iv = 0 /\ shut = FALSE /\ row = "absent"
    /\ expires = 0
    /\ process = "down" /\ seen = "none" /\ due = 0 /\ beaten = FALSE /\ gap = FALSE
    /\ order = "none" /\ failures = 0 /\ clock = 0

-----------------------------------------------------------------------------
(* self_check: what the Monitor derives from the hash.                     *)

\* daemon_alive_threshold_sec: max(Floor, Intervals x the clamped interval).
AliveThreshold(i) ==
    LET asked == IF i <= 0 THEN DefaultIv ELSE i
        used == IF asked < MinIv THEN MinIv ELSE IF asked > MaxIv THEN MaxIv ELSE asked
    IN  IF Intervals * used > Floor THEN Intervals * used ELSE Floor


\* is_daemon_alive
Alive == beat # NoBeat /\ clock - beat < AliveThreshold(iv)

\* derive_daemon_self_check. ib: the heartbeat's ib_connected; trouble: the
\* snapshot row shows a data lag or a trading state that degrades.
DaemonLamp(ib, trouble) ==
    IF ~HasHash \/ ~Alive THEN "red"
    ELSE IF ~ib THEN "yellow"
    ELSE IF row \notin {"RUNNING", "RUNNING_SUSPENDED"} THEN "red"
    ELSE IF susp = "yes" \/ row = "RUNNING_SUSPENDED" \/ trouble THEN "yellow"
    ELSE "green"

LampRank(lamp) == CASE lamp = "red" -> 3 [] lamp = "yellow" -> 2 [] OTHER -> 1

\* derive_health_roll_up: the worst of the daemon's, the Monitor's and the
\* socket segment's lamp (the segment is yellow or green).
HealthLamp(ib, trouble, monitorLamp, socketLamp) ==
    LET ranks == {LampRank(DaemonLamp(ib, trouble)), LampRank(monitorLamp),
                  LampRank(socketLamp)}
    IN  IF 3 \in ranks THEN "red" ELSE IF 2 \in ranks THEN "yellow" ELSE "green"

-----------------------------------------------------------------------------
(* Redis.                                                                  *)

Fault == failures < MaxFailures /\ failures' = failures + 1

\* Mutant: the TTL is set when the hash is created and never refreshed.
HsetNoExpire(s, b, i, sh, r) ==
    /\ susp' = s /\ beat' = b /\ iv' = i /\ shut' = sh /\ row' = r
    /\ expires' = IF HasHash THEN expires ELSE clock + Ttl

\* write_trading_daemon_state: HSET the given fields, leave the others, EXPIRE.
Hset(s, b, i, sh, r) ==
    /\ susp' = s /\ beat' = b /\ iv' = i /\ shut' = sh /\ row' = r
    /\ expires' = clock + Ttl

HashGone ==
    /\ susp' = "absent" /\ beat' = NoBeat /\ iv' = 0 /\ shut' = FALSE /\ row' = "absent"
    /\ expires' = 0

-----------------------------------------------------------------------------
(* The operator, through the Monitor API.                                  *)

\* write_run_status(suspended=...); a call that fails changes nothing.
SetRunStatus(suspended) ==
    /\ Hset(IF suspended THEN "yes" ELSE "no", beat, iv, shut, row)
    /\ order' = IF suspended THEN "suspend" ELSE "resume"
    /\ UNCHANGED <<daemon, failures, clock>>

-----------------------------------------------------------------------------
(* The daemon. Every call begins with _ensure_redis, so an offline client  *)
(* connects first.                                                         *)

StartProcess ==
    /\ process = "down"
    /\ process' = "offline" /\ seen' = "none" /\ due' = clock /\ beaten' = FALSE
    /\ gap' = FALSE
    /\ UNCHANGED <<hash, order, failures, clock>>

\* _connect_redis reads the hash; the default is written only if suspended is
\* missing.
Connect ==
    /\ process = "offline"
    /\ process' = IF susp = "absent" THEN "seeding" ELSE "online"
    /\ UNCHANGED <<hash, seen, due, beaten, gap, order, failures, clock>>

\* read_trading_daemon_state answers None when the read fails, and "or {}" makes
\* that an empty state.
ConnectReadFails ==
    /\ process = "offline" /\ Fault
    /\ process' = "seeding" /\ gap' = TRUE
    /\ UNCHANGED <<hash, seen, due, beaten, order, clock>>

\* Mutant: the seed leaves trading on.
SeedRunning ==
    /\ process = "seeding"
    /\ Hset("no", beat, DefaultIv, shut, row)
    /\ process' = "online"
    /\ UNCHANGED <<seen, due, beaten, gap, order, failures, clock>>

\* set_trading_run_status(suspended=True, heartbeat_interval_sec=10)
Seed ==
    /\ process = "seeding"
    /\ Hset("yes", beat, DefaultIv, shut, row)
    /\ process' = "online"
    /\ UNCHANGED <<seen, due, beaten, gap, order, failures, clock>>

SeedFails ==
    /\ process = "seeding" /\ Fault
    /\ process' = "online" /\ gap' = TRUE
    /\ UNCHANGED <<hash, seen, due, beaten, order, clock>>

\* _ensure_redis: the ping fails and the client is dropped.
PingFails ==
    /\ process = "online" /\ Fault
    /\ process' = "offline"
    /\ UNCHANGED <<hash, seen, due, beaten, gap, order, clock>>

Owed(i) == clock + (IF i = 0 THEN DefaultIv ELSE i)

\* write_daemon_heartbeat when one is due; an interval of None (0) is not written.
Heartbeat(i) ==
    /\ process = "online" /\ clock = due
    /\ Hset(susp, clock, IF i = 0 THEN iv ELSE i, FALSE, row)
    /\ due' = Owed(i) /\ beaten' = TRUE
    /\ UNCHANGED <<process, seen, gap, order, failures, clock>>

\* The write fails, or there is still no client and the call is a no-op.
HeartbeatFails(i) ==
    /\ process \in {"offline", "online"} /\ clock = due /\ Fault
    /\ due' = Owed(i) /\ gap' = TRUE
    /\ UNCHANGED <<hash, process, seen, beaten, order, clock>>

\* write_snapshot: the daemon reports the state of its own machine; trading
\* states follow what it last polled.
Snapshot ==
    /\ process = "online"
    /\ \E r \in {"other", IF seen = "running" THEN "RUNNING" ELSE "RUNNING_SUSPENDED"} :
          Hset(susp, beat, iv, shut, r)
    /\ UNCHANGED <<daemon, order, failures, clock>>

\* write_daemon_control_message, write_daemon_subscribed_tickers: fields no one
\* here reads, but the hash lives on (or comes into being).
WriteOther ==
    /\ process = "online"
    /\ Hset(susp, beat, iv, shut, row)
    /\ UNCHANGED <<daemon, order, failures, clock>>

\* Mutants: a missing field means running; a running daemon no longer looks.
PollDefaultsToRunning ==
    /\ process = "online"
    /\ seen' = IF susp = "yes" THEN "suspended" ELSE "running"
    /\ UNCHANGED <<hash, process, due, beaten, gap, order, failures, clock>>

PollUntilRunning ==
    /\ process = "online" /\ seen # "running"
    /\ seen' = IF susp = "no" THEN "running" ELSE "suspended"
    /\ UNCHANGED <<hash, process, due, beaten, gap, order, failures, clock>>

\* poll_run_status: suspended unless the hash says otherwise.
PollRunStatus ==
    /\ process = "online"
    /\ seen' = IF susp = "no" THEN "running" ELSE "suspended"
    /\ UNCHANGED <<hash, process, due, beaten, gap, order, failures, clock>>

\* No client, or the read fails: suspended.
PollFails ==
    /\ process \in {"offline", "online"} /\ Fault
    /\ seen' = "suspended"
    /\ UNCHANGED <<hash, process, due, beaten, gap, order, clock>>

Stopped == process' = "down" /\ seen' = "none" /\ UNCHANGED <<due, beaten, gap>>

\* write_daemon_graceful_shutdown, then the process ends.
GracefulShutdown ==
    /\ process = "online"
    /\ Hset(susp, clock, iv, TRUE, row)
    /\ Stopped
    /\ UNCHANGED <<order, failures, clock>>

CrashProcess ==
    /\ process # "down" /\ Fault
    /\ Stopped
    /\ UNCHANGED <<hash, order, clock>>

-----------------------------------------------------------------------------
(* The server and time.                                                    *)

FlushHash ==
    /\ HasHash /\ Fault
    /\ HashGone
    /\ gap' = TRUE
    /\ UNCHANGED <<process, seen, due, beaten, order, clock>>

Tick ==
    /\ clock < MaxTime
    /\ process # "seeding"
    /\ process # "down" => clock < due
    /\ clock' = clock + 1
    /\ IF HasHash /\ expires <= clock + 1 THEN HashGone ELSE UNCHANGED hash
    /\ UNCHANGED <<daemon, order, failures>>

StateNext ==
    \/ \E suspended \in BOOLEAN : SetRunStatus(suspended)
    \/ StartProcess \/ Connect \/ ConnectReadFails \/ Seed \/ SeedFails \/ PingFails
    \/ \E i \in Ivs \cup {0} : Heartbeat(i) \/ HeartbeatFails(i)
    \/ Snapshot \/ WriteOther \/ PollRunStatus \/ PollFails
    \/ GracefulShutdown \/ CrashProcess \/ FlushHash \/ Tick

StateSpec == StateInit /\ [][StateNext]_stateVars

\* The main loop polls the run status on every iteration, connecting first.
StateFairness == WF_stateVars(Connect) /\ WF_stateVars(Seed) /\ WF_stateVars(PollRunStatus)
StateFairSpec == StateSpec /\ StateFairness

-----------------------------------------------------------------------------
(* Properties.                                                             *)

\* "Default suspended=true until explicit Resume": the hash, whatever expiry,
\* seed, partial write or restart did to it, lets the daemon trade only while the
\* operator's last word was Resume; nothing else ever turns it on.
OnlyResumeEnables ==
    [][ /\ susp' = "no" => order' = "resume"
        /\ seen' = "running" /\ seen # "running" => order = "resume" /\ susp = "no"
      ]_stateVars

\* A daemon that heartbeats on schedule, never loses its connection for a whole
\* interval and reads what it asks for keeps the hash, and the run status in it,
\* from expiring.
RunStatusKept == process = "online" /\ ~gap => susp # "absent"

\* TD-76: a daemon on schedule is never called dead, at any interval.
HealthyNeverDead == process # "down" /\ beaten /\ ~gap => Alive

\* A daemon on schedule neither loses its run status to the TTL nor is called dead
\* (redis_daemon_state.write_trading_daemon_state, self_check.is_daemon_alive).
OnScheduleIsAlive == RunStatusKept /\ HealthyNeverDead

\* A daemon that is gone is not called alive for ever: the last heartbeat counts
\* for at most the longest threshold, and never past the hash.
DeadIsNoticed ==
    Alive => /\ clock < beat + Intervals * MaxIv \/ clock < beat + Floor
             /\ clock < expires

\* While a daemon holds the hash, the roll-up is green only if the operator has
\* resumed trading and not suspended it since, whatever else is fine.
GreenMeansResumed ==
    \A ib, trouble \in BOOLEAN, monitorLamp \in {"green", "yellow", "red"},
       socketLamp \in {"green", "yellow"} :
        /\ HealthLamp(ib, trouble, monitorLamp, socketLamp) = "green"
        /\ process = "online" /\ ~gap
        => order = "resume"

\* What the lamps say of the daemon is so: on schedule it is alive and keeps its run status,
\* gone it is soon called dead, and green is a daemon that was resumed (self_check.py).
LampsAreRight == OnScheduleIsAlive /\ DeadIsNoticed /\ GreenMeansResumed

\* A Suspend reaches the daemon: it stops trading, unless it is resumed first.
SuspendReaches == order = "suspend" ~> (seen # "running" \/ order # "suspend")
=============================================================================
