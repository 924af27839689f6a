---------------------------- MODULE WorkerHealth ----------------------------
(***************************************************************************)
(* The worker registry (services/workermanager, repository/worker) and the *)
(* in-memory health cache in front of it (services/workerhealth).          *)
(*                                                                         *)
(* The background monitor and the request goroutines that miss the cache   *)
(* probe a worker through one singleflight flight per worker; requests     *)
(* that create or update a worker seed the cache without a flight.  Both   *)
(* paths change the cache under the lock and record the worker.offline or  *)
(* worker.recovered event only after releasing it.                         *)
(***************************************************************************)
EXTENDS Integers, FiniteSets

CONSTANTS
  Workers,        \* worker ids, each registered at most once
  Requests,       \* request goroutines that create, update or delete workers
  Readers,        \* request goroutines of ListWorkers / GetWorker
  FailThreshold,  \* consecutiveFailThreshold
  MaxConfig,      \* bound: configurations a worker row goes through
  MaxFlips,       \* bound: changes of what a qBittorrent server answers
  MaxRestarts     \* bound: process restarts

ASSUME HealthAssumption ==
  /\ FailThreshold \in Nat \ {0}
  /\ MaxConfig \in Nat \ {0} /\ MaxFlips \in Nat /\ MaxRestarts \in Nat
  /\ "monitor" \notin Readers /\ IsFiniteSet(Readers)

VARIABLES
  rows,       \* workers present in the database
  cfg,        \* address and credentials of a row, as a version number
  health,     \* Service.health, with NoEntry for an absent key
  call,       \* per probing goroutine and worker: snapshot and progress
  flight,     \* singleflight.Group: the one probe in flight per worker
  op,         \* progress of each create / update / delete request
  announced,  \* history: last worker event stored for the worker
  missed,     \* history: the latest event of the worker was not stored
  crossed,    \* history: its latest event was built while another was pending
  world,      \* what each qBittorrent server answers now
  flips, restarts

vars == <<rows, cfg, health, call, flight, op, announced, missed, crossed, world,
          flips, restarts>>

Callers  == Readers \cup {"monitor"}
Configs  == 0 .. MaxConfig
Outcomes == {"up", "starting", "down"}
Statuses == {"PENDING", "ACTIVE", "INITIALIZING", "ERRORED"}
Events   == {"none", "offline", "recovered"}

\* A cache entry.  evidence and base are history: the configurations the
\* probes of the current run of failures used, and the configuration of the
\* latest Seed.
Entry   == [status : Statuses, fails : 0 .. FailThreshold,
            evidence : SUBSET Configs, base : Configs]
NoEntry == [status |-> "none", fails |-> 0, evidence |-> {}, base |-> 0]

IdleCall == [pc |-> "idle", cfg |-> 0]
NoFlight == [pc |-> "none", cfg |-> 0, event |-> "none"]
OpAt(pc, w, v) == [pc |-> pc, w |-> w, cfg |-> v, outcome |-> "up", event |-> "none"]
IdleOp   == OpAt("idle", "none", 0)

CallState   == [pc : {"idle", "lookup", "refresh", "wait"}, cfg : Configs]
FlightState == [pc : {"none", "probe", "notify"}, cfg : Configs, event : Events]
OpState     == [pc : {"idle", "check", "seed", "notify", "evict"},
                w : Workers \cup {"none"}, cfg : Configs,
                outcome : Outcomes, event : Events]

HealthType == health \in [Workers -> Entry \cup {NoEntry}]
CallType   == call \in [Callers -> [Workers -> CallState]]
FlightType == flight \in [Workers -> FlightState]
OpType     == /\ op \in [Requests -> OpState]
              /\ \A q \in Requests : op[q].pc # "idle" => op[q].w \in Workers

\* Every variable holds a value of its kind, and a request under way names the
\* worker it is about.
TypeOK ==
  /\ rows \subseteq Workers
  /\ cfg \in [Workers -> Configs]
  /\ HealthType /\ CallType /\ FlightType /\ OpType
  /\ announced \in [Workers -> Events]
  /\ missed \in [Workers -> BOOLEAN] /\ crossed \in [Workers -> BOOLEAN]
  /\ world \in [Workers -> Outcomes]
  /\ flips \in 0 .. MaxFlips
  /\ restarts \in 0 .. MaxRestarts

-----------------------------------------------------------------------------
(* Cache entries and transition events. *)

\* Mistake: an absent entry is used with its zero value instead of PENDING.
EntryOfZeroValue(h) == h

\* entryLocked: an absent entry is created PENDING.
EntryOf(h) == IF h = NoEntry THEN [NoEntry EXCEPT !.status = "PENDING"] ELSE h

\* classifyProbeError: 503 is a server still starting, all else an outage.
StatusOf(outcome) ==
  CASE outcome = "up"       -> "ACTIVE"
    [] outcome = "starting" -> "INITIALIZING"
    [] outcome = "down"     -> "ERRORED"

\* consecutiveFails++, saturated at the only value it is compared with.
Bump(n) == IF n < FailThreshold THEN n + 1 ELSE n

\* record: a failure becomes visible once repeated FailThreshold times.
Recorded(h, outcome, v) ==
  IF outcome # "down"
  THEN [h EXCEPT !.status = StatusOf(outcome), !.fails = 0, !.evidence = {}]
  ELSE [h EXCEPT !.fails = Bump(@), !.evidence = @ \cup {v},
                 !.status = IF Bump(h.fails) < FailThreshold THEN @ ELSE "ERRORED"]

\* Mistake: Seed forgets to reset consecutiveFails.
SeededKeepingCount(h, outcome, v) ==
  [h EXCEPT !.status = StatusOf(outcome), !.base = v]

\* Seed: the result of an explicit user action is visible at once.
Seeded(h, outcome, v) ==
  [status |-> StatusOf(outcome), fails |-> 0, evidence |-> {}, base |-> v]

\* Mistake: only a worker that was ACTIVE is reported offline.
TransitionFromActive(prev, next) ==
  CASE next = "ERRORED" /\ prev = "ACTIVE"  -> "offline"
    [] next = "ACTIVE"  /\ prev = "ERRORED" -> "recovered"
    [] OTHER                                -> "none"

\* The event notifyTransition builds for a change of status.
Transition(prev, next) ==
  CASE next = "ERRORED" /\ prev # "ERRORED" -> "offline"
    [] next = "ACTIVE"  /\ prev = "ERRORED" -> "recovered"
    [] OTHER                                -> "none"

\* Mistake: storing waits for a subscriber that may never drain.
AnnounceBlocking(w, event) ==
  /\ ~missed[w]
  /\ \/ announced' = [announced EXCEPT ![w] = event] /\ UNCHANGED missed
     \/ missed' = [missed EXCEPT ![w] = TRUE] /\ UNCHANGED announced

\* eventSvc.Record: stored, or the store fails and the event is only logged.
Announce(w, event) ==
  \/ /\ announced' = [announced EXCEPT ![w] = event]
     /\ missed' = [missed EXCEPT ![w] = FALSE]
  \/ /\ missed' = [missed EXCEPT ![w] = TRUE]
     /\ UNCHANGED announced

\* A notification of w is on its way.
Pending(w) ==
  \/ flight[w].pc = "notify"
  \/ \E q \in Requests : op[q].w = w /\ op[q].pc = "notify"

\* An event of w is built by notifyTransition, or none.
Build(w, event) ==
  crossed' = IF event = "none" THEN crossed ELSE [crossed EXCEPT ![w] = Pending(w)]

\* GetInstance with configuration v: the server's answer if v is the row's
\* current configuration, anything if the snapshot is out of date.
Answers(w, v) == IF v = cfg[w] THEN {world[w]} ELSE Outcomes

-----------------------------------------------------------------------------
Init ==
  /\ rows \in SUBSET Workers
  /\ cfg = [w \in Workers |-> IF w \in rows THEN 1 ELSE 0]
  /\ health = [w \in Workers |-> NoEntry]
  /\ call = [c \in Callers |-> [w \in Workers |-> IdleCall]]
  /\ flight = [w \in Workers |-> NoFlight]
  /\ op = [q \in Requests |-> IdleOp]
  /\ announced = [w \in Workers |-> "none"]
  /\ missed = [w \in Workers |-> FALSE] /\ crossed = [w \in Workers |-> FALSE]
  /\ world \in [Workers -> Outcomes]
  /\ flips = 0 /\ restarts = 0

(* The probing goroutines. *)

AllIdle(c) == \A w \in Workers : call[c][w] = IdleCall

\* Mistake: workers known to be down are skipped, as ListTasks skips them.
ForkSkippingErrored(c, pc) ==
  call' = [call EXCEPT ![c] =
             [w \in Workers |-> IF w \in rows /\ health[w].status # "ERRORED"
                                THEN [pc |-> pc, cfg |-> cfg[w]] ELSE IdleCall]]

\* Every registered worker gets a goroutine holding its row.
Fork(c, pc) ==
  call' = [call EXCEPT ![c] =
             [w \in Workers |-> IF w \in rows THEN [pc |-> pc, cfg |-> cfg[w]]
                                ELSE IdleCall]]

\* probeAll on a tick; the loop waits for the previous round (wg.Wait).
Tick ==
  /\ AllIdle("monitor")
  /\ Fork("monitor", "refresh")
  /\ UNCHANGED <<rows, cfg, health, flight, op, announced, missed, crossed, world, flips, restarts>>

\* ListWorkers or GetWorker reads the rows ...
ReadRows(r) ==
  /\ AllIdle(r)
  /\ Fork(r, "lookup")
  /\ UNCHANGED <<rows, cfg, health, flight, op, announced, missed, crossed, world, flips, restarts>>

\* ... and probes only a worker that is not in the cache at all.
Lookup(r, w) ==
  /\ call[r][w].pc = "lookup"
  /\ call' = [call EXCEPT ![r][w] = IF health[w] = NoEntry
                                    THEN [@ EXCEPT !.pc = "refresh"] ELSE IdleCall]
  /\ UNCHANGED <<rows, cfg, health, flight, op, announced, missed, crossed, world, flips, restarts>>

\* Refresh: start the worker's flight, or wait for the one in progress.
Refresh(c, w) ==
  /\ call[c][w].pc = "refresh"
  /\ call' = [call EXCEPT ![c][w].pc = "wait"]
  /\ flight' = [flight EXCEPT ![w] = IF @ = NoFlight
                                     THEN [@ EXCEPT !.pc = "probe", !.cfg = call[c][w].cfg]
                                     ELSE @]
  /\ UNCHANGED <<rows, cfg, health, op, announced, missed, crossed, world, flips, restarts>>

\* The flight ends: everyone waiting for it returns.
Land(w) ==
  /\ flight' = [flight EXCEPT ![w] = NoFlight]
  /\ call' = [c \in Callers |->
                [call[c] EXCEPT ![w] = IF @.pc = "wait" THEN IdleCall ELSE @]]

\* probeWithTimeout returns and record applies the outcome under the lock.
ProbeReturns(w) ==
  /\ flight[w].pc = "probe"
  /\ \E outcome \in Answers(w, flight[w].cfg) :
       LET h     == EntryOf(health[w])
           next  == Recorded(h, outcome, flight[w].cfg)
           event == Transition(h.status, next.status)
       IN /\ health' = [health EXCEPT ![w] = next]
          /\ Build(w, event)
          /\ IF event = "none"
             THEN Land(w)
             ELSE /\ flight' = [flight EXCEPT ![w].pc = "notify", ![w].event = event]
                  /\ UNCHANGED call
  /\ UNCHANGED <<rows, cfg, op, announced, missed, world, flips, restarts>>

\* notifyTransition of a flight, after the lock was released.
NotifyFlight(w) ==
  /\ flight[w].pc = "notify"
  /\ Announce(w, flight[w].event)
  /\ Land(w)
  /\ UNCHANGED <<rows, cfg, health, op, crossed, world, flips, restarts>>

-----------------------------------------------------------------------------
(* Requests that change the registry. *)

\* CreateWorker: the connectivity check succeeded, the row is inserted.
CreateWorker(q, w) ==
  /\ op[q].pc = "idle" /\ cfg[w] = 0
  /\ rows' = rows \cup {w}
  /\ cfg' = [cfg EXCEPT ![w] = 1]
  /\ op' = [op EXCEPT ![q] = OpAt("seed", w, 1)]
  /\ UNCHANGED <<health, call, flight, announced, missed, crossed, world, flips, restarts>>

\* UpdateWorker: the new configuration is persisted first.
UpdateWorker(q, w) ==
  /\ op[q].pc = "idle" /\ w \in rows /\ cfg[w] < MaxConfig
  /\ cfg' = [cfg EXCEPT ![w] = @ + 1]
  /\ op' = [op EXCEPT ![q] = OpAt("check", w, cfg[w] + 1)]
  /\ UNCHANGED <<rows, health, call, flight, announced, missed, crossed, world, flips, restarts>>

\* UpdateWorker's own GetInstance, outside the singleflight group.
UpdateCheck(q) ==
  /\ op[q].pc = "check"
  /\ \E outcome \in Answers(op[q].w, op[q].cfg) :
       op' = [op EXCEPT ![q].pc = "seed", ![q].outcome = outcome]
  /\ UNCHANGED <<rows, cfg, health, call, flight, announced, missed, crossed, world, flips, restarts>>

\* Seed, under the lock.
Seed(q) ==
  /\ op[q].pc = "seed"
  /\ LET w     == op[q].w
         h     == EntryOf(health[w])
         next  == Seeded(h, op[q].outcome, op[q].cfg)
         event == Transition(h.status, next.status)
     IN /\ health' = [health EXCEPT ![w] = next]
        /\ Build(w, event)
        /\ op' = [op EXCEPT ![q] = IF event = "none" THEN IdleOp
                                   ELSE [@ EXCEPT !.pc = "notify", !.event = event]]
  /\ UNCHANGED <<rows, cfg, call, flight, announced, missed, world, flips, restarts>>

\* notifyTransition of a Seed, after the lock was released.
NotifyRequest(q) ==
  /\ op[q].pc = "notify"
  /\ Announce(op[q].w, op[q].event)
  /\ op' = [op EXCEPT ![q] = IdleOp]
  /\ UNCHANGED <<rows, cfg, health, call, flight, crossed, world, flips, restarts>>

\* DeleteWorker: the row goes first ...
DeleteWorker(q, w) ==
  /\ op[q].pc = "idle" /\ w \in rows
  /\ rows' = rows \ {w}
  /\ op' = [op EXCEPT ![q] = OpAt("evict", w, 0)]
  /\ UNCHANGED <<cfg, health, call, flight, announced, missed, crossed, world, flips, restarts>>

\* ... then health.Delete evicts the cache entry.
EvictHealth(q) ==
  /\ op[q].pc = "evict"
  /\ health' = [health EXCEPT ![op[q].w] = NoEntry]
  /\ op' = [op EXCEPT ![q] = IdleOp]
  /\ UNCHANGED <<rows, cfg, call, flight, announced, missed, crossed, world, flips, restarts>>

-----------------------------------------------------------------------------
(* The environment. *)

\* A server goes down, starts up, comes back or times out for a while.
Flip(w) ==
  /\ flips < MaxFlips
  /\ \E answer \in Outcomes \ {world[w]} : world' = [world EXCEPT ![w] = answer]
  /\ flips' = flips + 1
  /\ UNCHANGED <<rows, cfg, health, call, flight, op, announced, missed, crossed, restarts>>

\* The process restarts: only the database survives.
Restart ==
  /\ restarts < MaxRestarts
  /\ restarts' = restarts + 1
  /\ health' = [w \in Workers |-> NoEntry]
  /\ call' = [c \in Callers |-> [w \in Workers |-> IdleCall]]
  /\ flight' = [w \in Workers |-> NoFlight]
  /\ op' = [q \in Requests |-> IdleOp]
  /\ UNCHANGED <<rows, cfg, announced, missed, crossed, world, flips>>

\* Everything but the requests that change the registry.
MonitorNext ==
  \/ Tick
  \/ \E r \in Readers : ReadRows(r)
  \/ \E r \in Readers, w \in Workers : Lookup(r, w)
  \/ \E c \in Callers, w \in Workers : Refresh(c, w)
  \/ \E w \in Workers : ProbeReturns(w) \/ NotifyFlight(w) \/ Flip(w)
  \/ Restart

RequestStep(q) ==
  \/ UpdateCheck(q) \/ Seed(q) \/ NotifyRequest(q) \/ EvictHealth(q)

Next ==
  \/ MonitorNext
  \/ \E q \in Requests, w \in Workers :
       CreateWorker(q, w) \/ UpdateWorker(q, w) \/ DeleteWorker(q, w)
  \/ \E q \in Requests : RequestStep(q)

\* Goroutines run and probes time out; users and servers owe nothing.
Fairness ==
  /\ WF_vars(Tick)
  /\ \A r \in Readers, w \in Workers : WF_vars(Lookup(r, w))
  /\ \A c \in Callers, w \in Workers : WF_vars(Refresh(c, w))
  /\ \A w \in Workers : WF_vars(ProbeReturns(w)) /\ WF_vars(NotifyFlight(w))
  /\ \A q \in Requests : WF_vars(RequestStep(q))

-----------------------------------------------------------------------------
(* Properties. *)

\* A worker shown as down has been reported down: with no notification on its
\* way, none lost and none that overtook another, the last event of an ERRORED
\* worker is worker.offline, across probes, updates, deletions and restarts.
EventsFollowStatus ==
  \A w \in Workers :
    ~Pending(w) /\ ~missed[w] /\ ~crossed[w] /\ health[w].status = "ERRORED"
      => announced[w] = "offline"

\* The converse promise of eventTypes.ts and notifyTransition: a worker that
\* is reachable again does not stay reported offline.
RecoveryAnnounced ==
  \A w \in Workers :
    ~Pending(w) /\ ~missed[w] /\ ~crossed[w] /\ health[w].status = "ACTIVE" => announced[w] # "offline"

\* An outage the monitor confirmed after a Seed rests on a probe of the seeded
\* configuration or a newer one: goroutines that read the row before the update
\* may still probe the old address, one probe each, and cannot by themselves
\* undo the update unless as many of them are under way as the threshold asks.
ConfirmedOutageIsCurrent ==
  Cardinality(Callers) < FailThreshold =>
    \A w \in Workers :
      health[w].status = "ERRORED" /\ health[w].fails = FailThreshold
        => \E v \in health[w].evidence : v >= health[w].base

\* Whatever probes, updates and restarts interleave, the cache ends up showing
\* what the server of a registered worker answers, once that is stable.
CacheConverges ==
  \A w \in Workers : <>[](w \in rows => health[w].status = StatusOf(world[w]))

\* No goroutine waits forever on a shared probe.
CallersReturn == \A c \in Callers : []<>AllIdle(c)

MonitorSpec == Init /\ [][MonitorNext]_vars
Spec        == Init /\ [][Next]_vars
FairSpec    == Spec /\ Fairness
=============================================================================
