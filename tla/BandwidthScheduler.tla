------------------------- MODULE BandwidthScheduler -------------------------
(***************************************************************************)
(* services/bandwidthscheduler for one worker: the routes that create,     *)
(* change, order and delete its rules or set its limits by hand, and the   *)
(* goroutines that compare the rule now in force with the one applied last *)
(* and write qBittorrent's limits.  A mutex per worker is held for a whole *)
(* handler and for a whole reconciliation; the goroutine a handler starts  *)
(* runs on the request's context, which ends with the request.             *)
(***************************************************************************)
EXTENDS ScheduleWindow, FiniteSets

CONSTANTS
  Rules,          \* schedule ids
  Windows,        \* the windows requests ask for
  Rates,          \* download and upload rates
  Offered,        \* the limits requests and users ask for
  Initial,        \* qBittorrent's limits before the first rule
  Nil,            \* no row, no limits, no mark
  Requests,       \* request goroutines of the worker routes
  MaxSchedules,   \* maxSchedulesPerWorker
  MaxRequests,    \* bound: requests
  MaxMishaps,     \* bound: failing calls, restarts and limits changed in qBittorrent
  MaxMinutes      \* bound: minutes that pass

Pairs == [down : Rates, up : Rates]
Rule  == [window : Windows, limits : Offered, priority : Int, enabled : BOOLEAN]

\* applied: the rule, or the default, and its limits; a mark is never the default.
Target == [id : Rules \cup {"default"}, limits : Pairs]
Mark   == [id : Rules, limits : Pairs]

ASSUME SchedulerAssumption ==
  /\ IsFiniteSet(Rules) /\ Windows \subseteq WindowSet
  /\ Offered \subseteq Pairs /\ Initial \in Pairs
  /\ "reconciler" \notin Requests /\ "default" \notin Rules /\ "free" \notin Requests
  /\ Nil \notin Rule \cup Target \cup Pairs
  /\ MaxSchedules \in Nat \ {0}
  /\ MaxRequests \in Nat /\ MaxMishaps \in Nat /\ MaxMinutes \in Nat

VARIABLES
  rows,      \* the bandwidth_schedules table
  defaults,  \* the worker's default limits
  marker,    \* the worker's last_applied columns
  memory,    \* lastApplied
  qbt,       \* qBittorrent's global limits
  now,       \* the local time
  lock,      \* who holds the worker's mutex
  job,       \* progress of the ticker's goroutine and of each request
  writer,    \* history: who wrote qbt last
  torn,      \* history: a rule's limits were written and its marker was not
  count      \* what the bounds limit

vars == <<rows, defaults, marker, memory, qbt, now, lock, job, writer, torn, count>>

Jobs == Requests \cup {"reconciler"}

JobState == [pc : {"idle", "insert", "manual", "store", "wait", "preview", "load",
                   "inspect", "down", "up", "persist"},
             target : Target \cup {Nil}, live : BOOLEAN]
Idle     == [pc |-> "idle", target |-> Nil, live |-> TRUE]

\* The steps taken under the worker's mutex.
Critical == {"insert", "manual", "store", "preview", "load", "inspect", "down", "up", "persist"}

\* The schedules stored for the worker.
Stored == {r \in Rules : rows[r] # Nil}

\* Every variable holds a value of its kind, and no worker has more rules than allowed.
TypeOK ==
  /\ rows \in [Rules -> Rule \cup {Nil}] /\ Cardinality(Stored) <= MaxSchedules
  /\ defaults \in Pairs \cup {Nil}
  /\ marker \in Mark \cup {Nil} /\ memory \in Mark \cup {Nil}
  /\ qbt \in Pairs /\ now \in Times
  /\ lock \in Jobs \cup {"free"} /\ job \in [Jobs -> JobState]
  /\ writer \in {"user", "default", "rule"} /\ torn \in BOOLEAN
  /\ count \in [requests : 0 .. MaxRequests, mishaps : 0 .. MaxMishaps,
                minutes : 0 .. MaxMinutes]

-----------------------------------------------------------------------------
Init ==
  /\ rows = [r \in Rules |-> Nil] /\ defaults = Nil
  /\ marker = Nil /\ memory = Nil
  /\ qbt = Initial /\ writer = "user" /\ torn = FALSE
  /\ now = [day |-> 0, minute |-> 0]
  /\ lock = "free" /\ job = [p \in Jobs |-> Idle]
  /\ count = [requests |-> 0, mishaps |-> 0, minutes |-> 0]

\* Resolve: the enabled rules whose window is open, and the highest of them.
Open  == {r \in Stored : rows[r].enabled /\ ScheduleMatches(rows[r].window, now)}
First == CHOOSE r \in Open : \A s \in Open : rows[r].priority >= rows[s].priority

\* preview: the limits that should be in force; none when nothing is managed.
Desired ==
  IF Open # {} THEN [id |-> First, limits |-> rows[First].limits]
  ELSE IF defaults # Nil THEN [id |-> "default", limits |-> defaults]
  ELSE Nil

\* A call of p to qBittorrent or, with its context, to the database fails.
Mishap     == count.mishaps < MaxMishaps /\ count' = [count EXCEPT !.mishaps = @ + 1]
Works      == UNCHANGED count
DbFails(p) == Mishap \/ (~job[p].live /\ Works)
DbWorks(p) == job[p].live /\ Works

\* p goes on at pc with the mutex, or gives it back.
Goes(p, pc) == job' = [job EXCEPT ![p].pc = pc] /\ UNCHANGED lock
Ends(p)     == job' = [job EXCEPT ![p] = Idle] /\ lock' = "free"

-----------------------------------------------------------------------------
(* The routes. *)

\* A request is let in; its handler takes the mutex at its first step.
Arrives(q) ==
  /\ job[q] = Idle /\ lock = "free" /\ count.requests < MaxRequests
  /\ count' = [count EXCEPT !.requests = @ + 1]

\* Mistake: new rules take the lowest priority there is.
LowestTied == IF Stored = {} THEN 0
              ELSE CHOOSE k \in {rows[r].priority : r \in Stored} :
                     \A r \in Stored : k <= rows[r].priority

\* New rules go below the rules there are.
Lowest == IF Stored = {} THEN 0
          ELSE (CHOOSE k \in {rows[r].priority : r \in Stored} :
                  \A r \in Stored : k <= rows[r].priority) - 1

\* Mistake: the rule is stored although the worker's limits could not be read.
CreateUncaptured(q) ==
  /\ Arrives(q) /\ Cardinality(Stored) < MaxSchedules
  /\ defaults' \in {defaults, IF defaults = Nil THEN qbt ELSE defaults}
  /\ job' = [job EXCEPT ![q].pc = "insert"] /\ lock' = q
  /\ UNCHANGED <<rows, marker, memory, qbt, now, writer, torn>>

\* Create, up to captureBaseline: the first rule needs the limits to return to.
Create(q) ==
  /\ Arrives(q) /\ Cardinality(Stored) < MaxSchedules
  /\ defaults' = IF defaults = Nil THEN qbt ELSE defaults
  /\ job' = [job EXCEPT ![q].pc = "insert"] /\ lock' = q
  /\ UNCHANGED <<rows, marker, memory, qbt, now, writer, torn>>

\* checkPriorityConflict.
Conflicts(window, priority, others) ==
  \E r \in others : rows[r].enabled /\ rows[r].priority = priority
                    /\ WindowsOverlap(window, rows[r].window)

\* Create, its end: the row is stored and a reconciliation started, or not.
Insert(q) ==
  /\ job[q].pc = "insert"
  /\ \/ \E r \in Rules \ Stored, window \in Windows, limits \in Offered, enabled \in BOOLEAN :
          /\ ~Conflicts(window, Lowest, Stored)
          /\ rows' = [rows EXCEPT ![r] = [window |-> window, limits |-> limits,
                                          priority |-> Lowest, enabled |-> enabled]]
          /\ job' = [job EXCEPT ![q].pc = "wait"] /\ lock' = "free" /\ Works
     \/ /\ Ends(q) /\ UNCHANGED rows
        /\ DbFails(q) \/ (Works /\ \E window \in Windows : Conflicts(window, Lowest, Stored))
  /\ UNCHANGED <<defaults, marker, memory, qbt, now, writer, torn>>

\* Update keeps the rule's priority.
Update(q) ==
  /\ Arrives(q)
  /\ \E r \in Stored, window \in Windows, limits \in Offered, enabled \in BOOLEAN :
       /\ ~Conflicts(window, rows[r].priority, Stored \ {r})
       /\ rows' = [rows EXCEPT ![r] = [window |-> window, limits |-> limits,
                                       priority |-> rows[r].priority, enabled |-> enabled]]
  /\ job' = [job EXCEPT ![q].pc = "wait"]
  /\ UNCHANGED <<defaults, marker, memory, qbt, now, lock, writer, torn>>

\* Mistake: deleting the rule applied last clears the marker.
DeleteClearing(q) ==
  /\ Arrives(q)
  /\ \E r \in Stored :
       /\ rows' = [rows EXCEPT ![r] = Nil]
       /\ marker' = IF marker # Nil /\ marker.id = r THEN Nil ELSE marker
       /\ memory' = IF memory # Nil /\ memory.id = r THEN Nil ELSE memory
  /\ job' = [job EXCEPT ![q].pc = "wait"]
  /\ UNCHANGED <<defaults, qbt, now, lock, writer, torn>>

\* Delete.
Delete(q) ==
  /\ Arrives(q)
  /\ \E r \in Stored : rows' = [rows EXCEPT ![r] = Nil]
  /\ job' = [job EXCEPT ![q].pc = "wait"]
  /\ UNCHANGED <<defaults, marker, memory, qbt, now, lock, writer, torn>>

\* Reorder: a complete list of the rules, stored as N .. 1 in one transaction.
Reorder(q) ==
  /\ Arrives(q) /\ Stored # {}
  /\ \E rank \in [Stored -> 1 .. Cardinality(Stored)] :
       /\ \A r, s \in Stored : rank[r] = rank[s] => r = s
       /\ rows' = [r \in Rules |-> IF r \in Stored THEN [rows[r] EXCEPT !.priority = rank[r]]
                                   ELSE rows[r]]
  /\ job' = [job EXCEPT ![q].pc = "wait"]
  /\ UNCHANGED <<defaults, marker, memory, qbt, now, lock, writer, torn>>

\* ApplyManualDefault writes qBittorrent's download limit, its upload limit (a
\* first call that fails changes nothing or leaves what a failing second does) ...
ApplyManual(q) ==
  /\ Arrives(q)
  /\ \E limits \in Offered :
       /\ qbt' = [qbt EXCEPT !.down = limits.down]
       /\ job' = [job EXCEPT ![q].pc = "manual", ![q].target = [id |-> "default", limits |-> limits]]
  /\ lock' = q /\ writer' = "user" /\ torn' = FALSE
  /\ UNCHANGED <<rows, defaults, marker, memory, now>>

ManualUp(q) ==
  /\ job[q].pc = "manual"
  /\ \/ qbt' = [qbt EXCEPT !.up = job[q].target.limits.up] /\ Goes(q, "store") /\ Works
     \/ Ends(q) /\ Mishap /\ UNCHANGED qbt
  /\ UNCHANGED <<rows, defaults, marker, memory, now, writer, torn>>

\* ... and stores them as the defaults.
ManualStore(q) ==
  /\ job[q].pc = "store"
  /\ \/ defaults' = job[q].target.limits /\ Ends(q) /\ DbWorks(q)
     \/ Ends(q) /\ DbFails(q) /\ UNCHANGED defaults
  /\ UNCHANGED <<rows, marker, memory, qbt, now, writer, torn>>

\* The response is out and the request's context is done.
Respond(q) ==
  /\ job[q].pc \notin {"idle", "insert", "manual", "store"} /\ job[q].live
  /\ job' = [job EXCEPT ![q].live = FALSE]
  /\ UNCHANGED <<rows, defaults, marker, memory, qbt, now, lock, writer, torn, count>>

-----------------------------------------------------------------------------
(* ReconcileWorker. *)

\* reconcileAll starts the worker's goroutine at start-up and at each tick.
Tick ==
  /\ job["reconciler"].pc = "idle"
  /\ job' = [job EXCEPT !["reconciler"].pc = "wait"]
  /\ UNCHANGED <<rows, defaults, marker, memory, qbt, now, lock, writer, torn, count>>

Lock(p) ==
  /\ job[p].pc = "wait" /\ lock = "free"
  /\ lock' = p /\ job' = [job EXCEPT ![p].pc = "preview"]
  /\ UNCHANGED <<rows, defaults, marker, memory, qbt, now, writer, torn, count>>

\* preview, then the comparison with the state in memory.
Preview(p) ==
  /\ job[p].pc = "preview"
  /\ \/ Ends(p) /\ DbFails(p)
     \/ Ends(p) /\ DbWorks(p) /\ (Desired = Nil \/ memory = Desired)
     \/ /\ Desired # Nil /\ memory # Desired /\ DbWorks(p)
        /\ job' = [job EXCEPT ![p].pc = IF memory = Nil THEN "load" ELSE "down",
                              ![p].target = Desired]
        /\ UNCHANGED lock
  /\ UNCHANGED <<rows, defaults, marker, memory, qbt, now, writer, torn>>

\* Mistake: after a restart the stored state is not consulted.
LoadForgotten(p) ==
  /\ job[p].pc = "load"
  /\ \/ Ends(p) /\ DbFails(p)
     \/ Ends(p) /\ DbWorks(p) /\ job[p].target.id = "default"
     \/ job[p].target.id # "default" /\ Goes(p, "inspect") /\ DbWorks(p)
  /\ UNCHANGED <<rows, defaults, marker, memory, qbt, now, writer, torn>>

\* loadLastApplied: without a marker a default is not applied, and a rule only
\* when qBittorrent does not have its limits already.
Load(p) ==
  /\ job[p].pc = "load"
  /\ \/ Ends(p) /\ DbFails(p) /\ UNCHANGED memory
     \/ /\ marker = Nil /\ DbWorks(p) /\ UNCHANGED memory
        /\ IF job[p].target.id = "default" THEN Ends(p) ELSE Goes(p, "inspect")
     \/ /\ marker # Nil /\ DbWorks(p) /\ memory' = marker
        /\ IF job[p].target = marker THEN Ends(p) ELSE Goes(p, "down")
  /\ UNCHANGED <<rows, defaults, marker, qbt, now, writer, torn>>

Inspect(p) ==
  /\ job[p].pc = "inspect"
  /\ \/ Ends(p) /\ Mishap
     \/ Works /\ Goes(p, IF qbt = job[p].target.limits THEN "persist" ELSE "down")
  /\ UNCHANGED <<rows, defaults, marker, memory, qbt, now, writer, torn>>

\* Who a write on behalf of p makes responsible for qBittorrent's limits.
Author(p) == IF job[p].target.id = "default" THEN "default" ELSE "rule"

\* apply writes the download limit, then the upload limit, neither with the
\* caller's context; a failing call may have been carried out.
SetLimit(p, pc, field, next) ==
  /\ job[p].pc = pc
  /\ \/ /\ qbt' = [qbt EXCEPT ![field] = job[p].target.limits[field]]
        /\ writer' = Author(p)
        /\ \/ Goes(p, next) /\ Works /\ torn' = (torn /\ Author(p) = "rule")
           \/ Ends(p) /\ Mishap /\ torn' = (Author(p) = "rule")
     \/ /\ Ends(p) /\ Mishap /\ UNCHANGED <<qbt, writer>>
        /\ torn' = (torn \/ (pc = "up" /\ Author(p) = "rule"))
  /\ UNCHANGED <<rows, defaults, marker, memory, now>>

SetDown(p) == SetLimit(p, "down", "down", "up")
SetUp(p)   == SetLimit(p, "up", "up", "persist")

\* Mistake: a restored default is remembered like a rule.
RememberedAlways(t) == t

\* What lastApplied and the last_applied columns say of a target.
Remembered(t) == IF t.id = "default" THEN Nil ELSE t

\* Mistake: lastApplied is set whether or not the columns could be written.
PersistAnyway(p) ==
  /\ job[p].pc = "persist" /\ memory' = Remembered(job[p].target)
  /\ \/ DbWorks(p) /\ marker' = Remembered(job[p].target) /\ torn' = FALSE
     \/ DbFails(p) /\ torn' = (torn \/ writer = "rule") /\ UNCHANGED marker
  /\ Ends(p)
  /\ UNCHANGED <<rows, defaults, qbt, now, writer>>

\* persistLastApplied, then lastApplied, for an application or a silent seed.
Persist(p) ==
  /\ job[p].pc = "persist"
  /\ \/ /\ DbWorks(p) /\ torn' = FALSE
        /\ marker' = Remembered(job[p].target) /\ memory' = Remembered(job[p].target)
     \/ DbFails(p) /\ torn' = (torn \/ writer = "rule") /\ UNCHANGED <<marker, memory>>
  /\ Ends(p)
  /\ UNCHANGED <<rows, defaults, qbt, now, writer>>

-----------------------------------------------------------------------------
(* The world. *)

\* A minute passes.
Minute ==
  /\ count.minutes < MaxMinutes /\ count' = [count EXCEPT !.minutes = @ + 1]
  /\ now' = IF now.minute < MinutesPerDay - 1 THEN [now EXCEPT !.minute = @ + 1]
            ELSE [day |-> DayAfter(now.day), minute |-> 0]
  /\ UNCHANGED <<rows, defaults, marker, memory, qbt, lock, job, writer, torn>>

\* Somebody sets the limits in qBittorrent itself.
Meddle ==
  /\ Mishap /\ qbt' \in Offered /\ writer' = "user" /\ torn' = FALSE
  /\ UNCHANGED <<rows, defaults, marker, memory, now, lock, job>>

\* The process dies and starts again.
Restart ==
  /\ Mishap /\ memory' = Nil /\ lock' = "free" /\ job' = [p \in Jobs |-> Idle]
  /\ torn' = (torn \/ (writer = "rule" /\ \E p \in Jobs : job[p].pc \in {"up", "persist"}))
  /\ UNCHANGED <<rows, defaults, marker, qbt, now, writer>>

-----------------------------------------------------------------------------
Reconcile(p) ==
  \/ Lock(p) \/ Preview(p) \/ Load(p) \/ Inspect(p) \/ SetDown(p) \/ SetUp(p) \/ Persist(p)

Handle(q) == Insert(q) \/ ManualUp(q) \/ ManualStore(q) \/ Respond(q)

Submit(q) == Create(q) \/ Update(q) \/ Delete(q) \/ Reorder(q) \/ ApplyManual(q)

Next ==
  \/ \E q \in Requests : Submit(q) \/ Handle(q)
  \/ Tick \/ \E p \in Jobs : Reconcile(p)
  \/ Minute \/ Meddle \/ Restart

\* The ticker ticks and every goroutine runs on.
Fairness ==
  /\ WF_vars(Tick)
  /\ \A p \in Jobs : WF_vars(Reconcile(p))
  /\ \A q \in Requests : WF_vars(Handle(q))

Spec     == Init /\ [][Next]_vars
FairSpec == Spec /\ Fairness

-----------------------------------------------------------------------------
(* Properties. *)

\* However rules are created, deleted and reordered, two of them never share a
\* priority, so the rule that wins an overlap does not depend on a sort.
PrioritiesDistinct ==
  \A r, s \in Stored : rows[r].priority = rows[s].priority => r = s

\* Rules that are open at once are rules the overlap check would report.
OpenRulesOverlap ==
  \A r, s \in Open : WindowsOverlap(rows[r].window, rows[s].window)

\* A worker with rules has limits to return to, whatever failed on the way.
BaselineCaptured == Stored # {} => defaults # Nil

\* What is remembered is never ahead of or different from what was stored, so
\* that a restart continues where the process was.
MemoryIsMarker == memory \in {marker, Nil}

\* qBittorrent is written only for a change: never again for the rule applied
\* last, which would undo a manual limit or repeat the event after a restart,
\* and never with the defaults unless a rule was in force before.
WritesAreDue ==
  \A p \in Jobs : job[p].pc \in {"down", "up"} =>
    /\ job[p].target # marker
    /\ job[p].target.id = "default" => marker # Nil

\* While a rule's limits are in force, the row says so and the end of the
\* window can be noticed, unless the write of the row failed.
ImposedIsMarked ==
  writer = "rule" /\ ~torn /\ (\A p \in Jobs : job[p].pc \notin {"up", "persist"})
    => marker # Nil

\* With a ticker that ticks, the rule that should be in force ends up applied
\* and a rule whose window closed does not stay applied.
LimitsFollowRules ==
  <>[](/\ Open # {} => marker = Desired
       /\ Open = {} => marker = Nil)

\* Outside scheduled windows a rule's limits do not stay in force.
DefaultsRestored == []<>(Open # {} \/ writer # "rule" \/ qbt = defaults)
=============================================================================
