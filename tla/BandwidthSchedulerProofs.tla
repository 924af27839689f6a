---------------------- MODULE BandwidthSchedulerProofs ----------------------
(***************************************************************************)
(* For any calendar, rules, limits and requests: rules that are open at    *)
(* once overlap, no two rules share a priority and none is without limits  *)
(* to return to, what is remembered is what was stored, qBittorrent is     *)
(* written only for a change, and limits in force are on record.           *)
(***************************************************************************)
EXTENDS BandwidthScheduler, FiniteSetTheorems, WellFoundedInduction, TLAPS

-----------------------------------------------------------------------------
(* Windows. *)

\* A matching window has a range of its day around the time.
LEMMA MatchInRange ==
  ASSUME NEW w \in WindowSet, NEW t \in Times, ScheduleMatches(w, t)
  PROVE  \E r \in DayRanges(w) : /\ r.day = t.day /\ r.start \in Int /\ r.end \in Int
                                 /\ r.start <= t.minute /\ t.minute < r.end
<1>1. /\ t.day \in Days /\ t.minute \in Minutes /\ w.start \in Minutes /\ w.end \in Minutes
      /\ MinutesPerDay \in Int /\ \A m \in Minutes : m \in Int /\ 0 <= m /\ m < MinutesPerDay
  BY CalendarAssumption DEF WindowSet, Times, Minutes
<1>2. \A day, start, end : /\ DayRange(day, start, end).day = day
                           /\ DayRange(day, start, end).start = start
                           /\ DayRange(day, start, end).end = end
  BY DEF DayRange
<1>3. CASE w.start = w.end /\ t.day \in w.days
  <2>1. DayRange(t.day, 0, MinutesPerDay) \in DayRanges(w)
    BY <1>3 DEF DayRanges
  <2> QED BY <1>1, <1>2, <2>1
<1>4. CASE w.start < w.end /\ t.day \in w.days /\ w.start <= t.minute /\ t.minute < w.end
  <2>1. DayRange(t.day, w.start, w.end) \in DayRanges(w)
    BY <1>1, <1>4 DEF DayRanges
  <2> QED BY <1>1, <1>2, <1>4, <2>1
<1>5. CASE w.end < w.start /\ t.day \in w.days /\ w.start <= t.minute
  <2>1. DayRange(t.day, w.start, MinutesPerDay) \in DayRanges(w)
    BY <1>1, <1>5 DEF DayRanges
  <2> QED BY <1>1, <1>2, <1>5, <2>1
<1>6. CASE w.end < w.start /\ DayBefore(t.day) \in w.days /\ t.minute < w.end
  <2>1. DayAfter(DayBefore(t.day)) = t.day
    BY <1>1, CalendarAssumption DEF DayAfter, DayBefore, Days
  <2>2. DayRange(DayAfter(DayBefore(t.day)), 0, w.end) \in DayRanges(w)
    BY <1>1, <1>6 DEF DayRanges
  <2> QED BY <1>1, <1>2, <1>6, <2>1, <2>2
<1> QED BY <1>3, <1>4, <1>5, <1>6 DEF ScheduleMatches

\* The overlap check misses no two windows that ever match together.
THEOREM OverlapComplete ==
  ASSUME NEW a \in WindowSet, NEW b \in WindowSet, NEW t \in Times,
         ScheduleMatches(a, t), ScheduleMatches(b, t)
  PROVE  WindowsOverlap(a, b)
<1>1. PICK r \in DayRanges(a) : /\ r.day = t.day /\ r.start \in Int /\ r.end \in Int
                                /\ r.start <= t.minute /\ t.minute < r.end
  BY MatchInRange
<1>2. PICK s \in DayRanges(b) : /\ s.day = t.day /\ s.start \in Int /\ s.end \in Int
                                /\ s.start <= t.minute /\ t.minute < s.end
  BY MatchInRange
<1>3. t.minute \in Int
  BY CalendarAssumption DEF Times, Minutes
<1> QED BY <1>1, <1>2, <1>3 DEF WindowsOverlap

-----------------------------------------------------------------------------
(* Rules. *)

LEMMA LeastExists ==
  ASSUME NEW S, IsFiniteSet(S), S # {}, NEW f \in [S -> Int]
  PROVE  \E r \in S : \A s \in S : f[r] <= f[s]
<1> DEFINE Below(r) == {s \in S : f[s] <= f[r]}
           T == {Below(r) : r \in S}
<1>1. IsWellFoundedOn(StrictSubsetOrdering(S), SUBSET S)
  BY FS_FiniteSubsetsOfFinite, FS_StrictSubsetOrderingWellFounded
<1>2. T \subseteq SUBSET S /\ T # {}
  <2>1. PICK r0 \in S : TRUE
    OBVIOUS
  <2>2. Below(r0) \in T
    BY <2>1
  <2>3. \A r \in S : Below(r) \subseteq S
    OBVIOUS
  <2> QED BY <2>2, <2>3
<1>3. PICK x \in T : \A y \in T : ~(<<y, x>> \in StrictSubsetOrdering(S))
  <2> HIDE DEF T
  <2> QED BY <1>1, <1>2, WFMin
<1>4. PICK r \in S : x = Below(r)
  BY <1>3
<1>5. ASSUME NEW s \in S, f[s] < f[r] PROVE FALSE
  <2>1. Below(s) \subseteq Below(r) /\ r \in Below(r) /\ r \notin Below(s)
    BY <1>5
  <2>2. <<Below(s), Below(r)>> \in StrictSubsetOrdering(S)
    BY <2>1 DEF StrictSubsetOrdering
  <2> QED BY <1>3, <1>4, <2>2
<1> QED BY <1>5

\* What the rules table and the clock hold.
RowsTyped == rows \in [Rules -> Rule \cup {Nil}] /\ now \in Times

RowsInv == RowsTyped /\ PrioritiesDistinct

\* The priority of a new rule is an integer below every other.
LEMMA LowestIsBelow ==
  ASSUME RowsTyped
  PROVE  Lowest \in Int /\ \A r \in Stored : Lowest < rows[r].priority
<1>1. CASE Stored = {}
  BY <1>1 DEF Lowest
<1>2. CASE Stored # {}
  <2> DEFINE f == [r \in Stored |-> rows[r].priority]
             P == {rows[r].priority : r \in Stored}
  <2>1. f \in [Stored -> Int] /\ \A r \in Stored : rows[r].priority \in Int
    BY DEF RowsTyped, Stored, Rule
  <2>2. IsFiniteSet(Stored)
    BY SchedulerAssumption, FS_Subset DEF Stored
  <2>3. PICK r \in Stored : \A s \in Stored : f[r] <= f[s]
    <3> HIDE DEF f
    <3> QED BY <1>2, <2>1, <2>2, LeastExists
  <2>4. \E k \in P : \A s \in Stored : k <= rows[s].priority
    BY <2>3
  <2> DEFINE k == CHOOSE k \in P : \A s \in Stored : k <= rows[s].priority
  <2>5. k \in P /\ \A s \in Stored : k <= rows[s].priority
    BY <2>4
  <2>6. Lowest = k - 1
    BY <1>2 DEF Lowest
  <2> HIDE DEF k
  <2>7. k \in Int
    BY <2>1, <2>5
  <2> QED BY <2>1, <2>5, <2>6, <2>7
<1> QED BY <1>1, <1>2

LEMMA RowsInit == Init => RowsInv
<1> SUFFICES ASSUME Init PROVE RowsInv
  OBVIOUS
<1>1. now \in Times
  BY CalendarAssumption DEF Init, Times, Days, Minutes
<1>2. Stored = {} /\ rows \in [Rules -> Rule \cup {Nil}]
  BY DEF Init, Stored
<1> QED BY <1>1, <1>2 DEF RowsInv, RowsTyped, PrioritiesDistinct

\* A rule stored with a priority no other rule has keeps the invariant.
LEMMA RowsStore ==
  ASSUME RowsInv, NEW r \in Rules, NEW row \in Rule,
         \A s \in Stored \ {r} : rows[s].priority # row.priority,
         rows' = [rows EXCEPT ![r] = row], now' = now
  PROVE  RowsInv'
<1>1. RowsTyped'
  BY DEF RowsInv, RowsTyped
<1>2. rows'[r] = row /\ \A s \in Rules \ {r} : rows'[s] = rows[s]
  BY DEF RowsInv, RowsTyped
<1>3. \A s \in Stored' : s = r \/ (s \in Stored \ {r} /\ rows'[s] = rows[s])
  BY <1>2 DEF Stored
<1>4. PrioritiesDistinct'
  <2> SUFFICES ASSUME NEW s \in Stored', NEW u \in Stored',
                      rows'[s].priority = rows'[u].priority
               PROVE  s = u
    BY DEF PrioritiesDistinct
  <2> QED BY <1>2, <1>3 DEF RowsInv, PrioritiesDistinct
<1> QED BY <1>1, <1>4 DEF RowsInv

LEMMA RowsUnchanged == RowsInv /\ UNCHANGED <<rows, now>> => RowsInv'
  BY DEF RowsInv, RowsTyped, PrioritiesDistinct, Stored

LEMMA RowsInsert ==
  ASSUME RowsInv, NEW q, Insert(q) PROVE RowsInv'
<1>1. CASE UNCHANGED rows
  BY <1>1, RowsUnchanged DEF Insert
<1>2. ASSUME NEW r \in Rules \ Stored, NEW window \in Windows, NEW limits \in Offered,
             NEW enabled \in BOOLEAN,
             rows' = [rows EXCEPT ![r] = [window |-> window, limits |-> limits,
                                          priority |-> Lowest, enabled |-> enabled]]
      PROVE  RowsInv'
  <2> DEFINE row == [window |-> window, limits |-> limits,
                     priority |-> Lowest, enabled |-> enabled]
  <2>1. Lowest \in Int /\ \A s \in Stored : Lowest < rows[s].priority
    BY LowestIsBelow DEF RowsInv
  <2>2. \A s \in Stored : rows[s].priority \in Int
    BY DEF RowsInv, RowsTyped, Stored, Rule
  <2>3. row \in Rule /\ row.priority = Lowest
    BY <2>1 DEF Rule
  <2>4. now' = now
    BY DEF Insert
  <2>5. \A s \in Stored \ {r} : rows[s].priority # row.priority
    BY <2>1, <2>2, <2>3
  <2> HIDE DEF row
  <2> QED BY <1>2, <2>3, <2>4, <2>5, RowsStore DEF row
<1> QED BY <1>1, <1>2 DEF Insert

LEMMA RowsUpdate ==
  ASSUME RowsInv, NEW q, Update(q) PROVE RowsInv'
<1>1. PICK r \in Stored, window \in Windows, limits \in Offered, enabled \in BOOLEAN :
        rows' = [rows EXCEPT ![r] = [window |-> window, limits |-> limits,
                                     priority |-> rows[r].priority, enabled |-> enabled]]
  BY DEF Update
<1> DEFINE row == [window |-> window, limits |-> limits,
                   priority |-> rows[r].priority, enabled |-> enabled]
<1>2. r \in Rules /\ rows[r].priority \in Int
  BY DEF RowsInv, RowsTyped, Stored, Rule
<1>3. row \in Rule /\ row.priority = rows[r].priority
  BY <1>2 DEF Rule
<1>4. \A s \in Stored \ {r} : rows[s].priority # row.priority
  BY <1>3 DEF RowsInv, PrioritiesDistinct
<1>5. now' = now
  BY DEF Update
<1> HIDE DEF row
<1> QED BY <1>1, <1>2, <1>3, <1>4, <1>5, RowsStore DEF row

LEMMA RowsDelete ==
  ASSUME RowsInv, NEW q, Delete(q) PROVE RowsInv'
<1>1. PICK r \in Stored : rows' = [rows EXCEPT ![r] = Nil]
  BY DEF Delete
<1>2. RowsTyped'
  BY <1>1 DEF RowsInv, RowsTyped, Delete
<1>3. \A s \in Stored' : s \in Stored /\ rows'[s] = rows[s]
  BY <1>1 DEF RowsInv, RowsTyped, Stored
<1> QED BY <1>2, <1>3 DEF RowsInv, PrioritiesDistinct

LEMMA RowsReorder ==
  ASSUME RowsInv, NEW q, Reorder(q) PROVE RowsInv'
<1>1. PICK rank \in [Stored -> 1 .. Cardinality(Stored)] :
        /\ \A r, s \in Stored : rank[r] = rank[s] => r = s
        /\ rows' = [r \in Rules |-> IF r \in Stored THEN [rows[r] EXCEPT !.priority = rank[r]]
                                    ELSE rows[r]]
  BY DEF Reorder
<1>2. \A r \in Stored : rows'[r] \in Rule /\ rows'[r].priority = rank[r]
  <2> SUFFICES ASSUME NEW r \in Stored
               PROVE  rows'[r] \in Rule /\ rows'[r].priority = rank[r]
    OBVIOUS
  <2>1. r \in Rules /\ rows[r] \in Rule
    BY DEF RowsInv, RowsTyped, Stored
  <2>3. rank[r] \in 1 .. Cardinality(Stored)
    OBVIOUS
  <2>4. rank[r] \in Int
    <3>1. IsFiniteSet(Stored)
      BY SchedulerAssumption, FS_Subset DEF Stored
    <3>2. Cardinality(Stored) \in Nat
      BY <3>1, FS_CardinalityType
    <3> QED BY <2>3, <3>2
  <2>2. rows'[r] = [rows[r] EXCEPT !.priority = rank[r]]
    BY <1>1, <2>1
  <2> QED BY <2>1, <2>2, <2>4 DEF Rule
<1>3. \A r \in Rules \ Stored : rows'[r] = Nil
  BY <1>1 DEF Stored
<1>4. RowsTyped'
  <2>1. DOMAIN rows' = Rules /\ rows' = [r \in Rules |-> rows'[r]]
    BY <1>1
  <2>2. \A r \in Rules : rows'[r] \in Rule \cup {Nil}
    BY <1>2, <1>3
  <2>3. now' \in Times
    BY DEF RowsInv, RowsTyped, Reorder
  <2> QED BY <2>1, <2>2, <2>3 DEF RowsTyped
<1>5. Stored' \subseteq Stored
  BY <1>3 DEF Stored
<1>6. PrioritiesDistinct'
  <2> SUFFICES ASSUME NEW s \in Stored', NEW u \in Stored',
                      rows'[s].priority = rows'[u].priority
               PROVE  s = u
    BY DEF PrioritiesDistinct
  <2>1. s \in Stored /\ u \in Stored
    BY <1>5
  <2> QED BY <1>1, <1>2, <2>1
<1> QED BY <1>4, <1>6 DEF RowsInv

LEMMA RowsMinute ==
  ASSUME RowsInv, Minute PROVE RowsInv'
<1>1. now' \in Times
  BY CalendarAssumption DEF RowsInv, RowsTyped, Minute, Times, Days, Minutes, DayAfter
<1>2. rows' = rows
  BY DEF Minute
<1> QED BY <1>1, <1>2 DEF RowsInv, RowsTyped, PrioritiesDistinct, Stored

\* Every other step leaves the rules and the clock alone.
LEMMA RowsStep == RowsInv /\ [Next]_vars => RowsInv'
<1> SUFFICES ASSUME RowsInv, [Next]_vars PROVE RowsInv'
  OBVIOUS
<1>1. ASSUME NEW q \in Requests, Submit(q) PROVE RowsInv'
  <2>1. CASE Create(q)
    BY <2>1, RowsUnchanged DEF Create
  <2>2. CASE Update(q)
    BY <2>2, RowsUpdate
  <2>3. CASE Delete(q)
    BY <2>3, RowsDelete
  <2>4. CASE Reorder(q)
    BY <2>4, RowsReorder
  <2>5. CASE ApplyManual(q)
    BY <2>5, RowsUnchanged DEF ApplyManual
  <2> QED BY <1>1, <2>1, <2>2, <2>3, <2>4, <2>5 DEF Submit
<1>2. ASSUME NEW q \in Requests, Handle(q) PROVE RowsInv'
  <2>1. CASE Insert(q)
    BY <2>1, RowsInsert
  <2>2. CASE ManualUp(q) \/ ManualStore(q) \/ Respond(q)
    BY <2>2, RowsUnchanged DEF ManualUp, ManualStore, Respond
  <2> QED BY <1>2, <2>1, <2>2 DEF Handle
<1>3. ASSUME NEW p \in Jobs, Reconcile(p) PROVE RowsInv'
  <2>1. UNCHANGED <<rows, now>>
    BY <1>3 DEF Reconcile, Lock, Preview, Load, Inspect, SetDown, SetUp, SetLimit, Persist
  <2> QED BY <2>1, RowsUnchanged
<1>4. CASE Minute
  BY <1>4, RowsMinute
<1>5. CASE Tick \/ Meddle \/ Restart \/ UNCHANGED vars
  BY <1>5, RowsUnchanged DEF Tick, Meddle, Restart, vars
<1> QED BY <1>1, <1>2, <1>3, <1>4, <1>5 DEF Next

LEMMA RowsInvariant == Spec => []RowsInv
<1>1. Init => RowsInv
  BY RowsInit
<1>2. RowsInv /\ [Next]_vars => RowsInv'
  BY RowsStep
<1> QED BY <1>1, <1>2, PTL DEF Spec

\* However rules are created, deleted and reordered, two never tie: Create
\* stores below all, Update keeps, Reorder is injective.
THEOREM PrioritiesDistinctCorrect == Spec => []PrioritiesDistinct
<1>1. RowsInv => PrioritiesDistinct
  BY DEF RowsInv
<1> QED BY <1>1, RowsInvariant, PTL

\* Rules that are open at once are rules checkPriorityConflict compares: the
\* two ways the code cuts a window at midnight agree on every calendar.
THEOREM OpenRulesOverlapCorrect == Spec => []OpenRulesOverlap
<1>1. RowsInv => OpenRulesOverlap
  <2> SUFFICES ASSUME RowsInv, NEW r \in Open, NEW s \in Open
               PROVE  WindowsOverlap(rows[r].window, rows[s].window)
    BY DEF OpenRulesOverlap
  <2>1. \A u \in Open : rows[u] \in Rule /\ ScheduleMatches(rows[u].window, now)
    BY DEF Open, Stored, RowsInv, RowsTyped
  <2>2. \A u \in Open : rows[u].window \in WindowSet
    BY <2>1, SchedulerAssumption DEF Rule
  <2>3. now \in Times
    BY DEF RowsInv, RowsTyped
  <2> QED BY <2>1, <2>2, <2>3, OverlapComplete
<1> QED BY <1>1, RowsInvariant, PTL
-----------------------------------------------------------------------------
(* Reconciliation. *)

JobOf(pc, target, live) == [pc |-> pc, target |-> target, live |-> live]

LEMMA JobEdits ==
  ASSUME NEW j, NEW x, NEW y, j = JobOf(j.pc, j.target, j.live)
  PROVE  /\ [j EXCEPT !.pc = x] = JobOf(x, j.target, j.live)
         /\ [[j EXCEPT !.pc = x] EXCEPT !.target = y] = JobOf(x, y, j.live)
         /\ [j EXCEPT !.live = x] = JobOf(j.pc, j.target, x)
<1>1. PICK pc, target, live : j = [pc |-> pc, target |-> target, live |-> live]
  BY DEF JobOf
<1>2. j.pc = pc /\ j.target = target /\ j.live = live
  BY <1>1
<1>3. [j EXCEPT !.pc = x] = [pc |-> x, target |-> target, live |-> live]
  BY <1>1
<1>4. [[pc |-> x, target |-> target, live |-> live] EXCEPT !.target = y]
        = [pc |-> x, target |-> y, live |-> live]
  OBVIOUS
<1>5. [j EXCEPT !.live = x] = [pc |-> pc, target |-> target, live |-> x]
  BY <1>1
<1> QED BY <1>2, <1>3, <1>4, <1>5 DEF JobOf

\* What a job relies on at each of its steps: under the mutex nobody else
\* changes the marker it has compared its target with.
DueAt(p) ==
  /\ job[p] = JobOf(job[p].pc, job[p].target, job[p].live)
  /\ job[p].pc \in Critical => lock = p
  /\ job[p].pc = "load" => job[p].target # Nil
  /\ job[p].pc = "inspect" =>
       marker = Nil /\ job[p].target # Nil /\ job[p].target.id # "default"
  /\ job[p].pc \in {"down", "up"} =>
       job[p].target # marker /\ (job[p].target.id = "default" => marker # Nil)

WriteInv == DOMAIN job = Jobs /\ MemoryIsMarker /\ \A p \in Jobs : DueAt(p)

LEMMA WriteInit == Init => WriteInv
<1> SUFFICES ASSUME Init PROVE WriteInv
  OBVIOUS
<1>1. DOMAIN job = Jobs /\ MemoryIsMarker /\ \A p \in Jobs : job[p] = Idle
  BY DEF Init, MemoryIsMarker
<1>2. Idle.pc = "idle" /\ Idle = JobOf(Idle.pc, Idle.target, Idle.live)
  BY DEF Idle, JobOf
<1>3. \A p \in Jobs : DueAt(p)
  BY <1>1, <1>2 DEF DueAt, Critical
<1> QED BY <1>1, <1>3 DEF WriteInv

LEMMA WriteImplies == WriteInv => MemoryIsMarker /\ WritesAreDue
  BY DEF WriteInv, DueAt, WritesAreDue

\* Changing one job touches no other.
LEMMA JobUpdate ==
  ASSUME WriteInv, NEW p \in Jobs, NEW j, job' = [job EXCEPT ![p] = j]
  PROVE  DOMAIN job' = Jobs /\ job'[p] = j /\ \A o \in Jobs \ {p} : job'[o] = job[o]
  BY DEF WriteInv

LEMMA JobGoes ==
  ASSUME WriteInv, NEW p \in Jobs, NEW pc, job' = [job EXCEPT ![p].pc = pc]
  PROVE  /\ DOMAIN job' = Jobs /\ \A o \in Jobs \ {p} : job'[o] = job[o]
         /\ job'[p] = JobOf(pc, job[p].target, job[p].live)
         /\ job'[p].pc = pc /\ job'[p].target = job[p].target /\ job'[p].live = job[p].live
<1>1. job[p] = JobOf(job[p].pc, job[p].target, job[p].live)
  BY DEF WriteInv, DueAt
<1>2. [job[p] EXCEPT !.pc = pc] = JobOf(pc, job[p].target, job[p].live)
  BY <1>1 DEF JobOf
<1>3. job' = [job EXCEPT ![p] = JobOf(pc, job[p].target, job[p].live)]
  BY <1>2
<1>4. /\ JobOf(pc, job[p].target, job[p].live).pc = pc
      /\ JobOf(pc, job[p].target, job[p].live).target = job[p].target
      /\ JobOf(pc, job[p].target, job[p].live).live = job[p].live
  BY DEF JobOf
<1> QED BY <1>3, <1>4, JobUpdate

\* The holder of the mutex, or a job that finds it free, may change the marker:
\* the others are outside their critical sections.
LEMMA HolderStep ==
  ASSUME WriteInv, NEW p \in Jobs, lock \in {p, "free"},
         DOMAIN job' = Jobs, \A o \in Jobs \ {p} : job'[o] = job[o],
         MemoryIsMarker', DueAt(p)'
  PROVE  WriteInv'
<1>1. "free" \notin Jobs
  BY SchedulerAssumption DEF Jobs
<1>2. ASSUME NEW o \in Jobs \ {p} PROVE DueAt(o)'
  <2>1. DueAt(o) /\ job[o].pc \notin Critical /\ job'[o] = job[o]
    BY <1>1 DEF WriteInv, DueAt
  <2>2. job[o].pc \notin {"load", "inspect", "down", "up"}
    BY <2>1 DEF Critical
  <2> QED BY <2>1, <2>2 DEF DueAt
<1> QED BY <1>2 DEF WriteInv

\* A job outside its critical section may change at any time.
LEMMA OutsideStep ==
  ASSUME WriteInv, NEW p \in Jobs, UNCHANGED <<marker, memory, lock>>,
         DOMAIN job' = Jobs, \A o \in Jobs \ {p} : job'[o] = job[o],
         DueAt(p)'
  PROVE  WriteInv'
<1>1. MemoryIsMarker'
  BY DEF WriteInv, MemoryIsMarker
<1>2. ASSUME NEW o \in Jobs \ {p} PROVE DueAt(o)'
  BY DEF WriteInv, DueAt
<1> QED BY <1>1, <1>2 DEF WriteInv

LEMMA JobEnds ==
  ASSUME WriteInv, NEW p \in Jobs, lock = p, Ends(p), MemoryIsMarker'
  PROVE  WriteInv'
<1>1. DOMAIN job' = Jobs /\ job'[p] = Idle /\ \A o \in Jobs \ {p} : job'[o] = job[o]
  BY JobUpdate DEF Ends
<1>2. DueAt(p)'
  BY <1>1 DEF DueAt, Idle, JobOf, Critical
<1> QED BY <1>1, <1>2, HolderStep

\* The same, for a job that goes on under the mutex.
LEMMA JobStays ==
  ASSUME WriteInv, NEW p \in Jobs, lock = p, NEW pc, Goes(p, pc),
         UNCHANGED <<marker, memory>>,
         pc = "inspect" => marker = Nil /\ job[p].target # Nil /\ job[p].target.id # "default",
         pc \in {"down", "up"} =>
           job[p].target # marker /\ (job[p].target.id = "default" => marker # Nil),
         pc # "load"
  PROVE  WriteInv'
<1>1. /\ DOMAIN job' = Jobs /\ \A o \in Jobs \ {p} : job'[o] = job[o]
      /\ job'[p] = JobOf(pc, job[p].target, job[p].live)
      /\ job'[p].pc = pc /\ job'[p].target = job[p].target /\ job'[p].live = job[p].live
  BY JobGoes DEF Goes
<1>2. lock' = p
  BY DEF Goes
<1>3. DueAt(p)'
  BY <1>1, <1>2 DEF DueAt
<1>4. MemoryIsMarker'
  BY DEF WriteInv, MemoryIsMarker
<1> QED BY <1>1, <1>3, <1>4, HolderStep

\* A step that changes no job, mark or lock.
LEMMA WriteUnchanged == WriteInv /\ UNCHANGED <<marker, memory, lock, job>> => WriteInv'
  BY DEF WriteInv, MemoryIsMarker, DueAt

\* A request that stays outside the mutex, or gives it back, and waits for it.
LEMMA JobWaits ==
  ASSUME WriteInv, NEW q \in Jobs, UNCHANGED <<marker, memory>>,
         job' = [job EXCEPT ![q].pc = "wait"], lock \in {q, "free"}
  PROVE  WriteInv'
<1>1. /\ DOMAIN job' = Jobs /\ \A o \in Jobs \ {q} : job'[o] = job[o]
      /\ job'[q] = JobOf("wait", job[q].target, job[q].live)
      /\ job'[q].pc = "wait" /\ job'[q].target = job[q].target /\ job'[q].live = job[q].live
  BY JobGoes
<1>2. DueAt(q)'
  BY <1>1 DEF DueAt, Critical
<1>3. MemoryIsMarker'
  BY DEF WriteInv, MemoryIsMarker
<1> QED BY <1>1, <1>2, <1>3, HolderStep

LEMMA HoldsLock ==
  ASSUME WriteInv, NEW p \in Jobs, job[p].pc \in Critical PROVE lock = p
  BY DEF WriteInv, DueAt

LEMMA SubmitStep ==
  ASSUME WriteInv, NEW q \in Requests, Submit(q) PROVE WriteInv'
<1>1. q \in Jobs /\ MemoryIsMarker
  BY DEF Jobs, WriteInv
<1>2. CASE Create(q)
  <2>1. job' = [job EXCEPT ![q].pc = "insert"] /\ lock' = q /\ lock = "free"
        /\ UNCHANGED <<marker, memory>>
    BY <1>2 DEF Create, Arrives
  <2>2. /\ DOMAIN job' = Jobs /\ \A o \in Jobs \ {q} : job'[o] = job[o]
        /\ job'[q] = JobOf("insert", job[q].target, job[q].live)
        /\ job'[q].pc = "insert" /\ job'[q].target = job[q].target
        /\ job'[q].live = job[q].live
    BY <1>1, <2>1, JobGoes
  <2>3. DueAt(q)' /\ MemoryIsMarker'
    BY <1>1, <2>1, <2>2 DEF DueAt, MemoryIsMarker
  <2> QED BY <1>1, <2>1, <2>2, <2>3, HolderStep
<1>3. CASE Update(q) \/ Delete(q) \/ Reorder(q)
  <2>1. job' = [job EXCEPT ![q].pc = "wait"] /\ lock = "free" /\ UNCHANGED <<marker, memory>>
    BY <1>3 DEF Update, Delete, Reorder, Arrives
  <2> QED BY <1>1, <2>1, JobWaits
<1>4. CASE ApplyManual(q)
  <2>1. PICK limits \in Offered :
          job' = [job EXCEPT ![q].pc = "manual",
                             ![q].target = [id |-> "default", limits |-> limits]]
    BY <1>4 DEF ApplyManual
  <2> DEFINE j == JobOf("manual", [id |-> "default", limits |-> limits], job[q].live)
  <2>2. lock' = q /\ lock = "free" /\ UNCHANGED <<marker, memory>>
    BY <1>4 DEF ApplyManual, Arrives
  <2>3. job' = [job EXCEPT ![q] = j]
    <3>1. job[q] = JobOf(job[q].pc, job[q].target, job[q].live)
      BY <1>1 DEF WriteInv, DueAt
    <3>2. [[job[q] EXCEPT !.pc = "manual"] EXCEPT !.target = [id |-> "default", limits |-> limits]] = j
      BY <3>1, JobEdits
    <3> QED BY <1>1, <2>1, <3>2 DEF WriteInv
  <2>4. j.pc = "manual" /\ j = JobOf(j.pc, j.target, j.live)
    BY DEF JobOf
  <2> HIDE DEF j
  <2>5. DOMAIN job' = Jobs /\ job'[q] = j /\ \A o \in Jobs \ {q} : job'[o] = job[o]
    BY <1>1, <2>3, JobUpdate
  <2>6. DueAt(q)' /\ MemoryIsMarker'
    BY <1>1, <2>2, <2>4, <2>5 DEF DueAt, MemoryIsMarker
  <2> QED BY <1>1, <2>2, <2>5, <2>6, HolderStep
<1> QED BY <1>2, <1>3, <1>4 DEF Submit

LEMMA HandleStep ==
  ASSUME WriteInv, NEW q \in Requests, Handle(q) PROVE WriteInv'
<1>1. q \in Jobs /\ MemoryIsMarker
  BY DEF Jobs, WriteInv
<1>2. CASE Insert(q) \/ ManualUp(q) \/ ManualStore(q)
  <2>1. lock = q
    BY <1>1, <1>2, HoldsLock DEF Insert, ManualUp, ManualStore, Critical
  <2>2. UNCHANGED <<marker, memory>> /\ MemoryIsMarker'
    BY <1>1, <1>2 DEF Insert, ManualUp, ManualStore, MemoryIsMarker
  <2>3. CASE Ends(q)
    BY <1>1, <2>1, <2>2, <2>3, JobEnds
  <2>4. CASE job' = [job EXCEPT ![q].pc = "wait"]
    BY <1>1, <2>1, <2>2, <2>4, JobWaits
  <2>5. CASE Goes(q, "store")
    BY <1>1, <2>1, <2>2, <2>5, JobStays
  <2> QED BY <1>2, <2>3, <2>4, <2>5 DEF Insert, ManualUp, ManualStore
<1>3. CASE Respond(q)
  <2>1. job' = [job EXCEPT ![q].live = FALSE] /\ UNCHANGED <<marker, memory, lock>>
    BY <1>3 DEF Respond
  <2>2. job[q] = JobOf(job[q].pc, job[q].target, job[q].live) /\ DueAt(q)
    BY <1>1 DEF WriteInv, DueAt
  <2>3. [job[q] EXCEPT !.live = FALSE] = JobOf(job[q].pc, job[q].target, FALSE)
    BY <2>2, JobEdits
  <2>4. job' = [job EXCEPT ![q] = JobOf(job[q].pc, job[q].target, FALSE)]
    BY <2>1, <2>3
  <2>5. /\ DOMAIN job' = Jobs /\ \A o \in Jobs \ {q} : job'[o] = job[o]
        /\ job'[q] = JobOf(job[q].pc, job[q].target, FALSE)
    BY <1>1, <2>4, JobUpdate
  <2>6. job'[q].pc = job[q].pc /\ job'[q].target = job[q].target /\ job'[q].live = FALSE
    BY <2>5 DEF JobOf
  <2>7. DueAt(q)'
    BY <2>1, <2>2, <2>5, <2>6 DEF DueAt
  <2> QED BY <1>1, <2>1, <2>5, <2>7, OutsideStep
<1> QED BY <1>2, <1>3 DEF Handle

LEMMA ReconcileStep ==
  ASSUME WriteInv, NEW p \in Jobs, Reconcile(p) PROVE WriteInv'
<1>1. MemoryIsMarker /\ DueAt(p)
  BY DEF WriteInv
<1>2. CASE Lock(p)
  <2>1. lock = "free" /\ lock' = p /\ job' = [job EXCEPT ![p].pc = "preview"]
        /\ UNCHANGED <<marker, memory>>
    BY <1>2 DEF Lock
  <2>2. /\ DOMAIN job' = Jobs /\ \A o \in Jobs \ {p} : job'[o] = job[o]
        /\ job'[p] = JobOf("preview", job[p].target, job[p].live)
        /\ job'[p].pc = "preview" /\ job'[p].target = job[p].target
        /\ job'[p].live = job[p].live
    BY <2>1, JobGoes
  <2>3. DueAt(p)' /\ MemoryIsMarker'
    BY <1>1, <2>1, <2>2 DEF DueAt, MemoryIsMarker
  <2> QED BY <2>1, <2>2, <2>3, HolderStep
<1>3. CASE Preview(p)
  <2>1. lock = p /\ UNCHANGED <<marker, memory>> /\ MemoryIsMarker'
    BY <1>1, <1>3, HoldsLock DEF Preview, Critical, MemoryIsMarker
  <2>2. CASE Ends(p)
    BY <2>1, <2>2, JobEnds
  <2>3. ASSUME Desired # Nil, memory # Desired, UNCHANGED lock,
               job' = [job EXCEPT ![p].pc = IF memory = Nil THEN "load" ELSE "down",
                                  ![p].target = Desired]
        PROVE  WriteInv'
    <3> DEFINE j(pc) == JobOf(pc, Desired, job[p].live)
    <3>1. \A pc : [[job[p] EXCEPT !.pc = pc] EXCEPT !.target = Desired] = j(pc)
      <4> TAKE pc
      <4>1. job[p] = JobOf(job[p].pc, job[p].target, job[p].live)
        BY <1>1 DEF DueAt
      <4> QED BY <4>1, JobEdits
    <3>2. PICK pc \in {"load", "down"} :
            /\ pc = (IF memory = Nil THEN "load" ELSE "down")
            /\ job' = [job EXCEPT ![p] = j(pc)]
      BY <2>3, <3>1 DEF WriteInv
    <3>3. j(pc).pc = pc /\ j(pc).target = Desired /\ j(pc).live = job[p].live
      BY DEF JobOf
    <3>4. /\ DOMAIN job' = Jobs /\ \A o \in Jobs \ {p} : job'[o] = job[o]
          /\ job'[p] = JobOf(pc, Desired, job[p].live)
      <4> HIDE DEF j
      <4>1. /\ DOMAIN job' = Jobs /\ \A o \in Jobs \ {p} : job'[o] = job[o]
            /\ job'[p] = j(pc)
        BY <3>2, JobUpdate
      <4> QED BY <4>1 DEF j
    <3>5. job'[p].pc = pc /\ job'[p].target = Desired /\ job'[p].live = job[p].live
      BY <3>3, <3>4
    <3>6. pc = "down" => Desired # marker /\ marker # Nil
      BY <1>1, <2>3, <3>2 DEF MemoryIsMarker
    <3>7. DueAt(p)'
      <4> HIDE DEF j
      <4> QED BY <2>1, <2>3, <3>2, <3>4, <3>5, <3>6 DEF DueAt
    <3> QED BY <2>1, <3>4, <3>7, HolderStep
  <2> QED BY <1>3, <2>2, <2>3 DEF Preview
<1>4. CASE Load(p)
  <2>1. lock = p /\ UNCHANGED marker /\ MemoryIsMarker'
    BY <1>1, <1>4, HoldsLock DEF Load, Critical, MemoryIsMarker
  <2>2. job[p].target # Nil
    BY <1>1, <1>4 DEF DueAt, Load
  <2>3. CASE Ends(p)
    BY <2>1, <2>3, JobEnds
  <2>4. CASE marker = Nil /\ UNCHANGED memory /\ job[p].target.id # "default" /\ Goes(p, "inspect")
    BY <2>1, <2>2, <2>4, JobStays
  <2>5. CASE marker # Nil /\ job[p].target # marker /\ Goes(p, "down")
    <3>1. /\ DOMAIN job' = Jobs /\ \A o \in Jobs \ {p} : job'[o] = job[o]
          /\ job'[p] = JobOf("down", job[p].target, job[p].live)
          /\ job'[p].pc = "down" /\ job'[p].target = job[p].target
          /\ job'[p].live = job[p].live
      BY <2>5, JobGoes DEF Goes
    <3>2. DueAt(p)'
      BY <2>1, <2>5, <3>1 DEF DueAt, Goes
    <3> QED BY <2>1, <3>1, <3>2, HolderStep
  <2> QED BY <1>4, <2>3, <2>4, <2>5 DEF Load
<1>5. CASE Inspect(p)
  <2>1. lock = p /\ UNCHANGED <<marker, memory>> /\ MemoryIsMarker'
    BY <1>1, <1>5, HoldsLock DEF Inspect, Critical, MemoryIsMarker
  <2>2. marker = Nil /\ job[p].target # Nil /\ job[p].target.id # "default"
    BY <1>1, <1>5 DEF DueAt, Inspect
  <2>3. CASE Ends(p)
    BY <2>1, <2>3, JobEnds
  <2>4. CASE Goes(p, "persist")
    BY <2>1, <2>4, JobStays
  <2>5. CASE Goes(p, "down")
    BY <2>1, <2>2, <2>5, JobStays
  <2> QED BY <1>5, <2>3, <2>4, <2>5 DEF Inspect
<1>6. CASE SetDown(p) \/ SetUp(p)
  <2>1. job[p].pc \in {"down", "up"} /\ UNCHANGED <<marker, memory>>
    BY <1>6 DEF SetDown, SetUp, SetLimit
  <2>2. lock = p /\ MemoryIsMarker'
    BY <1>1, <2>1, HoldsLock DEF Critical, MemoryIsMarker
  <2>3. job[p].target # marker /\ (job[p].target.id = "default" => marker # Nil)
    BY <1>1, <2>1 DEF DueAt
  <2>4. CASE Ends(p)
    BY <2>2, <2>4, JobEnds
  <2>5. CASE Goes(p, "up")
    BY <2>1, <2>2, <2>3, <2>5, JobStays
  <2>6. CASE Goes(p, "persist")
    BY <2>1, <2>2, <2>6, JobStays
  <2> QED BY <1>6, <2>4, <2>5, <2>6 DEF SetDown, SetUp, SetLimit
<1>7. CASE Persist(p)
  <2>1. lock = p
    BY <1>7, HoldsLock DEF Persist, Critical
  <2>2. Ends(p) /\ MemoryIsMarker'
    BY <1>1, <1>7 DEF Persist, MemoryIsMarker
  <2> QED BY <2>1, <2>2, JobEnds
<1> QED BY <1>2, <1>3, <1>4, <1>5, <1>6, <1>7 DEF Reconcile

LEMMA WriteStep == WriteInv /\ [Next]_vars => WriteInv'
<1> SUFFICES ASSUME WriteInv, [Next]_vars PROVE WriteInv'
  OBVIOUS
<1>1. CASE Tick
  <2>1. "reconciler" \in Jobs /\ UNCHANGED <<marker, memory, lock>>
        /\ job' = [job EXCEPT !["reconciler"].pc = "wait"]
    BY <1>1 DEF Tick, Jobs
  <2> DEFINE t == "reconciler"
  <2>2. /\ DOMAIN job' = Jobs /\ \A o \in Jobs \ {t} : job'[o] = job[o]
        /\ job'[t] = JobOf("wait", job[t].target, job[t].live)
        /\ job'[t].pc = "wait" /\ job'[t].target = job[t].target /\ job'[t].live = job[t].live
    BY <2>1, JobGoes
  <2>3. DueAt(t)'
    BY <2>2 DEF DueAt, Critical
  <2> QED BY <2>1, <2>2, <2>3, OutsideStep
<1>2. CASE Restart
  <2>1. DOMAIN job' = Jobs /\ MemoryIsMarker' /\ \A p \in Jobs : job'[p] = Idle
    BY <1>2 DEF Restart, MemoryIsMarker
  <2>2. Idle.pc = "idle" /\ Idle = JobOf(Idle.pc, Idle.target, Idle.live)
    BY DEF Idle, JobOf
  <2>3. \A p \in Jobs : DueAt(p)'
    BY <2>1, <2>2 DEF DueAt, Critical
  <2> QED BY <2>1, <2>3 DEF WriteInv
<1>3. CASE Minute \/ Meddle \/ UNCHANGED vars
  BY <1>3, WriteUnchanged DEF Minute, Meddle, vars
<1> QED BY <1>1, <1>2, <1>3, SubmitStep, HandleStep, ReconcileStep DEF Next

LEMMA WriteInvariant == Spec => []WriteInv
<1>1. Init => WriteInv
  BY WriteInit
<1>2. WriteInv /\ [Next]_vars => WriteInv'
  BY WriteStep
<1> QED BY <1>1, <1>2, PTL DEF Spec

\* lastApplied is the persisted marker or nothing, across failing writes and
\* restarts.
THEOREM MemoryIsMarkerCorrect == Spec => []MemoryIsMarker
<1>1. WriteInv => MemoryIsMarker
  BY WriteImplies
<1> QED BY <1>1, WriteInvariant, PTL

\* ReconcileWorker writes qBittorrent only for a change, for any number of
\* requests beside the ticker, failures and restarts.
THEOREM WritesAreDueCorrect == Spec => []WritesAreDue
<1>1. WriteInv => WritesAreDue
  BY WriteImplies
<1> QED BY <1>1, WriteInvariant, PTL
-----------------------------------------------------------------------------
(* Types, the number of rules and the limits to return to. *)

\* The steps that work on a target.
Targeted == {"manual", "store", "load", "inspect", "down", "up", "persist"}

JobsTyped ==
  /\ job \in [Jobs -> JobState]
  /\ \A p \in Jobs : job[p].pc \in Targeted => job[p].target # Nil

\* A request that is about to insert has been let in below the limit and has
\* found, or just stored, the limits to return to.
Reserved(q) == job[q].pc = "insert" => Cardinality(Stored) < MaxSchedules /\ defaults # Nil

KeptInv == TypeOK /\ JobsTyped /\ BaselineCaptured /\ \A q \in Jobs : Reserved(q)

LEMMA JobSet ==
  ASSUME JobsTyped, NEW p \in Jobs, NEW j \in JobState,
         j.pc \in Targeted => j.target # Nil, job' = [job EXCEPT ![p] = j]
  PROVE  JobsTyped'
  BY DEF JobsTyped

LEMMA JobMoves ==
  ASSUME JobsTyped, NEW p \in Jobs,
         NEW pc \in {"insert", "store", "wait", "preview", "inspect", "down", "up", "persist"},
         pc \in Targeted => job[p].target # Nil, job' = [job EXCEPT ![p].pc = pc]
  PROVE  JobsTyped'
<1> DEFINE j == [job[p] EXCEPT !.pc = pc]
<1>1. job[p] \in JobState
  BY DEF JobsTyped
<1>2. j \in JobState /\ j.pc = pc /\ j.target = job[p].target
  BY <1>1 DEF JobState
<1>3. job' = [job EXCEPT ![p] = j]
  OBVIOUS
<1> HIDE DEF j
<1> QED BY <1>2, <1>3, JobSet

LEMMA IdleTyped == Idle \in JobState /\ Idle.pc \notin Targeted
  BY DEF Idle, JobState, Targeted

LEMMA JobStops == ASSUME JobsTyped, NEW p \in Jobs, Ends(p) PROVE JobsTyped'
  BY IdleTyped, JobSet DEF Ends

\* The highest of the open rules is one of them, so what should be in force is a
\* target, or nothing.
LEMMA DesiredTyped ==
  ASSUME RowsTyped, defaults \in Pairs \cup {Nil}
  PROVE  Desired \in Target \cup {Nil}
<1>1. CASE Open # {}
  <2> DEFINE f == [r \in Open |-> 0 - rows[r].priority]
  <2>1. \A r \in Open : r \in Rules /\ rows[r] \in Rule
    BY DEF Open, Stored, RowsTyped
  <2>2. f \in [Open -> Int] /\ \A r \in Open : rows[r].priority \in Int
    BY <2>1 DEF Rule
  <2>3. IsFiniteSet(Open)
    BY SchedulerAssumption, FS_Subset DEF Open, Stored
  <2>4. PICK r \in Open : \A s \in Open : f[r] <= f[s]
    <3> HIDE DEF f
    <3> QED BY <1>1, <2>2, <2>3, LeastExists
  <2>5. \A s \in Open : rows[r].priority >= rows[s].priority
    BY <2>2, <2>4
  <2>6. First \in Open
    BY <2>4, <2>5 DEF First
  <2>7. First \in Rules /\ rows[First].limits \in Pairs
    BY <2>1, <2>6, SchedulerAssumption DEF Rule
  <2> QED BY <1>1, <2>7 DEF Desired, Target
<1>2. CASE Open = {}
  BY <1>2 DEF Desired, Target
<1> QED BY <1>1, <1>2

LEMMA JobsStep ==
  ASSUME RowsInv, KeptInv, [Next]_vars PROVE JobsTyped'
<1>1. JobsTyped /\ job \in [Jobs -> JobState] /\ defaults \in Pairs \cup {Nil}
  BY DEF KeptInv, JobsTyped, TypeOK
<1>2. ASSUME NEW q \in Requests, Submit(q) PROVE JobsTyped'
  <2>1. q \in Jobs
    BY DEF Jobs
  <2>2. CASE Create(q)
    BY <1>1, <2>1, <2>2, JobMoves DEF Create, Targeted
  <2>3. CASE Update(q) \/ Delete(q) \/ Reorder(q)
    <3>1. job' = [job EXCEPT ![q].pc = "wait"]
      BY <2>3 DEF Update, Delete, Reorder
    <3> QED BY <1>1, <2>1, <3>1, JobMoves DEF Targeted
  <2>4. CASE ApplyManual(q)
    <3>1. PICK limits \in Offered :
            job' = [job EXCEPT ![q].pc = "manual",
                               ![q].target = [id |-> "default", limits |-> limits]]
      BY <2>4 DEF ApplyManual
    <3> DEFINE t == [id |-> "default", limits |-> limits]
               j == [[job[q] EXCEPT !.pc = "manual"] EXCEPT !.target = t]
    <3>2. t \in Target /\ t # Nil
      BY SchedulerAssumption DEF Target
    <3>3. job[q] \in JobState
      BY <1>1, <2>1
    <3>4. j \in JobState /\ j.target = t
      <4> HIDE DEF t
      <4> QED BY <3>2, <3>3 DEF JobState
    <3>5. job' = [job EXCEPT ![q] = j]
      BY <1>1, <2>1, <3>1
    <3> HIDE DEF j, t
    <3> QED BY <1>1, <2>1, <3>2, <3>4, <3>5, JobSet
  <2> QED BY <1>2, <2>2, <2>3, <2>4 DEF Submit
<1>3. ASSUME NEW q \in Requests, Handle(q) PROVE JobsTyped'
  <2>1. q \in Jobs
    BY DEF Jobs
  <2>2. CASE Ends(q)
    BY <1>1, <2>1, <2>2, JobStops
  <2>3. CASE job' = [job EXCEPT ![q].pc = "wait"]
    BY <1>1, <2>1, <2>3, JobMoves DEF Targeted
  <2>4. CASE job[q].pc = "manual" /\ Goes(q, "store")
    <3>1. job[q].target # Nil
      BY <1>1, <2>1, <2>4 DEF JobsTyped, Targeted
    <3> QED BY <1>1, <2>1, <2>4, <3>1, JobMoves DEF Goes
  <2>5. CASE Respond(q)
    <3> DEFINE j == [job[q] EXCEPT !.live = FALSE]
    <3>1. job[q] \in JobState
      BY <1>1, <2>1
    <3>2. j \in JobState /\ j.pc = job[q].pc /\ j.target = job[q].target
      BY <3>1 DEF JobState
    <3>3. job' = [job EXCEPT ![q] = j]
      BY <2>5 DEF Respond
    <3> HIDE DEF j
    <3> QED BY <1>1, <2>1, <3>2, <3>3, JobSet DEF JobsTyped
  <2> QED BY <1>3, <2>2, <2>3, <2>4, <2>5 DEF Handle, Insert, ManualUp, ManualStore
<1>4. ASSUME NEW p \in Jobs, Reconcile(p) PROVE JobsTyped'
  <2>1. CASE Ends(p)
    BY <1>1, <2>1, JobStops
  <2>2. CASE Lock(p)
    BY <1>1, <2>2, JobMoves DEF Lock, Targeted
  <2>3. ASSUME Desired # Nil,
               job' = [job EXCEPT ![p].pc = IF memory = Nil THEN "load" ELSE "down",
                                  ![p].target = Desired]
        PROVE  JobsTyped'
    <3> DEFINE j(pc) == [[job[p] EXCEPT !.pc = pc] EXCEPT !.target = Desired]
    <3>1. Desired \in Target
      BY <1>1, <2>3, DesiredTyped DEF RowsInv
    <3>2. job[p] \in JobState
      BY <1>1
    <3>3. \A pc \in {"load", "down"} : j(pc) \in JobState /\ j(pc).target = Desired
      BY <3>1, <3>2 DEF JobState
    <3>4. PICK pc \in {"load", "down"} : job' = [job EXCEPT ![p] = j(pc)]
      BY <1>1, <2>3
    <3> HIDE DEF j
    <3> QED BY <1>1, <2>3, <3>3, <3>4, JobSet
  <2>4. ASSUME NEW pc \in {"inspect", "down", "up", "persist"}, Goes(p, pc),
               job[p].pc \in {"load", "inspect", "down", "up"}
        PROVE  JobsTyped'
    <3>1. job[p].target # Nil
      BY <1>1, <2>4 DEF JobsTyped, Targeted
    <3> QED BY <1>1, <2>4, <3>1, JobMoves DEF Goes
  <2>5. CASE Preview(p)
    BY <2>1, <2>3, <2>5 DEF Preview
  <2>6. CASE Load(p)
    BY <2>1, <2>4, <2>6 DEF Load
  <2>7. CASE Inspect(p)
    BY <2>1, <2>4, <2>7 DEF Inspect
  <2>8. CASE SetDown(p) \/ SetUp(p)
    BY <2>1, <2>4, <2>8 DEF SetDown, SetUp, SetLimit
  <2>9. CASE Persist(p)
    BY <2>1, <2>9 DEF Persist
  <2> QED BY <1>4, <2>2, <2>5, <2>6, <2>7, <2>8, <2>9 DEF Reconcile
<1>5. CASE Tick
  <2>1. "reconciler" \in Jobs /\ job' = [job EXCEPT !["reconciler"].pc = "wait"]
    BY <1>5 DEF Tick, Jobs
  <2> QED BY <1>1, <2>1, JobMoves DEF Targeted
<1>6. CASE Restart
  BY <1>6, IdleTyped DEF Restart, JobsTyped
<1>7. CASE Minute \/ Meddle \/ UNCHANGED vars
  BY <1>1, <1>7 DEF Minute, Meddle, vars, JobsTyped
<1> QED BY <1>2, <1>3, <1>4, <1>5, <1>6, <1>7 DEF Next

LEMMA CountStep ==
  ASSUME KeptInv, [Next]_vars
  PROVE  count' \in [requests : 0 .. MaxRequests, mishaps : 0 .. MaxMishaps,
                     minutes : 0 .. MaxMinutes]
<1>1. /\ count \in [requests : 0 .. MaxRequests, mishaps : 0 .. MaxMishaps,
                    minutes : 0 .. MaxMinutes]
      /\ MaxRequests \in Nat /\ MaxMishaps \in Nat /\ MaxMinutes \in Nat
  BY SchedulerAssumption DEF KeptInv, TypeOK
<1>2. CASE Mishap
  BY <1>1, <1>2 DEF Mishap
<1>3. CASE UNCHANGED count
  BY <1>1, <1>3
<1>4. ASSUME NEW q, Arrives(q) PROVE count' \in [requests : 0 .. MaxRequests,
                     mishaps : 0 .. MaxMishaps, minutes : 0 .. MaxMinutes]
  BY <1>1, <1>4 DEF Arrives
<1>5. CASE Minute
  BY <1>1, <1>5 DEF Minute
<1>6. ASSUME NEW q, Submit(q) PROVE Arrives(q)
  BY <1>6 DEF Submit, Create, Update, Delete, Reorder, ApplyManual
<1>7. ASSUME NEW q, Handle(q) PROVE Mishap \/ UNCHANGED count
  BY <1>7 DEF Handle, Insert, ManualUp, ManualStore, Respond, DbWorks, DbFails, Works
<1>8. ASSUME NEW p, Reconcile(p) PROVE Mishap \/ UNCHANGED count
  BY <1>8 DEF Reconcile, Lock, Preview, Load, Inspect, SetDown, SetUp, SetLimit, Persist,
              DbWorks, DbFails, Works
<1>9. Tick \/ Meddle \/ Restart \/ UNCHANGED vars => Mishap \/ UNCHANGED count
  BY DEF Tick, Meddle, Restart, vars
<1> QED BY <1>2, <1>3, <1>4, <1>5, <1>6, <1>7, <1>8, <1>9 DEF Next

\* The mutex, and what is remembered of the last application.
LEMMA MarksStep ==
  ASSUME KeptInv, [Next]_vars
  PROVE  /\ lock' \in Jobs \cup {"free"}
         /\ marker' \in Mark \cup {Nil} /\ memory' \in Mark \cup {Nil}
<1>1. /\ lock \in Jobs \cup {"free"} /\ marker \in Mark \cup {Nil}
      /\ memory \in Mark \cup {Nil} /\ JobsTyped
  BY DEF KeptInv, TypeOK
<1>2. ASSUME NEW q \in Requests, Submit(q) \/ Handle(q)
      PROVE  lock' \in {lock, q, "free"} /\ UNCHANGED <<marker, memory>>
  BY <1>2 DEF Submit, Handle, Create, Update, Delete, Reorder, ApplyManual, Insert, ManualUp,
              ManualStore, Respond, Goes, Ends
<1>3. ASSUME NEW p \in Jobs, Reconcile(p)
      PROVE  /\ lock' \in {lock, p, "free"}
             /\ marker' \in Mark \cup {Nil} /\ memory' \in Mark \cup {Nil}
  <2>1. lock' \in {lock, p, "free"}
    BY <1>3 DEF Reconcile, Lock, Preview, Load, Inspect, SetDown, SetUp, SetLimit, Persist,
                Goes, Ends
  <2>2. CASE Persist(p)
    <3>1. job[p].target \in Target
      BY <1>1, <2>2 DEF Persist, JobsTyped, Targeted, JobState
    <3>2. Remembered(job[p].target) \in Mark \cup {Nil}
      BY <3>1 DEF Remembered, Target, Mark
    <3> QED BY <1>1, <2>1, <2>2, <3>2 DEF Persist
  <2>3. CASE ~Persist(p)
    <3>1. UNCHANGED marker /\ memory' \in {memory, marker}
      BY <1>3, <2>3 DEF Reconcile, Lock, Preview, Load, Inspect, SetDown, SetUp, SetLimit
    <3> QED BY <1>1, <2>1, <3>1
  <2> QED BY <2>2, <2>3
<1>4. CASE Tick \/ Minute \/ Meddle \/ Restart \/ UNCHANGED vars
  BY <1>1, <1>4 DEF Tick, Minute, Meddle, Restart, vars
<1>5. Requests \subseteq Jobs
  BY DEF Jobs
<1> QED BY <1>1, <1>2, <1>3, <1>4, <1>5 DEF Next

\* qBittorrent's limits and who wrote them.
LEMMA LimitsStep ==
  ASSUME KeptInv, [Next]_vars
  PROVE  qbt' \in Pairs /\ writer' \in {"user", "default", "rule"} /\ torn' \in BOOLEAN
<1> DEFINE Typed == qbt' \in Pairs /\ writer' \in {"user", "default", "rule"}
                    /\ torn' \in BOOLEAN
<1>1. /\ qbt \in Pairs /\ writer \in {"user", "default", "rule"} /\ torn \in BOOLEAN
      /\ Offered \subseteq Pairs
  BY SchedulerAssumption DEF KeptInv, TypeOK
<1>2. ASSUME NEW limits \in Pairs
      PROVE  /\ [qbt EXCEPT !.down = limits.down] \in Pairs
             /\ [qbt EXCEPT !.up = limits.up] \in Pairs
  BY <1>1, <1>2 DEF Pairs
<1>3. ASSUME NEW p \in Jobs, job[p].pc \in {"manual", "down", "up"}
      PROVE  job[p].target.limits \in Pairs
  BY <1>3 DEF KeptInv, JobsTyped, Targeted, JobState, Target
<1>4. ASSUME NEW q \in Requests, Submit(q) \/ Handle(q) PROVE Typed
  <2>1. q \in Jobs
    BY DEF Jobs
  <2>2. CASE ApplyManual(q)
    <3>1. PICK limits \in Offered : qbt' = [qbt EXCEPT !.down = limits.down]
      BY <2>2 DEF ApplyManual
    <3>2. writer' = "user" /\ torn' = FALSE
      BY <2>2 DEF ApplyManual
    <3> QED BY <1>1, <1>2, <3>1, <3>2
  <2>3. CASE ManualUp(q)
    <3>1. \/ qbt' = [qbt EXCEPT !.up = job[q].target.limits.up]
          \/ UNCHANGED qbt
      BY <2>3 DEF ManualUp
    <3>2. job[q].target.limits \in Pairs
      BY <1>3, <2>1, <2>3 DEF ManualUp
    <3> QED BY <1>1, <1>2, <2>3, <3>1, <3>2 DEF ManualUp
  <2>4. CASE Create(q) \/ Update(q) \/ Delete(q) \/ Reorder(q) \/ Insert(q)
             \/ ManualStore(q) \/ Respond(q)
    BY <1>1, <2>4 DEF Create, Update, Delete, Reorder, Insert, ManualStore, Respond
  <2> QED BY <1>4, <2>2, <2>3, <2>4 DEF Submit, Handle
<1>5. ASSUME NEW p \in Jobs, Reconcile(p) PROVE Typed
  <2>1. CASE SetDown(p) \/ SetUp(p)
    <3>1. job[p].target.limits \in Pairs
      BY <1>3, <2>1 DEF SetDown, SetUp, SetLimit
    <3>2. qbt' \in Pairs
      BY <1>1, <1>2, <2>1, <3>1 DEF SetDown, SetUp, SetLimit
    <3>3. writer' \in {"user", "default", "rule"} /\ torn' \in BOOLEAN
      BY <1>1, <2>1 DEF SetDown, SetUp, SetLimit, Author
    <3> QED BY <3>2, <3>3
  <2>2. CASE Lock(p) \/ Preview(p) \/ Load(p) \/ Inspect(p) \/ Persist(p)
    BY <1>1, <2>2 DEF Lock, Preview, Load, Inspect, Persist
  <2> QED BY <1>5, <2>1, <2>2 DEF Reconcile
<1>6. CASE Tick \/ Minute \/ Meddle \/ Restart \/ UNCHANGED vars
  BY <1>1, <1>6 DEF Tick, Minute, Meddle, Restart, vars
<1> QED BY <1>4, <1>5, <1>6 DEF Next

\* The rules table never has more rules than allowed, and none without limits to
\* return to: only the holder of the mutex inserts, where it has been let in.
Roomy ==
  /\ Cardinality(Stored) <= MaxSchedules /\ BaselineCaptured
  /\ defaults \in Pairs \cup {Nil} /\ \A q \in Jobs : Reserved(q)

LEMMA StoredFinite == IsFiniteSet(Stored) /\ Cardinality(Stored) \in Nat
  BY SchedulerAssumption, FS_Subset, FS_CardinalityType DEF Stored

\* No rule is added.
LEMMA RoomFrame ==
  ASSUME Roomy, Stored' \subseteq Stored, defaults' \in Pairs \cup {Nil},
         defaults # Nil => defaults' # Nil,
         \A q \in Jobs : job'[q].pc = "insert" => job[q].pc = "insert"
  PROVE  Roomy'
<1>1. Cardinality(Stored') \in Nat /\ Cardinality(Stored') <= Cardinality(Stored)
  BY StoredFinite, FS_Subset, FS_CardinalityType
<1>2. Cardinality(Stored) \in Nat /\ MaxSchedules \in Nat
  BY StoredFinite, SchedulerAssumption
<1>3. Stored' # {} => defaults' # Nil
  BY DEF Roomy, BaselineCaptured
<1>4. \A q \in Jobs : job'[q].pc = "insert" => Cardinality(Stored') < MaxSchedules /\ defaults' # Nil
  BY <1>1, <1>2 DEF Roomy, Reserved
<1> QED BY <1>1, <1>2, <1>3, <1>4 DEF Roomy, BaselineCaptured, Reserved

\* The limits of qBittorrent, or a user's, are limits to return to.
LEMMA DefaultsStep ==
  ASSUME KeptInv, [Next]_vars
  PROVE  defaults' \in Pairs \cup {Nil} /\ (defaults # Nil => defaults' # Nil)
<1>1. defaults \in Pairs \cup {Nil} /\ qbt \in Pairs /\ Nil \notin Pairs
  BY SchedulerAssumption DEF KeptInv, TypeOK
<1>2. ASSUME NEW q \in Requests, Submit(q)
      PROVE  defaults' \in {defaults, IF defaults = Nil THEN qbt ELSE defaults}
  BY <1>2 DEF Submit, Create, Update, Delete, Reorder, ApplyManual
<1>3. ASSUME NEW q \in Requests, Handle(q)
      PROVE  defaults' = defaults \/ defaults' \in Pairs
  <2>1. CASE ManualStore(q)
    <3>1. job[q].target.limits \in Pairs
      BY <2>1 DEF ManualStore, KeptInv, JobsTyped, Targeted, JobState, Target, Jobs
    <3> QED BY <2>1, <3>1 DEF ManualStore
  <2> QED BY <1>3, <2>1 DEF Handle, Insert, ManualUp, Respond
<1>4. (\E p \in Jobs : Reconcile(p)) \/ Tick \/ Minute \/ Meddle \/ Restart \/ UNCHANGED vars
        => defaults' = defaults
  BY DEF Reconcile, Lock, Preview, Load, Inspect, SetDown, SetUp, SetLimit, Persist,
         Tick, Minute, Meddle, Restart, vars
<1> QED BY <1>1, <1>2, <1>3, <1>4 DEF Next

\* Create goes on to Insert with room for a rule and limits to return to.
LEMMA RoomCreate ==
  ASSUME WriteInv, KeptInv, Roomy, NEW q \in Requests, Create(q) PROVE Roomy'
<1>1. q \in Jobs /\ defaults \in Pairs \cup {Nil} /\ qbt \in Pairs /\ Nil \notin Pairs
  BY SchedulerAssumption DEF KeptInv, TypeOK, Jobs
<1>2. rows' = rows /\ Cardinality(Stored) < MaxSchedules
  BY DEF Create
<1>3. defaults' \in Pairs /\ defaults' # Nil
  BY <1>1 DEF Create
<1>4. Stored' = Stored
  BY <1>2 DEF Stored
<1> QED BY <1>2, <1>3, <1>4 DEF Roomy, BaselineCaptured, Reserved

\* Insert adds one rule, and nobody else is about to.
LEMMA RoomInsert ==
  ASSUME WriteInv, KeptInv, Roomy, NEW q \in Requests, Insert(q) PROVE Roomy'
<1>1. q \in Jobs /\ lock = q /\ job[q].pc = "insert"
  BY HoldsLock DEF Insert, Critical, Jobs
<1>2. Cardinality(Stored) < MaxSchedules /\ defaults # Nil /\ defaults' = defaults
  BY <1>1 DEF Roomy, Reserved, Insert
<1>3. \A o \in Jobs : job'[o].pc # "insert"
  <2> SUFFICES ASSUME NEW o \in Jobs, job'[o].pc = "insert" PROVE FALSE
    OBVIOUS
  <2>1. CASE o = q
    <3>1. job' = [job EXCEPT ![q].pc = "wait"] \/ job' = [job EXCEPT ![q] = Idle]
      BY DEF Insert, Ends
    <3>2. job[q] \in JobState /\ job \in [Jobs -> JobState]
      BY <1>1 DEF KeptInv, JobsTyped
    <3> QED BY <1>1, <2>1, <3>1, <3>2 DEF JobState, Idle
  <2>2. CASE o # q
    <3>1. job'[o] = job[o]
      BY <2>2 DEF Insert, Ends, WriteInv
    <3> QED BY <1>1, <2>2, <3>1, HoldsLock DEF Critical
  <2> QED BY <2>1, <2>2
<1>4. Stored' \subseteq Stored \/ \E r \in Rules : Stored' \subseteq Stored \cup {r}
  <2>1. CASE rows' = rows
    BY <2>1 DEF Stored
  <2>2. ASSUME NEW r \in Rules \ Stored, NEW row, rows' = [rows EXCEPT ![r] = row]
        PROVE  Stored' \subseteq Stored \cup {r}
    BY <2>2 DEF Stored
  <2> QED BY <2>1, <2>2 DEF Insert
<1>5. Cardinality(Stored') <= MaxSchedules
  <2>1. Cardinality(Stored) \in Nat /\ IsFiniteSet(Stored) /\ MaxSchedules \in Nat
    BY StoredFinite, SchedulerAssumption
  <2>2. CASE Stored' \subseteq Stored
    <3>1. Cardinality(Stored') \in Nat /\ Cardinality(Stored') <= Cardinality(Stored)
      BY <2>1, <2>2, FS_Subset, FS_CardinalityType
    <3> QED BY <1>2, <2>1, <3>1
  <2>3. ASSUME NEW r \in Rules, Stored' \subseteq Stored \cup {r}
        PROVE  Cardinality(Stored') <= MaxSchedules
    <3> DEFINE More == Stored \cup {r}
    <3>1. IsFiniteSet(More) /\ Cardinality(More) \in Nat
          /\ Cardinality(More) <= Cardinality(Stored) + 1
      <4>1. IsFiniteSet(More)
            /\ Cardinality(More) = (IF r \in Stored THEN Cardinality(Stored)
                                    ELSE Cardinality(Stored) + 1)
        BY <2>1, FS_AddElement
      <4> QED BY <2>1, <4>1
    <3>2. Cardinality(Stored') \in Nat /\ Cardinality(Stored') <= Cardinality(More)
      BY <2>3, <3>1, FS_Subset, FS_CardinalityType
    <3> HIDE DEF More
    <3> QED BY <1>2, <2>1, <3>1, <3>2
  <2> QED BY <1>4, <2>2, <2>3
<1>6. defaults' \in Pairs \cup {Nil}
  BY <1>2 DEF Roomy
<1> QED BY <1>2, <1>3, <1>5, <1>6 DEF Roomy, BaselineCaptured, Reserved

\* No other step begins an insertion.
LEMMA NoneBegins ==
  ASSUME JobsTyped, NEW p \in Jobs, NEW pc, pc # "insert",
         job' = [job EXCEPT ![p].pc = pc]
  PROVE  \A o \in Jobs : job'[o].pc = "insert" => job[o].pc = "insert"
<1>1. job[p] \in JobState /\ job \in [Jobs -> JobState]
  BY DEF JobsTyped
<1>2. [job[p] EXCEPT !.pc = pc].pc = pc
  BY <1>1 DEF JobState
<1> QED BY <1>1, <1>2

LEMMA NoneStops ==
  ASSUME JobsTyped, NEW p \in Jobs, Ends(p)
  PROVE  \A o \in Jobs : job'[o].pc = "insert" => job[o].pc = "insert"
  BY DEF JobsTyped, Ends, Idle

LEMMA NoneInserts ==
  ASSUME KeptInv, [Next]_vars, \A q \in Requests : ~Create(q) /\ ~Insert(q)
  PROVE  \A o \in Jobs : job'[o].pc = "insert" => job[o].pc = "insert"
<1> DEFINE None == \A o \in Jobs : job'[o].pc = "insert" => job[o].pc = "insert"
<1>1. JobsTyped /\ job \in [Jobs -> JobState] /\ Requests \subseteq Jobs
  BY DEF KeptInv, JobsTyped, Jobs
<1>2. ASSUME NEW p \in Jobs, NEW pc \in {"store", "wait", "preview", "inspect", "down", "up", "persist"},
             job' = [job EXCEPT ![p].pc = pc]
      PROVE  None
  BY <1>1, <1>2, NoneBegins
<1>3. ASSUME NEW p \in Jobs, Ends(p) PROVE None
  BY <1>1, <1>3, NoneStops
<1>4. ASSUME NEW p \in Jobs, NEW pc \in {"manual", "load", "down"}, NEW t,
             job' = [job EXCEPT ![p].pc = pc, ![p].target = t]
      PROVE  None
  <2> DEFINE j == [[job[p] EXCEPT !.pc = pc] EXCEPT !.target = t]
  <2>1. job[p] \in JobState
    BY <1>1
  <2>2. j.pc = pc
    BY <2>1 DEF JobState
  <2>3. job' = [job EXCEPT ![p] = j]
    BY <1>1, <1>4
  <2> HIDE DEF j
  <2> QED BY <1>1, <2>2, <2>3
<1>5. ASSUME NEW q \in Requests, Submit(q) PROVE None
  <2>1. CASE Update(q) \/ Delete(q) \/ Reorder(q)
    <3>1. job' = [job EXCEPT ![q].pc = "wait"]
      BY <2>1 DEF Update, Delete, Reorder
    <3> QED BY <1>1, <1>2, <3>1
  <2>2. CASE ApplyManual(q)
    <3>1. PICK t : job' = [job EXCEPT ![q].pc = "manual", ![q].target = t]
      BY <2>2 DEF ApplyManual
    <3> QED BY <1>1, <1>4, <3>1
  <2> QED BY <1>5, <2>1, <2>2 DEF Submit
<1>6. ASSUME NEW q \in Requests, Handle(q) PROVE None
  <2>1. q \in Jobs
    BY <1>1
  <2>2. CASE Respond(q)
    <3> DEFINE j == [job[q] EXCEPT !.live = FALSE]
    <3>1. job[q] \in JobState
      BY <1>1, <2>1
    <3>2. j.pc = job[q].pc
      BY <3>1 DEF JobState
    <3>3. job' = [job EXCEPT ![q] = j]
      BY <2>2 DEF Respond
    <3> HIDE DEF j
    <3> QED BY <1>1, <2>1, <3>2, <3>3
  <2>3. CASE ManualUp(q) \/ ManualStore(q)
    <3>1. Ends(q) \/ Goes(q, "store")
      BY <2>3 DEF ManualUp, ManualStore
    <3> QED BY <1>2, <1>3, <2>1, <3>1 DEF Goes
  <2> QED BY <1>6, <2>2, <2>3 DEF Handle
<1>7. ASSUME NEW p \in Jobs, Reconcile(p) PROVE None
  <2>1. CASE Preview(p)
    <3>1. \/ Ends(p)
          \/ \E pc \in {"load", "down"} :
               job' = [job EXCEPT ![p].pc = pc, ![p].target = Desired]
      BY <2>1 DEF Preview
    <3> QED BY <1>3, <1>4, <3>1
  <2>2. CASE ~Preview(p)
    <3>1. \/ Ends(p)
          \/ \E pc \in {"preview", "inspect", "down", "up", "persist"} :
               job' = [job EXCEPT ![p].pc = pc]
      BY <1>7, <2>2 DEF Reconcile, Lock, Load, Inspect, SetDown, SetUp, SetLimit, Persist, Goes
    <3> QED BY <1>2, <1>3, <3>1
  <2> QED BY <2>1, <2>2
<1>8. CASE Tick
  <2>1. "reconciler" \in Jobs /\ job' = [job EXCEPT !["reconciler"].pc = "wait"]
    BY <1>8 DEF Tick, Jobs
  <2> QED BY <1>2, <2>1
<1>9. CASE Restart \/ Minute \/ Meddle \/ UNCHANGED vars
  BY <1>9 DEF Restart, Minute, Meddle, vars, Idle
<1> QED BY <1>5, <1>6, <1>7, <1>8, <1>9 DEF Next

LEMMA RoomStep ==
  ASSUME WriteInv, KeptInv, [Next]_vars PROVE Roomy'
<1>1. Roomy
  BY DEF KeptInv, TypeOK, Roomy
<1>2. ASSUME NEW q \in Requests, Create(q) \/ Insert(q) PROVE Roomy'
  BY <1>1, <1>2, RoomCreate, RoomInsert
<1>3. CASE \A q \in Requests : ~Create(q) /\ ~Insert(q)
  <2>1. Stored' \subseteq Stored
    <3>1. ASSUME NEW q \in Requests, Submit(q) PROVE Stored' \subseteq Stored
      <4>1. CASE ApplyManual(q)
        BY <4>1 DEF ApplyManual, Stored
      <4>4. CASE Update(q)
        <5>1. PICK r \in Stored : \E row : rows' = [rows EXCEPT ![r] = row]
          BY <4>4 DEF Update
        <5> QED BY <5>1 DEF Stored
      <4>2. CASE Delete(q)
        BY <4>2 DEF Delete, Stored
      <4>3. CASE Reorder(q)
        <5>1. \A r \in Rules \ Stored : rows'[r] = rows[r]
          BY <4>3 DEF Reorder
        <5> QED BY <5>1 DEF Stored
      <4> QED BY <1>3, <3>1, <4>1, <4>2, <4>3, <4>4 DEF Submit
    <3>2. ASSUME ~ \E q \in Requests : Submit(q) PROVE rows' = rows
      BY <1>3, <3>2 DEF Next, Handle, ManualUp, ManualStore, Respond, Reconcile, Lock, Preview,
           Load, Inspect, SetDown, SetUp, SetLimit, Persist, Tick, Minute, Meddle, Restart, vars
    <3> QED BY <3>1, <3>2 DEF Stored
  <2> QED BY <1>1, <1>3, <2>1, NoneInserts, DefaultsStep, RoomFrame
<1> QED BY <1>2, <1>3

LEMMA KeptInit == Init => RowsInv /\ WriteInv /\ KeptInv
<1> SUFFICES ASSUME Init PROVE KeptInv
  BY RowsInit, WriteInit
<1>1. Stored = {} /\ Cardinality(Stored) <= MaxSchedules
  <2>1. Stored = {}
    BY DEF Init, Stored
  <2>2. Cardinality({}) = 0
    BY FS_EmptySet
  <2> QED BY <2>1, <2>2, SchedulerAssumption
<1>2. JobsTyped /\ job \in [Jobs -> JobState]
  BY IdleTyped DEF Init, JobsTyped
<1>3. \A q \in Jobs : Reserved(q)
  BY DEF Init, Reserved, Idle
<1>4. now \in Times /\ rows \in [Rules -> Rule \cup {Nil}]
  BY RowsInit DEF RowsInv, RowsTyped
<1>5. count \in [requests : 0 .. MaxRequests, mishaps : 0 .. MaxMishaps,
                 minutes : 0 .. MaxMinutes]
  BY SchedulerAssumption DEF Init
<1>6. TypeOK
  BY <1>1, <1>2, <1>4, <1>5, SchedulerAssumption DEF Init, TypeOK
<1> QED BY <1>1, <1>2, <1>3, <1>6 DEF KeptInv, BaselineCaptured

LEMMA KeptStep == RowsInv /\ WriteInv /\ KeptInv /\ [Next]_vars => KeptInv'
<1> SUFFICES ASSUME RowsInv, WriteInv, KeptInv, [Next]_vars PROVE KeptInv'
  OBVIOUS
<1>1. RowsTyped' /\ JobsTyped' /\ Roomy'
  BY RowsStep, JobsStep, RoomStep DEF RowsInv
<1>2. TypeOK'
  BY <1>1, MarksStep, LimitsStep, CountStep DEF TypeOK, RowsTyped, JobsTyped, Roomy
<1> QED BY <1>1, <1>2 DEF KeptInv, Roomy

LEMMA KeptInvariant == Spec => []KeptInv
<1>1. RowsInv /\ WriteInv /\ KeptInv /\ [Next]_vars => (RowsInv /\ WriteInv /\ KeptInv)'
  BY RowsStep, WriteStep, KeptStep
<1> QED BY KeptInit, <1>1, PTL DEF Spec

\* Every variable keeps its kind, and the rules of a worker their limit: the
\* count is read under the mutex that the insertion still holds.
THEOREM TypeCorrect == Spec => []TypeOK
<1>1. KeptInv => TypeOK
  BY DEF KeptInv
<1> QED BY <1>1, KeptInvariant, PTL

\* captureBaseline comes before the insertion and nothing takes the defaults
\* away, so a worker with rules has limits to return to.
THEOREM BaselineCapturedCorrect == Spec => []BaselineCaptured
<1>1. KeptInv => BaselineCaptured
  BY DEF KeptInv
<1> QED BY <1>1, KeptInvariant, PTL

-----------------------------------------------------------------------------
(* The limits in force. *)

Writing(p) == job[p].pc \in {"up", "persist"}

\* A rule's limits are recorded, or the job that wrote them is about to say so.
Imposed ==
  writer = "rule" /\ ~torn =>
    marker # Nil \/ \E p \in Jobs : Writing(p) /\ job[p].target.id # "default"

\* A job on its way to record that the defaults are back has written them over
\* whatever rule there was.
Restored == \A p \in Jobs : Writing(p) /\ job[p].target.id = "default" => writer # "rule"

ImposedInv == Imposed /\ Restored

LEMMA OthersOutside ==
  ASSUME WriteInv, NEW p \in Jobs, lock \in {p, "free"}, NEW o \in Jobs, o # p
  PROVE  ~Writing(o)
<1>1. "free" \notin Jobs
  BY SchedulerAssumption DEF Jobs
<1> QED BY <1>1, HoldsLock DEF Writing, Critical

\* A job that holds the mutex, or finds it free, is the only one that is writing
\* after its step; the others were not and are where they were.
LEMMA ImposedAlone ==
  ASSUME WriteInv, NEW p \in Jobs, lock \in {p, "free"},
         \A o \in Jobs \ {p} : job'[o] = job[o],
         Writing(p)' /\ job'[p].target.id = "default" => writer' # "rule",
         writer' = "rule" /\ ~torn' =>
           marker' # Nil \/ (Writing(p)' /\ job'[p].target.id # "default")
  PROVE  ImposedInv'
<1>1. \A o \in Jobs \ {p} : ~Writing(o)'
  BY OthersOutside DEF Writing
<1> QED BY <1>1 DEF ImposedInv, Imposed, Restored

\* What the invariant says when only p can be writing.
LEMMA ImposedBefore ==
  ASSUME WriteInv, ImposedInv, NEW p \in Jobs, lock \in {p, "free"}
  PROVE  /\ Writing(p) /\ job[p].target.id = "default" => writer # "rule"
         /\ writer = "rule" /\ ~torn =>
              marker # Nil \/ (Writing(p) /\ job[p].target.id # "default")
  BY OthersOutside DEF ImposedInv, Imposed, Restored

\* A step that leaves the limits and those who write them alone.
LEMMA ImposedFrame ==
  ASSUME ImposedInv, UNCHANGED <<marker, writer, torn>>,
         \A p \in Jobs : /\ Writing(p)' <=> Writing(p)
                         /\ Writing(p) => job'[p].target = job[p].target
  PROVE  ImposedInv'
  BY DEF ImposedInv, Imposed, Restored

\* A job that was not writing goes on, or back, to a step that is not one.
LEMMA ImposedQuiet ==
  ASSUME WriteInv, ImposedInv, NEW p \in Jobs, lock \in {p, "free"},
         \A o \in Jobs \ {p} : job'[o] = job[o], ~Writing(p), ~Writing(p)',
         UNCHANGED <<marker, writer, torn>>
  PROVE  ImposedInv'
  BY ImposedBefore, ImposedAlone

LEMMA Moved ==
  ASSUME WriteInv, NEW p \in Jobs, NEW pc, Ends(p) \/ job' = [job EXCEPT ![p].pc = pc]
  PROVE  /\ \A o \in Jobs \ {p} : job'[o] = job[o]
         /\ Ends(p) => job'[p].pc = "idle" /\ ~Writing(p)'
         /\ ~Ends(p) => job'[p].pc = pc /\ job'[p].target = job[p].target
<1>1. CASE Ends(p)
  BY <1>1, JobUpdate DEF Ends, Idle, Writing
<1>2. CASE job' = [job EXCEPT ![p].pc = pc]
  <2>1. /\ DOMAIN job' = Jobs /\ \A o \in Jobs \ {p} : job'[o] = job[o]
        /\ job'[p] = JobOf(pc, job[p].target, job[p].live)
        /\ job'[p].pc = pc /\ job'[p].target = job[p].target /\ job'[p].live = job[p].live
    BY <1>2, JobGoes
  <2> QED BY <1>1, <2>1
<1> QED BY <1>1, <1>2

LEMMA ImposedSubmit ==
  ASSUME KeptInv, WriteInv, ImposedInv, NEW q \in Requests, Submit(q) PROVE ImposedInv'
<1>1. q \in Jobs /\ lock = "free" /\ job[q] = Idle /\ job \in [Jobs -> JobState]
  BY DEF Submit, Create, Update, Delete, Reorder, ApplyManual, Arrives, Jobs, KeptInv, TypeOK
<1>2. ~Writing(q)
  BY <1>1 DEF Writing, Idle
<1>3. CASE Create(q) \/ Update(q) \/ Delete(q) \/ Reorder(q)
  <2>1. PICK pc \in {"insert", "wait"} : job' = [job EXCEPT ![q].pc = pc]
    BY <1>3 DEF Create, Update, Delete, Reorder
  <2>2. (\A o \in Jobs \ {q} : job'[o] = job[o]) /\ job'[q].pc = pc
    BY <1>1, <2>1, JobGoes
  <2>3. ~Writing(q)'
    BY <2>2 DEF Writing
  <2>4. UNCHANGED <<marker, writer, torn>>
    BY <1>3 DEF Create, Update, Delete, Reorder
  <2> QED BY <1>1, <1>2, <2>2, <2>3, <2>4, ImposedQuiet
<1>4. CASE ApplyManual(q)
  <2>1. writer' = "user"
    BY <1>4 DEF ApplyManual
  <2>2. \A o \in Jobs \ {q} : job'[o] = job[o]
    BY <1>1, <1>4 DEF ApplyManual
  <2> QED BY <1>1, <2>1, <2>2, ImposedAlone
<1> QED BY <1>3, <1>4 DEF Submit

LEMMA ImposedHandle ==
  ASSUME KeptInv, WriteInv, ImposedInv, NEW q \in Requests, Handle(q) PROVE ImposedInv'
<1>1. q \in Jobs /\ job \in [Jobs -> JobState]
  BY DEF Jobs, KeptInv, TypeOK
<1>2. CASE Insert(q) \/ ManualUp(q) \/ ManualStore(q)
  <2>1. lock = q /\ ~Writing(q) /\ UNCHANGED <<marker, writer, torn>>
    BY <1>1, <1>2, HoldsLock DEF Insert, ManualUp, ManualStore, Critical, Writing
  <2>2. \E pc \in {"wait", "store"} : Ends(q) \/ job' = [job EXCEPT ![q].pc = pc]
    BY <1>2 DEF Insert, ManualUp, ManualStore, Goes
  <2>3. (\A o \in Jobs \ {q} : job'[o] = job[o]) /\ ~Writing(q)'
    BY <1>1, <2>2, Moved DEF Writing
  <2> QED BY <1>1, <2>1, <2>3, ImposedQuiet
<1>3. CASE Respond(q)
  <2>1. job[q] \in JobState /\ job' = [job EXCEPT ![q] = [job[q] EXCEPT !.live = FALSE]]
    BY <1>1, <1>3 DEF Respond
  <2>2. \A p \in Jobs : job'[p].pc = job[p].pc /\ job'[p].target = job[p].target
    BY <1>1, <2>1 DEF JobState
  <2>3. UNCHANGED <<marker, writer, torn>>
    BY <1>3 DEF Respond
  <2> QED BY <2>2, <2>3, ImposedFrame DEF Writing
<1> QED BY <1>2, <1>3 DEF Handle

LEMMA ImposedSetLimit ==
  ASSUME KeptInv, WriteInv, ImposedInv, NEW p \in Jobs, SetDown(p) \/ SetUp(p)
  PROVE  ImposedInv'
<1>1. /\ lock = p /\ job[p].pc \in {"down", "up"} /\ UNCHANGED marker
      /\ job[p].target.id = "default" => marker # Nil
  BY HoldsLock DEF SetDown, SetUp, SetLimit, Critical, WriteInv, DueAt
<1>2. /\ Writing(p) /\ job[p].target.id = "default" => writer # "rule"
      /\ writer = "rule" /\ ~torn =>
           marker # Nil \/ (Writing(p) /\ job[p].target.id # "default")
  BY <1>1, ImposedBefore
<1>3. CASE Ends(p)
  <2>1. (\A o \in Jobs \ {p} : job'[o] = job[o]) /\ ~Writing(p)'
    BY <1>3, Moved
  <2>2. writer' = "rule" /\ ~torn' => marker' # Nil
    <3>1. CASE job[p].target.id = "default"
      BY <1>1, <3>1
    <3>2. CASE job[p].target.id # "default"
      <4>4. \A pc : ~Goes(p, pc)
        BY <1>1, <1>3, SchedulerAssumption DEF Goes, Ends, Jobs
      <4>5. Author(p) = "rule"
        BY <3>2 DEF Author
      <4>1. job[p].pc = "up" => torn'
        BY <4>4, <4>5 DEF SetDown, SetUp, SetLimit
      <4>2. job[p].pc = "down" => torn' \/ (writer' = writer /\ ~torn)
        BY <4>4, <4>5 DEF SetDown, SetUp, SetLimit
      <4>3. job[p].pc = "down" => ~Writing(p)
        BY DEF Writing
      <4> QED BY <1>1, <1>2, <4>1, <4>2, <4>3
    <3> QED BY <3>1, <3>2
  <2> QED BY <1>1, <2>1, <2>2, ImposedAlone
<1>4. CASE ~Ends(p)
  <2>1. PICK pc \in {"up", "persist"} : job' = [job EXCEPT ![p].pc = pc]
    BY <1>4 DEF SetDown, SetUp, SetLimit, Goes
  <2>2. writer' = Author(p)
    BY <1>4 DEF SetDown, SetUp, SetLimit
  <2>3. /\ \A o \in Jobs \ {p} : job'[o] = job[o]
        /\ job'[p].pc = pc /\ job'[p].target = job[p].target
    BY <1>4, <2>1, Moved
  <2>4. Writing(p)'
    BY <2>3 DEF Writing
  <2>5. writer' = "rule" <=> job'[p].target.id # "default"
    BY <2>2, <2>3 DEF Author
  <2> QED BY <1>1, <2>3, <2>4, <2>5, ImposedAlone
<1> QED BY <1>3, <1>4

LEMMA ImposedReconcile ==
  ASSUME KeptInv, WriteInv, ImposedInv, NEW p \in Jobs, Reconcile(p) PROVE ImposedInv'
<1>1. job \in [Jobs -> JobState] /\ JobsTyped
  BY DEF KeptInv, TypeOK
<1>2. CASE Lock(p) \/ Preview(p) \/ Load(p)
  <2>1. lock \in {p, "free"} /\ ~Writing(p) /\ UNCHANGED <<marker, writer, torn>>
    BY <1>2, HoldsLock DEF Lock, Preview, Load, Critical, Writing
  <2>2. (\A o \in Jobs \ {p} : job'[o] = job[o]) /\ ~Writing(p)'
    <3>1. CASE Lock(p) \/ Load(p)
      <4>1. \E pc \in {"preview", "inspect", "down"} : Ends(p) \/ job' = [job EXCEPT ![p].pc = pc]
        BY <3>1 DEF Lock, Load, Goes
      <4> QED BY <4>1, Moved DEF Writing
    <3>2. CASE Preview(p) /\ ~Ends(p)
      <4>1. PICK pc \in {"load", "down"} :
              job' = [job EXCEPT ![p].pc = pc, ![p].target = Desired]
        BY <3>2 DEF Preview
      <4> DEFINE j == [[job[p] EXCEPT !.pc = pc] EXCEPT !.target = Desired]
      <4>2. job[p] \in JobState
        BY <1>1
      <4>3. j.pc = pc
        BY <4>2 DEF JobState
      <4>4. job' = [job EXCEPT ![p] = j]
        BY <1>1, <4>1
      <4> HIDE DEF j
      <4> QED BY <1>1, <4>3, <4>4 DEF Writing
    <3>3. CASE Ends(p)
      BY <3>3, Moved
    <3> QED BY <1>2, <3>1, <3>2, <3>3
  <2> QED BY <2>1, <2>2, ImposedQuiet
<1>3. CASE Inspect(p)
  <2>1. /\ lock = p /\ ~Writing(p) /\ UNCHANGED <<marker, writer, torn>>
        /\ job[p].target.id # "default"
    BY <1>3, HoldsLock DEF Inspect, Critical, Writing, WriteInv, DueAt
  <2>2. PICK pc \in {"persist", "down"} : Ends(p) \/ job' = [job EXCEPT ![p].pc = pc]
    BY <1>3 DEF Inspect, Goes
  <2>3. /\ \A o \in Jobs \ {p} : job'[o] = job[o]
        /\ Writing(p)' => job'[p].target = job[p].target
    BY <2>2, Moved
  <2>4. writer = "rule" /\ ~torn => marker # Nil
    BY <2>1, ImposedBefore
  <2> QED BY <2>1, <2>3, <2>4, ImposedAlone
<1>4. CASE SetDown(p) \/ SetUp(p)
  BY <1>4, ImposedSetLimit
<1>5. CASE Persist(p)
  <2>1. lock = p /\ Ends(p) /\ Writing(p) /\ writer' = writer
    BY <1>5, HoldsLock DEF Persist, Critical, Writing
  <2>2. (\A o \in Jobs \ {p} : job'[o] = job[o]) /\ ~Writing(p)'
    BY <2>1, Moved
  <2>3. writer' = "rule" /\ ~torn' => marker' # Nil
    <3>1. CASE job[p].target.id = "default"
      BY <2>1, <3>1, ImposedBefore
    <3>2. CASE job[p].target.id # "default"
      <4>1. job[p].target # Nil
        BY <1>5 DEF Persist, KeptInv, JobsTyped, Targeted
      <4>2. writer' = "rule" => torn' \/ marker' = job[p].target
        BY <1>5, <3>2, <2>1 DEF Persist, Remembered
      <4> QED BY <4>1, <4>2
    <3> QED BY <3>1, <3>2
  <2> QED BY <2>1, <2>2, <2>3, ImposedAlone
<1> QED BY <1>2, <1>3, <1>4, <1>5 DEF Reconcile

LEMMA ImposedStep == KeptInv /\ WriteInv /\ ImposedInv /\ [Next]_vars => ImposedInv'
<1> SUFFICES ASSUME KeptInv, WriteInv, ImposedInv, [Next]_vars PROVE ImposedInv'
  OBVIOUS
<1>1. CASE Tick
  <2> DEFINE t == "reconciler"
  <2>1. t \in Jobs /\ job' = [job EXCEPT ![t].pc = "wait"] /\ job[t].pc = "idle"
        /\ UNCHANGED <<marker, writer, torn>>
    BY <1>1 DEF Tick, Jobs
  <2> HIDE DEF t
  <2>2. (\A o \in Jobs \ {t} : job'[o] = job[o]) /\ job'[t].pc = "wait"
    BY <2>1, JobGoes
  <2>3. \A p \in Jobs : /\ Writing(p)' <=> Writing(p)
                        /\ Writing(p) => job'[p].target = job[p].target
    BY <2>1, <2>2 DEF Writing
  <2> QED BY <2>1, <2>3, ImposedFrame
<1>2. CASE Restart
  <2>1. \A p \in Jobs : ~Writing(p)'
    BY <1>2 DEF Restart, Writing, Idle
  <2>2. writer' = "rule" /\ ~torn' => writer = "rule" /\ ~torn /\ \A p \in Jobs : ~Writing(p)
    BY <1>2 DEF Restart, Writing
  <2>3. writer' = "rule" /\ ~torn' => marker' # Nil
    BY <1>2, <2>2 DEF Restart, ImposedInv, Imposed
  <2> QED BY <2>1, <2>3 DEF ImposedInv, Imposed, Restored
<1>3. CASE Meddle
  BY <1>3 DEF Meddle, ImposedInv, Imposed, Restored
<1>4. CASE Minute \/ UNCHANGED vars
  BY <1>4, ImposedFrame DEF Minute, vars, Writing
<1> QED BY <1>1, <1>2, <1>3, <1>4, ImposedSubmit, ImposedHandle, ImposedReconcile DEF Next

\* A rule's limits in force are on record, unless the record could not be
\* written: whatever fails, restarts or is changed in qBittorrent meanwhile.
THEOREM ImposedIsMarkedCorrect == Spec => []ImposedIsMarked
<1>1. Init => ImposedInv
  BY DEF Init, ImposedInv, Imposed, Restored
<1>2. RowsInv /\ WriteInv /\ KeptInv /\ ImposedInv /\ [Next]_vars
        => (RowsInv /\ WriteInv /\ KeptInv /\ ImposedInv)'
  BY RowsStep, WriteStep, KeptStep, ImposedStep
<1>3. ImposedInv => ImposedIsMarked
  BY DEF ImposedInv, Imposed, ImposedIsMarked, Writing
<1> QED BY <1>1, <1>2, <1>3, KeptInit, PTL DEF Spec
=============================================================================
