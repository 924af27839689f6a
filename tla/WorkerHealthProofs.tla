------------------------- MODULE WorkerHealthProofs -------------------------
(***************************************************************************)
(* Proofs about WorkerHealth: the type invariant, that the events follow   *)
(* the statuses, and that a confirmed outage is one of the seeded          *)
(* configuration, for any workers, requests, readers and bounds.           *)
(***************************************************************************)
EXTENDS WorkerHealth, FiniteSetTheorems, TLAPS

\* What record, Seed and notifyTransition compute for a cache entry.
LEMMA EntryTypes ==
  ASSUME NEW h \in Entry \cup {NoEntry}, NEW outcome \in Outcomes, NEW v \in Configs
  PROVE  /\ EntryOf(h) \in Entry
         /\ Recorded(EntryOf(h), outcome, v) \in Entry
         /\ Seeded(EntryOf(h), outcome, v) \in Entry
<1>1. EntryOf(h) \in Entry
  BY HealthAssumption DEF EntryOf, Entry, NoEntry, Statuses, Configs
<1>2. StatusOf(outcome) \in Statuses
  BY DEF StatusOf, Outcomes, Statuses
<1>3. \A n \in 0 .. FailThreshold : Bump(n) \in 0 .. FailThreshold
  BY HealthAssumption DEF Bump
<1>4. Recorded(EntryOf(h), outcome, v) \in Entry
  <2>1. PICK e \in Entry : e = EntryOf(h)
    BY <1>1
  <2>2. \A s \in Statuses, n \in 0 .. FailThreshold, d \in SUBSET Configs :
          [e EXCEPT !.status = s, !.fails = n, !.evidence = d] \in Entry
    BY DEF Entry
  <2>3. \A s \in Statuses, n \in 0 .. FailThreshold, d \in SUBSET Configs :
          [e EXCEPT !.fails = n, !.evidence = d, !.status = s] \in Entry
    BY DEF Entry
  <2>4. /\ e.status \in Statuses /\ "ERRORED" \in Statuses
        /\ e.fails \in 0 .. FailThreshold /\ 0 \in 0 .. FailThreshold
        /\ e.evidence \cup {v} \in SUBSET Configs /\ {} \in SUBSET Configs
    BY HealthAssumption DEF Entry, Statuses
  <2> QED BY <1>2, <1>3, <2>1, <2>2, <2>3, <2>4 DEF Recorded
<1>5. Seeded(EntryOf(h), outcome, v) \in Entry
  BY <1>2, HealthAssumption DEF Seeded, Entry
<1> QED BY <1>1, <1>4, <1>5

LEMMA TransitionType ==
  ASSUME NEW prev, NEW next PROVE Transition(prev, next) \in Events
BY DEF Transition, Events

LEMMA AnswersType ==
  ASSUME TypeOK, NEW w \in Workers, NEW v
  PROVE  Answers(w, v) \subseteq Outcomes
BY DEF Answers, TypeOK

\* The values without a goroutine, flight or request, and one-field updates.
LEMMA StateTypes ==
  /\ IdleCall \in CallState /\ NoFlight \in FlightState /\ IdleOp \in OpState
  /\ IdleOp.pc = "idle" /\ NoFlight.pc = "none"
  /\ \A s \in CallState : [s EXCEPT !.pc = "refresh"] \in CallState
  /\ \A s \in CallState : [s EXCEPT !.pc = "wait"] \in CallState
  /\ \A s \in FlightState, v \in Configs :
       [s EXCEPT !.pc = "probe", !.cfg = v] \in FlightState
  /\ \A s \in FlightState, e \in Events :
       [s EXCEPT !.pc = "notify", !.event = e] \in FlightState
  /\ \A s \in OpState, o \in Outcomes :
       [s EXCEPT !.pc = "seed", !.outcome = o] \in OpState
  /\ \A s \in OpState, e \in Events :
       [s EXCEPT !.pc = "notify", !.event = e] \in OpState
<1>1. IdleCall \in CallState /\ NoFlight \in FlightState /\ IdleOp \in OpState
  BY HealthAssumption
     DEF CallState, FlightState, OpState, IdleCall, NoFlight, IdleOp, OpAt, Configs, Events, Outcomes
<1>2. IdleOp.pc = "idle" /\ NoFlight.pc = "none"
  BY DEF IdleOp, OpAt, NoFlight
<1>3. /\ \A s \in CallState : [s EXCEPT !.pc = "refresh"] \in CallState
      /\ \A s \in CallState : [s EXCEPT !.pc = "wait"] \in CallState
  BY DEF CallState
<1>4. /\ \A s \in FlightState, v \in Configs :
           [s EXCEPT !.pc = "probe", !.cfg = v] \in FlightState
      /\ \A s \in FlightState, e \in Events :
           [s EXCEPT !.pc = "notify", !.event = e] \in FlightState
  BY DEF FlightState
<1>5. \A s \in OpState, o \in Outcomes :
        [s EXCEPT !.pc = "seed", !.outcome = o] \in OpState
  BY DEF OpState
<1>6. \A s \in OpState, e \in Events :
        [s EXCEPT !.pc = "notify", !.event = e] \in OpState
  BY DEF OpState
<1> QED BY <1>1, <1>2, <1>3, <1>4, <1>5, <1>6

-----------------------------------------------------------------------------
LEMMA InitTypeOK == Init => TypeOK
<1> SUFFICES ASSUME Init PROVE TypeOK
  OBVIOUS
<1>1. HealthType /\ cfg \in [Workers -> Configs] /\ flips \in 0 .. MaxFlips
                 /\ restarts \in 0 .. MaxRestarts
  BY HealthAssumption DEF Init, HealthType, Configs
<1>2. CallType /\ FlightType /\ OpType
  BY StateTypes DEF Init, CallType, FlightType, OpType
<1> QED BY <1>1, <1>2 DEF Init, TypeOK, Events

\* Landing a flight and forking goroutines keep call and flight typed.
LEMMA LandType ==
  ASSUME TypeOK, NEW w \in Workers, Land(w)
  PROVE  CallType' /\ FlightType'
BY StateTypes DEF TypeOK, CallType, FlightType, Land

LEMMA ForkType ==
  ASSUME TypeOK, NEW c \in Callers, NEW pc \in {"lookup", "refresh"}, Fork(c, pc)
  PROVE  CallType'
<1>1. \A w \in Workers : [pc |-> pc, cfg |-> cfg[w]] \in CallState
  BY DEF TypeOK, CallState
<1> QED BY <1>1, StateTypes DEF TypeOK, CallType, Fork

LEMMA BuildType ==
  ASSUME TypeOK, NEW w \in Workers, NEW event, Build(w, event)
  PROVE  crossed' \in [Workers -> BOOLEAN]
<1>1. Pending(w) \in BOOLEAN
  BY DEF Pending
<1>2. crossed' = crossed \/ crossed' = [crossed EXCEPT ![w] = Pending(w)]
  BY DEF Build
<1>3. crossed \in [Workers -> BOOLEAN]
  BY DEF TypeOK
<1> QED
  <2> HIDE DEF Pending
  <2> QED BY <1>1, <1>2, <1>3

LEMMA MonitorType ==
  ASSUME TypeOK, MonitorNext PROVE TypeOK'
<1> USE DEF HealthType, FlightType, OpType
<1>1. CASE Tick
  BY <1>1, ForkType DEF Tick, TypeOK, Callers
<1>2. ASSUME NEW r \in Readers, ReadRows(r) PROVE TypeOK'
  BY <1>2, ForkType DEF ReadRows, TypeOK, Callers
<1>3. ASSUME NEW r \in Readers, NEW w \in Workers, Lookup(r, w) PROVE TypeOK'
  <2>1. CallType'
    BY <1>3, StateTypes DEF Lookup, TypeOK, CallType, Callers
  <2> QED BY <1>3, <2>1 DEF Lookup, TypeOK
<1>4. ASSUME NEW c \in Callers, NEW w \in Workers, Refresh(c, w) PROVE TypeOK'
  <2>1. call[c][w] \in CallState /\ call[c][w].cfg \in Configs
    BY DEF TypeOK, CallType, CallState
  <2>2. CallType'
    <3>1. [call[c][w] EXCEPT !.pc = "wait"] \in CallState
      BY <2>1, StateTypes
    <3> QED BY <1>4, <3>1 DEF Refresh, TypeOK, CallType
  <2>3. FlightType'
    BY <1>4, <2>1, StateTypes DEF Refresh, TypeOK
  <2> QED BY <1>4, <2>2, <2>3 DEF Refresh, TypeOK
<1>5. ASSUME NEW w \in Workers, ProbeReturns(w) PROVE TypeOK'
  <2>1. PICK outcome \in Answers(w, flight[w].cfg) : ProbeReturns(w)!2!(outcome)
    BY <1>5 DEF ProbeReturns
  <2>2. outcome \in Outcomes /\ flight[w].cfg \in Configs
    BY <2>1, AnswersType DEF TypeOK, FlightState
  <2> DEFINE h     == EntryOf(health[w])
             next  == Recorded(h, outcome, flight[w].cfg)
             event == Transition(h.status, next.status)
  <2>3. next \in Entry /\ event \in Events
    BY <2>2, EntryTypes, TransitionType DEF TypeOK
  <2>4. HealthType'
    BY <2>1, <2>3 DEF TypeOK
  <2>5. CallType' /\ FlightType'
    <3>1. CASE event = "none"
      BY <3>1, <2>1, LandType
    <3>2. CASE event # "none"
      <4>1. [flight[w] EXCEPT !.pc = "notify", !.event = event] \in FlightState
        BY <2>3, StateTypes DEF TypeOK
      <4>2. flight' = [flight EXCEPT ![w] = [flight[w] EXCEPT !.pc = "notify", !.event = event]]
        BY <3>2, <2>1 DEF TypeOK, FlightState
      <4> QED BY <3>2, <4>1, <4>2, <2>1 DEF TypeOK, CallType
    <3> QED BY <3>1, <3>2
  <2>6. crossed' \in [Workers -> BOOLEAN]
    BY <2>1, BuildType
  <2> QED BY <1>5, <2>4, <2>5, <2>6 DEF ProbeReturns, TypeOK
<1>6. ASSUME NEW w \in Workers, NotifyFlight(w) PROVE TypeOK'
  <2>1. flight[w].event \in Events
    BY DEF TypeOK, FlightState
  <2> QED BY <1>6, <2>1, LandType DEF NotifyFlight, Announce, TypeOK
<1>7. ASSUME NEW w \in Workers, Flip(w) PROVE TypeOK'
  BY <1>7, HealthAssumption DEF Flip, TypeOK, CallType
<1>8. CASE Restart
  <2>1. CallType' /\ FlightType' /\ OpType'
    BY <1>8, StateTypes DEF Restart, CallType
  <2> QED BY <1>8, <2>1, HealthAssumption DEF Restart, TypeOK
<1> QED BY <1>1, <1>2, <1>3, <1>4, <1>5, <1>6, <1>7, <1>8 DEF MonitorNext

\* Every request step keeps the types.
LEMMA RequestType ==
  ASSUME TypeOK, NEW q \in Requests, NEW w \in Workers,
         CreateWorker(q, w) \/ UpdateWorker(q, w) \/ DeleteWorker(q, w) \/ RequestStep(q)
  PROVE  TypeOK'
<1> USE DEF HealthType, CallType, FlightType
<1>1. CASE CreateWorker(q, w)
  <2>1. 1 \in Configs
    BY HealthAssumption DEF Configs
  <2>2. OpType'
    BY <1>1, <2>1 DEF CreateWorker, TypeOK, OpType, OpAt, OpState, Outcomes, Events
  <2> QED BY <1>1, <2>1, <2>2 DEF CreateWorker, TypeOK
<1>2. CASE UpdateWorker(q, w)
  <2>1. cfg[w] + 1 \in Configs
    BY <1>2, HealthAssumption DEF UpdateWorker, TypeOK, Configs
  <2>2. OpType'
    BY <1>2, <2>1 DEF UpdateWorker, TypeOK, OpType, OpAt, OpState, Outcomes, Events
  <2> QED BY <1>2, <2>1, <2>2 DEF UpdateWorker, TypeOK
<1>3. CASE DeleteWorker(q, w)
  <2>1. 0 \in Configs
    BY HealthAssumption DEF Configs
  <2>2. OpType'
    BY <1>3, <2>1 DEF DeleteWorker, TypeOK, OpType, OpAt, OpState, Outcomes, Events
  <2> QED BY <1>3, <2>2 DEF DeleteWorker, TypeOK
<1>4. CASE UpdateCheck(q)
  <2>1. op[q] \in OpState /\ op[q].w \in Workers
    BY <1>4 DEF UpdateCheck, TypeOK, OpType
  <2>2. PICK outcome \in Answers(op[q].w, op[q].cfg) :
          op' = [op EXCEPT ![q].pc = "seed", ![q].outcome = outcome]
    BY <1>4 DEF UpdateCheck
  <2>3. outcome \in Outcomes
    BY <2>1, <2>2, AnswersType
  <2>4. op' = [op EXCEPT ![q] = [op[q] EXCEPT !.pc = "seed", !.outcome = outcome]]
    BY <2>2 DEF TypeOK, OpType
  <2>5. [op[q] EXCEPT !.pc = "seed", !.outcome = outcome] \in OpState
    BY <2>1, <2>3, StateTypes
  <2>6. [op[q] EXCEPT !.pc = "seed", !.outcome = outcome].w = op[q].w
    BY <2>1 DEF OpState
  <2>7. OpType'
    BY <2>1, <2>4, <2>5, <2>6 DEF TypeOK, OpType
  <2> QED BY <1>4, <2>7 DEF UpdateCheck, TypeOK
<1>5. CASE Seed(q)
  <2> DEFINE u     == op[q].w
             h     == EntryOf(health[u])
             next  == Seeded(h, op[q].outcome, op[q].cfg)
             event == Transition(h.status, next.status)
             done  == IF event = "none" THEN IdleOp
                      ELSE [op[q] EXCEPT !.pc = "notify", !.event = event]
  <2>1. u \in Workers /\ op[q] \in OpState /\ op[q].outcome \in Outcomes /\ op[q].cfg \in Configs
    BY <1>5 DEF Seed, TypeOK, OpType, OpState
  <2>2. next \in Entry /\ event \in Events
    BY <2>1, EntryTypes, TransitionType DEF TypeOK
  <2>3. health' = [health EXCEPT ![u] = next] /\ op' = [op EXCEPT ![q] = done]
    BY <1>5 DEF Seed
  <2>4. HealthType'
    BY <2>2, <2>3 DEF TypeOK
  <2>5. done \in OpState /\ (done.pc # "idle" => done.w \in Workers)
    <3>1. [op[q] EXCEPT !.pc = "notify", !.event = event].w = u
      BY <2>1 DEF OpState
    <3> QED BY <2>1, <2>2, <3>1, StateTypes
  <2>6. OpType'
    <3> HIDE DEF done
    <3> QED BY <2>3, <2>5 DEF TypeOK, OpType
  <2>7. crossed' \in [Workers -> BOOLEAN]
    BY <1>5, <2>1, BuildType DEF Seed
  <2> QED BY <1>5, <2>4, <2>6, <2>7 DEF Seed, TypeOK
<1>6. CASE NotifyRequest(q)
  <2>1. op[q].event \in Events
    BY DEF TypeOK, OpType, OpState
  <2>2. OpType'
    BY <1>6, StateTypes DEF NotifyRequest, TypeOK, OpType
  <2> QED BY <1>6, <2>1, <2>2 DEF NotifyRequest, Announce, TypeOK
<1>7. CASE EvictHealth(q)
  <2>1. OpType'
    BY <1>7, StateTypes DEF EvictHealth, TypeOK, OpType
  <2> QED BY <1>7, <2>1 DEF EvictHealth, TypeOK
<1> QED BY <1>1, <1>2, <1>3, <1>4, <1>5, <1>6, <1>7 DEF RequestStep

LEMMA TypeStep ==
  ASSUME TypeOK, [Next]_vars PROVE TypeOK'
<1>1. CASE UNCHANGED vars
  BY <1>1 DEF vars, TypeOK, HealthType, CallType, FlightType, OpType
<1>2. CASE MonitorNext
  BY <1>2, MonitorType
<1>3. CASE \E q \in Requests, w \in Workers :
             CreateWorker(q, w) \/ UpdateWorker(q, w) \/ DeleteWorker(q, w)
  BY <1>3, RequestType
<1>4. CASE \E q \in Requests : RequestStep(q)
  <2>1. PICK q \in Requests : RequestStep(q)
    BY <1>4
  <2>2. op[q].w \in Workers
    BY <2>1 DEF RequestStep, UpdateCheck, Seed, NotifyRequest, EvictHealth, TypeOK, OpType
  <2> QED BY <2>1, <2>2, RequestType
<1> QED BY <1>1, <1>2, <1>3, <1>4 DEF Next

\* Every variable keeps its type, with any number of workers and requests.
THEOREM TypeCorrect == Spec => []TypeOK
<1>1. TypeOK /\ [Next]_vars => TypeOK'
  BY TypeStep
<1> QED BY <1>1, InitTypeOK, PTL DEF Spec

-----------------------------------------------------------------------------
(***************************************************************************)
(* EventsFollowStatus is not inductive: while a notification of w is on    *)
(* its way it must be the only one, unless the worker is marked as         *)
(* crossed, and it must say offline if the worker is ERRORED.  A change of *)
(* status that builds no event cannot make a worker ERRORED, and one that  *)
(* builds an event marks the worker as crossed if another is pending.      *)
(***************************************************************************)
PendingOp(q, w) == op[q].w = w /\ op[q].pc = "notify"

Errored(w) == health[w].status = "ERRORED"

FlightAlone(w) ==
  flight[w].pc = "notify" =>
    /\ Errored(w) => flight[w].event = "offline"
    /\ \A q \in Requests : ~PendingOp(q, w)

RequestAlone(w) ==
  \A q \in Requests : PendingOp(q, w) =>
    /\ Errored(w) => op[q].event = "offline"
    /\ flight[w].pc # "notify"
    /\ \A p \in Requests : PendingOp(p, w) => p = q

StatusAnnounced(w) ==
  ~Pending(w) /\ ~missed[w] /\ Errored(w) => announced[w] = "offline"

Accounted(w) ==
  ~crossed[w] => FlightAlone(w) /\ RequestAlone(w) /\ StatusAnnounced(w)

EventInv == TypeOK /\ \A w \in Workers : Accounted(w)

LEMMA EventInvInit == Init => EventInv
<1> SUFFICES ASSUME Init, NEW w \in Workers PROVE Accounted(w)
  BY InitTypeOK DEF EventInv
<1>1. health[w].status = "none" /\ flight[w].pc = "none"
  BY DEF Init, NoEntry, NoFlight
<1>2. \A q \in Requests : op[q].pc = "idle"
  BY StateTypes DEF Init
<1> QED BY <1>1, <1>2 DEF Accounted, FlightAlone, RequestAlone, StatusAnnounced,
                          Errored, PendingOp

\* The invariant about w only looks at these values.
LEMMA AccountedFrame ==
  ASSUME NEW w \in Workers, Accounted(w), crossed'[w] = crossed[w],
         health'[w].status = "ERRORED" => health[w].status = "ERRORED",
         flight'[w].pc = "notify" <=> flight[w].pc = "notify",
         flight'[w].pc = "notify" => flight'[w].event = flight[w].event,
         announced'[w] = announced[w], missed'[w] = missed[w],
         \A q \in Requests : PendingOp(q, w)' <=> PendingOp(q, w),
         \A q \in Requests : PendingOp(q, w)' => op'[q].event = op[q].event
  PROVE  Accounted(w)'
BY DEF Accounted, FlightAlone, RequestAlone, StatusAnnounced, Errored, Pending, PendingOp

\* What the transition test guarantees.
LEMMA TransitionFacts ==
  ASSUME NEW prev, NEW next
  PROVE  /\ next = "ERRORED" /\ Transition(prev, next) # "none"
              => Transition(prev, next) = "offline"
         /\ next = "ERRORED" /\ Transition(prev, next) = "none" => prev = "ERRORED"
BY DEF Transition

LEMMA EntryOfStatus ==
  ASSUME NEW h
  PROVE  EntryOf(h).status = "ERRORED" => h.status = "ERRORED"
BY DEF EntryOf, NoEntry

LEMMA ProbeAccounted ==
  ASSUME EventInv, NEW w \in Workers, ProbeReturns(w), NEW u \in Workers
  PROVE  Accounted(u)'
<1> USE DEF EventInv, TypeOK, HealthType, FlightType, FlightState
<1>1. PICK outcome : ProbeReturns(w)!2!(outcome)
  BY DEF ProbeReturns
<1> DEFINE h     == EntryOf(health[w])
           next  == Recorded(h, outcome, flight[w].cfg)
           event == Transition(h.status, next.status)
<1>2. /\ health' = [health EXCEPT ![w] = next] /\ Build(w, event)
      /\ flight[w].pc = "probe" /\ UNCHANGED <<op, announced, missed>>
  BY <1>1 DEF ProbeReturns
<1>3. /\ next.status = "ERRORED" /\ event # "none" => event = "offline"
      /\ next.status = "ERRORED" /\ event = "none" => health[w].status = "ERRORED"
  BY TransitionFacts, EntryOfStatus
<1>4. flight' = [flight EXCEPT ![w] = NoFlight] \/
      flight' = [flight EXCEPT ![w].pc = "notify", ![w].event = event]
  BY <1>1 DEF Land
<1>5. CASE u # w
  <2>1. /\ health'[u] = health[u] /\ flight'[u] = flight[u]
        /\ crossed'[u] = crossed[u]
    <3> HIDE DEF next, event, h
    <3> QED BY <1>2, <1>4, <1>5 DEF Build
  <2> QED BY <1>2, <2>1, AccountedFrame DEF PendingOp
<1>6. CASE u = w /\ event = "none"
  <2>1. flight' = [flight EXCEPT ![w] = NoFlight]
    BY <1>1, <1>6 DEF Land
  <2>2. flight'[w].pc = "none" /\ health'[w] = next /\ crossed' = crossed
    <3> HIDE DEF next, event, h
    <3> QED BY <1>2, <1>6, <2>1 DEF Build, NoFlight
  <2>3. health'[w].status = "ERRORED" => health[w].status = "ERRORED"
    BY <1>3, <1>6, <2>2
  <2> HIDE DEF next, event, h
  <2> QED BY <1>2, <1>6, <2>2, <2>3, AccountedFrame DEF PendingOp
<1>7. CASE u = w /\ event # "none"
  <2>1. flight' = [flight EXCEPT ![w].pc = "notify", ![w].event = event]
    BY <1>1, <1>7
  <2> HIDE DEF next, event, h
  <2>2. /\ flight'[w].pc = "notify" /\ flight'[w].event = event
        /\ health'[w] = next /\ crossed'[w] = Pending(w)
    BY <1>2, <1>7, <2>1 DEF Build
  <2>3. SUFFICES ASSUME ~Pending(w) PROVE Accounted(w)'
    BY <1>7, <2>2 DEF Accounted
  <2>4. \A q \in Requests : ~PendingOp(q, w)'
    BY <1>2, <2>3 DEF Pending, PendingOp
  <2>5. FlightAlone(w)'
    BY <1>3, <1>7, <2>2, <2>4 DEF FlightAlone, Errored
  <2> QED BY <2>2, <2>4, <2>5 DEF Accounted, RequestAlone, StatusAnnounced, Pending
<1> QED BY <1>5, <1>6, <1>7

LEMMA SeedAccounted ==
  ASSUME EventInv, NEW q \in Requests, Seed(q), NEW u \in Workers
  PROVE  Accounted(u)'
<1> USE DEF EventInv, TypeOK, HealthType, OpType, OpState
<1>0. PICK w \in Workers : w = op[q].w
  BY DEF Seed
<1> DEFINE h     == EntryOf(health[w])
           next  == Seeded(h, op[q].outcome, op[q].cfg)
           event == Transition(h.status, next.status)
           done  == IF event = "none" THEN IdleOp
                    ELSE [op[q] EXCEPT !.pc = "notify", !.event = event]
<1>1. w \in Workers /\ op[q].w = w /\ op[q].pc = "seed"
  BY <1>0 DEF Seed
<1>2. /\ health' = [health EXCEPT ![w] = next] /\ Build(w, event)
      /\ op' = [op EXCEPT ![q] = done] /\ UNCHANGED <<flight, announced, missed>>
  BY <1>0 DEF Seed
<1>3. /\ next.status = "ERRORED" /\ event # "none" => event = "offline"
      /\ next.status = "ERRORED" /\ event = "none" => health[w].status = "ERRORED"
  BY TransitionFacts, EntryOfStatus
<1>4. /\ event = "none" => done.pc = "idle"
      /\ event # "none" => done.pc = "notify" /\ done.w = w /\ done.event = event
  BY <1>1, StateTypes
<1>5. \A p \in Requests \ {q} : op'[p] = op[p]
  <2> HIDE DEF done
  <2> QED BY <1>2
<1>6. op'[q] = done
  <2> HIDE DEF done
  <2> QED BY <1>2
<1> HIDE DEF done, event, next, h
<1>7. CASE u # w
  <2>1. health'[u] = health[u] /\ crossed'[u] = crossed[u]
    BY <1>1, <1>2, <1>7 DEF Build
  <2>2. \A p \in Requests : (PendingOp(p, u)' <=> PendingOp(p, u))
                            /\ (PendingOp(p, u)' => op'[p].event = op[p].event)
    BY <1>1, <1>4, <1>5, <1>6, <1>7 DEF PendingOp
  <2> QED BY <1>2, <2>1, <2>2, AccountedFrame
<1>8. CASE u = w /\ event = "none"
  <2>1. health'[w] = next /\ crossed' = crossed
    BY <1>1, <1>2, <1>8 DEF Build
  <2>2. \A p \in Requests : (PendingOp(p, w)' <=> PendingOp(p, w))
                            /\ (PendingOp(p, w)' => op'[p].event = op[p].event)
    BY <1>1, <1>4, <1>5, <1>6, <1>8 DEF PendingOp
  <2>3. health'[w].status = "ERRORED" => health[w].status = "ERRORED"
    BY <1>3, <1>8, <2>1
  <2> QED BY <1>1, <1>2, <1>8, <2>1, <2>2, <2>3, AccountedFrame
<1>9. CASE u = w /\ event # "none"
  <2>1. health'[w] = next /\ crossed'[w] = Pending(w)
    BY <1>1, <1>2, <1>9 DEF Build
  <2>2. SUFFICES ASSUME ~Pending(w) PROVE Accounted(u)'
    BY <1>9, <2>1 DEF Accounted
  <2>3. flight'[w].pc # "notify" /\ \A p \in Requests \ {q} : ~PendingOp(p, u)'
    BY <1>2, <1>5, <1>9, <2>2 DEF Pending, PendingOp
  <2>4. PendingOp(q, u)' /\ op'[q].event = event
    BY <1>4, <1>6, <1>9 DEF PendingOp
  <2>5. RequestAlone(u)'
    BY <1>3, <1>9, <2>1, <2>3, <2>4 DEF RequestAlone, Errored
  <2> QED BY <1>9, <2>3, <2>4, <2>5
          DEF Accounted, FlightAlone, StatusAnnounced, Pending, PendingOp
<1> QED BY <1>7, <1>8, <1>9

LEMMA NotifyFlightAccounted ==
  ASSUME EventInv, NEW w \in Workers, NotifyFlight(w), NEW u \in Workers
  PROVE  Accounted(u)'
<1> USE DEF EventInv, TypeOK, FlightType
<1>1. /\ flight' = [flight EXCEPT ![w] = NoFlight] /\ flight[w].pc = "notify"
      /\ UNCHANGED <<health, op, crossed>> /\ Announce(w, flight[w].event)
  BY DEF NotifyFlight, Land
<1>2. flight'[w].pc = "none"
  BY <1>1, StateTypes DEF NoFlight
<1>3. CASE u # w
  <2>1. flight'[u] = flight[u] /\ announced'[u] = announced[u] /\ missed'[u] = missed[u]
    BY <1>1, <1>3 DEF Announce
  <2> QED BY <1>1, <2>1, AccountedFrame DEF PendingOp
<1>4. CASE u = w
  <2>1. announced'[w] = flight[w].event \/ missed'[w]
    BY <1>1 DEF Announce
  <2>2. SUFFICES ASSUME ~crossed[w] PROVE Accounted(w)'
    BY <1>1, <1>4 DEF Accounted
  <2>3. FlightAlone(w)
    BY <2>2 DEF Accounted
  <2> QED BY <1>1, <1>2, <2>1, <2>3
          DEF Accounted, FlightAlone, RequestAlone, StatusAnnounced, Errored, Pending, PendingOp
<1> QED BY <1>3, <1>4

LEMMA NotifyRequestAccounted ==
  ASSUME EventInv, NEW q \in Requests, NotifyRequest(q), NEW u \in Workers
  PROVE  Accounted(u)'
<1> USE DEF EventInv, TypeOK, OpType
<1>0. PICK w \in Workers : w = op[q].w
  BY DEF NotifyRequest
<1>1. /\ op' = [op EXCEPT ![q] = IdleOp] /\ PendingOp(q, w) /\ w \in Workers
      /\ UNCHANGED <<health, flight, crossed>> /\ Announce(w, op[q].event)
  BY <1>0 DEF NotifyRequest, PendingOp
<1>2. op'[q].pc = "idle" /\ \A p \in Requests \ {q} : op'[p] = op[p]
  BY <1>1, StateTypes
<1>3. CASE u # w
  <2>1. announced'[u] = announced[u] /\ missed'[u] = missed[u]
    BY <1>1, <1>3 DEF Announce
  <2>2. \A p \in Requests : (PendingOp(p, u)' <=> PendingOp(p, u))
                            /\ (PendingOp(p, u)' => op'[p].event = op[p].event)
    BY <1>1, <1>2, <1>3 DEF PendingOp
  <2> QED BY <1>1, <2>1, <2>2, AccountedFrame
<1>4. CASE u = w
  <2>1. announced'[w] = op[q].event \/ missed'[w]
    BY <1>1 DEF Announce
  <2>2. SUFFICES ASSUME ~crossed[w] PROVE Accounted(w)'
    BY <1>1, <1>4 DEF Accounted
  <2>3. RequestAlone(w)
    BY <1>1, <2>2 DEF Accounted
  <2>4. \A p \in Requests : ~PendingOp(p, w)'
    BY <1>1, <1>2, <2>3 DEF RequestAlone, PendingOp
  <2>5. Errored(w)' => op[q].event = "offline"
    BY <1>1, <2>3 DEF RequestAlone, Errored
  <2>6. flight'[w].pc # "notify"
    BY <1>1, <2>3 DEF RequestAlone
  <2> QED BY <2>1, <2>4, <2>5, <2>6 DEF Accounted, FlightAlone, RequestAlone, StatusAnnounced
<1> QED BY <1>3, <1>4

\* A step that neither changes a status nor builds or stores an event.
LEMMA OtherAccounted ==
  ASSUME EventInv, UNCHANGED <<health, announced, missed, crossed>>, NEW u \in Workers,
         \A w \in Workers : flight'[w] = flight[w]
                            \/ (flight[w].pc # "notify" /\ flight'[w].pc # "notify"),
         \A q \in Requests : op'[q] = op[q] \/ (op[q].pc # "notify" /\ op'[q].pc # "notify")
  PROVE  Accounted(u)'
<1>1. \A q \in Requests : (PendingOp(q, u)' <=> PendingOp(q, u))
                          /\ (PendingOp(q, u)' => op'[q].event = op[q].event)
  BY DEF PendingOp
<1>2. (flight'[u].pc = "notify" <=> flight[u].pc = "notify")
      /\ (flight'[u].pc = "notify" => flight'[u].event = flight[u].event)
  OBVIOUS
<1> QED BY <1>1, <1>2, AccountedFrame DEF EventInv

LEMMA EventInvStep ==
  ASSUME EventInv, [Next]_vars PROVE EventInv'
<1>1. TypeOK'
  BY TypeStep DEF EventInv
<1> SUFFICES ASSUME NEW u \in Workers PROVE Accounted(u)'
  BY <1>1 DEF EventInv
<1>2. CASE UNCHANGED <<health, flight, op, announced, missed, crossed>>
  BY <1>2, OtherAccounted
<1>3. ASSUME NEW c \in Callers, NEW w \in Workers, Refresh(c, w) PROVE Accounted(u)'
  <2>1. \A v \in Workers : flight'[v] = flight[v]
                           \/ (flight[v].pc # "notify" /\ flight'[v].pc # "notify")
    BY <1>3, StateTypes DEF Refresh, EventInv, TypeOK, FlightType, FlightState, NoFlight
  <2> QED BY <1>3, <2>1, OtherAccounted DEF Refresh
<1>4. ASSUME NEW w \in Workers, ProbeReturns(w) PROVE Accounted(u)'
  BY <1>4, ProbeAccounted
<1>5. ASSUME NEW w \in Workers, NotifyFlight(w) PROVE Accounted(u)'
  BY <1>5, NotifyFlightAccounted
<1>6. CASE Restart
  <2>1. health'[u].status = "none" /\ flight'[u].pc = "none"
    BY <1>6 DEF Restart, NoEntry, NoFlight
  <2>2. \A q \in Requests : op'[q].pc = "idle"
    BY <1>6, StateTypes DEF Restart
  <2> QED BY <2>1, <2>2 DEF Accounted, FlightAlone, RequestAlone, StatusAnnounced,
                            Errored, PendingOp
<1>7. ASSUME NEW q \in Requests, NEW w \in Workers,
             CreateWorker(q, w) \/ UpdateWorker(q, w) \/ DeleteWorker(q, w)
      PROVE  Accounted(u)'
  <2>1. \A p \in Requests : op'[p] = op[p] \/ (op[p].pc # "notify" /\ op'[p].pc # "notify")
    BY <1>7 DEF CreateWorker, UpdateWorker, DeleteWorker, OpAt, EventInv, TypeOK, OpType
  <2> QED BY <1>7, <2>1, OtherAccounted DEF CreateWorker, UpdateWorker, DeleteWorker
<1>8. ASSUME NEW q \in Requests, UpdateCheck(q) PROVE Accounted(u)'
  <2>1. \A p \in Requests : op'[p] = op[p] \/ (op[p].pc # "notify" /\ op'[p].pc # "notify")
    BY <1>8 DEF UpdateCheck, EventInv, TypeOK, OpType, OpState
  <2> QED BY <1>8, <2>1, OtherAccounted DEF UpdateCheck
<1>9. ASSUME NEW q \in Requests, Seed(q) PROVE Accounted(u)'
  BY <1>9, SeedAccounted
<1>10. ASSUME NEW q \in Requests, NotifyRequest(q) PROVE Accounted(u)'
  BY <1>10, NotifyRequestAccounted
<1>11. ASSUME NEW q \in Requests, EvictHealth(q) PROVE Accounted(u)'
  <2>1. /\ health'[u].status = "ERRORED" => health[u].status = "ERRORED"
        /\ UNCHANGED <<flight, announced, missed, crossed>>
    BY <1>11 DEF EvictHealth, EventInv, TypeOK, HealthType, NoEntry
  <2>2. \A p \in Requests : op'[p] = op[p] \/ (op[p].pc # "notify" /\ op'[p].pc # "notify")
    BY <1>11, StateTypes DEF EvictHealth, EventInv, TypeOK, OpType
  <2>3. \A p \in Requests : (PendingOp(p, u)' <=> PendingOp(p, u))
                            /\ (PendingOp(p, u)' => op'[p].event = op[p].event)
    BY <2>2 DEF PendingOp
  <2> QED BY <2>1, <2>3, AccountedFrame DEF EventInv
<1> QED
  BY <1>2, <1>3, <1>4, <1>5, <1>6, <1>7, <1>8, <1>9, <1>10, <1>11
     DEF Next, MonitorNext, RequestStep, Tick, ReadRows, Lookup, Flip, vars

\* A worker shown as ERRORED was reported offline, whatever probes, requests
\* and restarts do, unless the event was lost or crossed another one.
THEOREM EventsFollowStatusCorrect == Spec => []EventsFollowStatus
<1>1. EventInv /\ [Next]_vars => EventInv'
  BY EventInvStep
<1>2. EventInv => EventsFollowStatus
  BY DEF EventInv, Accounted, StatusAnnounced, Errored, EventsFollowStatus
<1> QED BY <1>1, <1>2, EventInvInit, PTL DEF Spec

-----------------------------------------------------------------------------
(***************************************************************************)
(* ConfirmedOutageIsCurrent counts: a goroutine whose snapshot is older    *)
(* than the latest Seed starts at most one probe, so as long as no probe   *)
(* of a current configuration failed, the failures so far and the          *)
(* goroutines that may still add one are not more than there are callers.  *)
(***************************************************************************)
Stale(w) == {c \in Callers : call[c][w].pc # "idle" /\ call[c][w].cfg < health[w].base}

\* A failed probe of the seeded configuration or a newer one is on record.
CurrentEvidence(w) == \E v \in health[w].evidence : v >= health[w].base

\* A flight in progress was started by a goroutine that still waits for it.
Started(w) ==
  flight[w].pc = "probe" =>
    \E c \in Callers : call[c][w].pc = "wait" /\ call[c][w].cfg = flight[w].cfg

Few == Cardinality(Callers) < FailThreshold

Counted(w) ==
  Few => CurrentEvidence(w) \/ health[w].fails + Cardinality(Stale(w)) <= Cardinality(Callers)

\* Snapshots and seeds are of configurations the row has had.
NotAhead(w) ==
  /\ health[w].base <= cfg[w]
  /\ \A q \in Requests : op[q].w = w => op[q].cfg <= cfg[w]

OutageInv == \A w \in Workers : NotAhead(w) /\ Started(w) /\ Counted(w)

\* Callers are few enough to be counted.
LEMMA CallerCounts ==
  ASSUME NEW S \in SUBSET Callers, NEW T \in SUBSET S
  PROVE  /\ Cardinality(Callers) \in Nat /\ Cardinality(S) \in Nat /\ Cardinality(T) \in Nat
         /\ Cardinality(T) <= Cardinality(S) /\ Cardinality(S) <= Cardinality(Callers)
         /\ \A c \in S \ T : Cardinality(T) + 1 <= Cardinality(S)
<1>1. IsFiniteSet(Callers)
  BY HealthAssumption, FS_AddElement DEF Callers
<1>2. IsFiniteSet(S) /\ Cardinality(S) <= Cardinality(Callers)
  BY <1>1, FS_Subset
<1>3. IsFiniteSet(T) /\ Cardinality(T) <= Cardinality(S)
  BY <1>2, FS_Subset
<1>4. Cardinality(Callers) \in Nat /\ Cardinality(S) \in Nat /\ Cardinality(T) \in Nat
  BY <1>1, <1>2, <1>3, FS_CardinalityType
<1>5. ASSUME NEW c \in S \ T PROVE Cardinality(T) + 1 <= Cardinality(S)
  <2>1. IsFiniteSet(S \ {c}) /\ Cardinality(S \ {c}) = Cardinality(S) - 1
    BY <1>2, FS_RemoveElement
  <2>2. T \in SUBSET (S \ {c})
    OBVIOUS
  <2>3. Cardinality(T) <= Cardinality(S \ {c})
    BY <2>1, <2>2, FS_Subset
  <2> QED BY <1>4, <2>1, <2>3
<1> QED BY <1>2, <1>3, <1>4, <1>5

\* A cache entry, absent ones included, has a count and a configuration.
LEMMA EntryFacts ==
  ASSUME NEW h \in Entry \cup {NoEntry}
  PROVE  /\ h.fails \in Nat /\ h.base \in Nat
         /\ EntryOf(h).fails = h.fails /\ EntryOf(h).base = h.base
         /\ EntryOf(h).evidence = h.evidence
  BY HealthAssumption DEF Entry, NoEntry, EntryOf, Configs

\* A step that leaves the entry alone and makes no goroutine stale.
LEMMA CountedFrame ==
  ASSUME TypeOK, NEW u \in Workers, Counted(u), health'[u] = health[u],
         Stale(u)' \subseteq Stale(u)
  PROVE  Counted(u)'
<1>1. /\ Stale(u) \in SUBSET Callers /\ Stale(u)' \in SUBSET Stale(u)
      /\ health[u].fails \in Nat
  BY EntryFacts DEF Stale, TypeOK, HealthType
<1>2. /\ Cardinality(Stale(u)') \in Nat /\ Cardinality(Stale(u)) \in Nat
      /\ Cardinality(Stale(u)') <= Cardinality(Stale(u)) /\ Cardinality(Callers) \in Nat
  BY <1>1, CallerCounts
<1>3. CurrentEvidence(u)' <=> CurrentEvidence(u)
  BY DEF CurrentEvidence
<1>4. Counted(u)' <=> (Few => CurrentEvidence(u)' \/ health'[u].fails + Cardinality(Stale(u)') <= Cardinality(Callers))
  BY DEF Counted, Few
<1> HIDE DEF Stale, CurrentEvidence
<1> QED BY <1>1, <1>2, <1>3, <1>4 DEF Counted

\* A run of failures that begins anew is within the count.
LEMMA CountedAnew ==
  ASSUME NEW u \in Workers, health'[u].fails = 0
  PROVE  Counted(u)'
<1>1. Stale(u)' \in SUBSET Callers
  BY DEF Stale
<1>2. /\ Cardinality(Stale(u)') \in Nat /\ Cardinality(Callers) \in Nat
      /\ Cardinality(Stale(u)') <= Cardinality(Callers)
  BY <1>1, CallerCounts
<1>3. Counted(u)' <=> (Few => CurrentEvidence(u)' \/ health'[u].fails + Cardinality(Stale(u)') <= Cardinality(Callers))
  BY DEF Counted, Few
<1> HIDE DEF Stale, CurrentEvidence
<1> QED BY <1>2, <1>3

\* Landing makes the goroutines that waited idle and leaves the others alone.
LEMMA LandStale ==
  ASSUME TypeOK, NEW w \in Workers, Land(w), NEW u \in Workers
  PROVE  /\ flight'[w] = NoFlight /\ (u # w => flight'[u] = flight[u])
         /\ \A c \in Callers :
              call'[c][u] = IF u = w /\ call[c][u].pc = "wait" THEN IdleCall ELSE call[c][u]
<1>1. flight'[w] = NoFlight /\ (u # w => flight'[u] = flight[u])
  BY DEF Land, TypeOK, FlightType
<1>2. \A c \in Callers : call[c] \in [Workers -> CallState]
  BY DEF TypeOK, CallType
<1> QED BY <1>1, <1>2 DEF Land

\* A failed probe of an old configuration uses up the goroutine that started
\* it, and cannot reach the threshold; one of a current configuration is
\* evidence; any other answer begins a new run.
LEMMA ProbeCounted ==
  ASSUME TypeOK, OutageInv, NEW w \in Workers, ProbeReturns(w)
  PROVE  health'[w].base = health[w].base /\ Counted(w)'
<1>1. PICK outcome \in Answers(w, flight[w].cfg) : ProbeReturns(w)!2!(outcome)
  BY DEF ProbeReturns
<1> PICK h \in Entry : h = EntryOf(health[w])
  BY HealthAssumption, EntryTypes DEF TypeOK, HealthType, Outcomes, Configs
<1> PICK v \in Configs : v = flight[w].cfg
  BY DEF TypeOK, FlightType, FlightState
<1> DEFINE next  == Recorded(h, outcome, v)
           event == Transition(h.status, next.status)
<1>2. /\ flight[w].pc = "probe" /\ health' = [health EXCEPT ![w] = next]
      /\ event = "none" => Land(w)
      /\ event # "none" => UNCHANGED call
  BY <1>1 DEF ProbeReturns
<1>3. /\ h.fails = health[w].fails /\ h.base = health[w].base /\ h.evidence = health[w].evidence
      /\ h.fails \in 0 .. FailThreshold /\ h.base \in Nat /\ v \in Nat /\ FailThreshold \in Nat
  BY EntryFacts, HealthAssumption DEF TypeOK, HealthType, Entry, Configs
<1>4. health'[w] = next
  <2> HIDE DEF next
  <2> QED BY <1>2 DEF TypeOK, HealthType
<1>5. next.base = h.base
  BY DEF Recorded, Entry
<1>6. CASE outcome # "down"
  <2>1. next.fails = 0
    BY <1>6 DEF Recorded, Entry
  <2> QED BY <1>3, <1>4, <1>5, <2>1, CountedAnew
<1>7. CASE outcome = "down"
  <2>1. /\ next.fails = Bump(h.fails) /\ next.evidence = h.evidence \cup {v}
        /\ next.status = IF Bump(h.fails) < FailThreshold THEN h.status ELSE "ERRORED"
    BY <1>7 DEF Recorded, Entry
  <2>2. CASE v >= h.base \/ CurrentEvidence(w)
    <3>1. \E d \in next.evidence : d >= next.base
      BY <1>3, <1>5, <2>1, <2>2 DEF CurrentEvidence
    <3>2. CurrentEvidence(w)'
      BY <1>4, <3>1 DEF CurrentEvidence
    <3> QED BY <1>3, <1>4, <1>5, <3>2 DEF Counted
  <2>3. CASE ~(v >= h.base) /\ ~CurrentEvidence(w) /\ Few
    <3>1. h.fails + Cardinality(Stale(w)) <= Cardinality(Callers)
      BY <1>3, <2>3 DEF OutageInv, Counted
    <3>2. PICK c \in Callers : call[c][w].pc = "wait" /\ call[c][w].cfg = v
      BY <1>2 DEF OutageInv, Started
    <3>3. c \in Stale(w) /\ Stale(w) \in SUBSET Callers
      BY <1>3, <2>3, <3>2 DEF Stale
    <3>4. /\ Cardinality({}) = 0 /\ Cardinality(Callers) \in Nat
          /\ Cardinality(Stale(w)) \in Nat /\ 1 <= Cardinality(Stale(w))
      <4>1. c \in Stale(w) \ {} /\ {} \in SUBSET Stale(w)
        BY <3>3
      <4> HIDE DEF Stale
      <4> QED BY <3>3, <4>1, FS_EmptySet, CallerCounts
    <3>5. h.fails + 1 < FailThreshold /\ Bump(h.fails) = h.fails + 1
      BY <1>3, <2>3, <3>1, <3>4 DEF Few, Bump
    <3>6. event = "none"
      BY <2>1, <3>5 DEF Transition
    <3>7. Land(w)
      BY <1>2, <3>6
    <3>8. \A b \in Callers : call'[b][w] = IF call[b][w].pc = "wait" THEN IdleCall ELSE call[b][w]
      BY <3>7, LandStale
    <3>9. Stale(w)' \in SUBSET Stale(w) /\ c \notin Stale(w)'
      BY <1>3, <1>4, <1>5, <3>2, <3>8 DEF Stale, IdleCall
    <3>10. Cardinality(Stale(w)') \in Nat /\ Cardinality(Stale(w)') + 1 <= Cardinality(Stale(w))
      <4> HIDE DEF Stale
      <4> QED BY <3>3, <3>9, CallerCounts
    <3>11. health'[w].fails = h.fails + 1
      BY <1>4, <2>1, <3>5
    <3>12. health'[w].fails + Cardinality(Stale(w)') <= Cardinality(Callers)
      BY <1>3, <3>1, <3>4, <3>10, <3>11
    <3>13. Counted(w)'
      BY <3>12 DEF Counted
    <3> QED BY <1>3, <1>4, <1>5, <3>13
  <2>4. CASE ~Few
    BY <1>3, <1>4, <1>5, <2>4 DEF Counted, Few
  <2> QED BY <2>2, <2>3, <2>4
<1> QED BY <1>6, <1>7

\* Stale goroutines when a step leaves the entry of u alone.
LEMMA StaleFrame ==
  ASSUME NEW u \in Workers, health'[u] = health[u],
         \A c \in Callers : call'[c][u].pc # "idle" /\ call'[c][u].cfg < health[u].base
                              => call[c][u].pc # "idle" /\ call[c][u].cfg < health[u].base
  PROVE  Stale(u)' \subseteq Stale(u)
  BY DEF Stale

\* A step of goroutines without a cache entry, a configuration or a flight.
LEMMA ForkCounted ==
  ASSUME TypeOK, OutageInv, NEW c \in Callers, NEW pc \in {"lookup", "refresh"},
         AllIdle(c), Fork(c, pc), UNCHANGED <<cfg, health, flight, op>>
  PROVE  OutageInv'
<1> SUFFICES ASSUME NEW u \in Workers PROVE (NotAhead(u) /\ Started(u) /\ Counted(u))'
  BY DEF OutageInv
<1>1. NotAhead(u) /\ Started(u) /\ Counted(u)
  BY DEF OutageInv
<1>2. /\ call'[c][u] = IF u \in rows THEN [pc |-> pc, cfg |-> cfg[u]] ELSE IdleCall
      /\ \A b \in Callers : b # c => call'[b][u] = call[b][u]
      /\ call[c][u].pc = "idle"
  BY DEF Fork, AllIdle, TypeOK, CallType, IdleCall
<1>3. health[u].base \in Nat /\ cfg[u] \in Nat /\ health[u].base <= cfg[u]
  BY <1>1, EntryFacts DEF NotAhead, TypeOK, HealthType, Configs
<1>4. ~(call'[c][u].pc # "idle" /\ call'[c][u].cfg < health[u].base)
  BY <1>2, <1>3 DEF IdleCall
<1>5. Stale(u)' \subseteq Stale(u)
  BY <1>2, <1>4, StaleFrame
<1>6. Started(u)'
  BY <1>1, <1>2 DEF Started
<1>7. NotAhead(u)'
  BY <1>1 DEF NotAhead
<1> QED BY <1>1, <1>5, <1>6, <1>7, CountedFrame

\* A goroutine of a request changes nothing that is counted.
LEMMA RequestFrame ==
  ASSUME TypeOK, OutageInv, UNCHANGED <<health, call, flight>>,
         \A u \in Workers : NotAhead(u)'
  PROVE  OutageInv'
<1> SUFFICES ASSUME NEW u \in Workers PROVE Started(u)' /\ Counted(u)'
  BY DEF OutageInv
<1>1. Started(u) /\ Counted(u)
  BY DEF OutageInv
<1>2. Stale(u)' \subseteq Stale(u)
  BY StaleFrame
<1> QED BY <1>1, <1>2, CountedFrame DEF Started

\* The steps of the probing goroutines and of the environment keep the count.
LEMMA MonitorCounted == ASSUME TypeOK, OutageInv, MonitorNext PROVE OutageInv'
<1>0. \A u \in Workers : NotAhead(u) /\ Started(u) /\ Counted(u)
  BY DEF OutageInv
<1>1. CASE Tick
  BY <1>1, ForkCounted DEF Tick, Callers
<1>2. ASSUME NEW r \in Readers, ReadRows(r) PROVE OutageInv'
  BY <1>2, ForkCounted DEF ReadRows, Callers
<1>3. ASSUME NEW r \in Readers, NEW w \in Workers, Lookup(r, w) PROVE OutageInv'
  <2> SUFFICES ASSUME NEW u \in Workers PROVE (NotAhead(u) /\ Started(u) /\ Counted(u))'
    BY DEF OutageInv
  <2>1. r \in Callers /\ call[r][w] \in CallState /\ call[r][w].pc = "lookup"
    BY <1>3 DEF Lookup, Callers, TypeOK, CallType
  <2>2. PICK t : /\ call' = [call EXCEPT ![r][w] = t]
                 /\ t = IdleCall \/ (t.pc = "refresh" /\ t.cfg = call[r][w].cfg)
    <3> DEFINE next == [call[r][w] EXCEPT !.pc = "refresh"]
    <3>1. next.pc = "refresh" /\ next.cfg = call[r][w].cfg
      BY <2>1 DEF CallState
    <3>2. CASE health[w] = NoEntry
      <4>1. call' = [call EXCEPT ![r][w] = next]
        BY <1>3, <3>2 DEF Lookup
      <4> HIDE DEF next
      <4> QED BY <3>1, <4>1
    <3>3. CASE health[w] # NoEntry
      <4>1. call' = [call EXCEPT ![r][w] = IdleCall]
        BY <1>3, <3>3 DEF Lookup
      <4> QED BY <4>1
    <3> QED BY <3>2, <3>3
  <2>3. /\ call'[r][w] = t
        /\ \A c \in Callers : c # r \/ u # w => call'[c][u] = call[c][u]
    BY <2>1, <2>2 DEF TypeOK, CallType
  <2>4. UNCHANGED <<cfg, health, flight, op>>
    BY <1>3 DEF Lookup
  <2>5. \A c \in Callers : \/ call'[c][u] = call[c][u]
                           \/ /\ call[c][u].pc = "lookup"
                              /\ \/ call'[c][u].pc = "idle"
                                 \/ call'[c][u].pc = "refresh" /\ call'[c][u].cfg = call[c][u].cfg
    BY <2>1, <2>2, <2>3 DEF IdleCall
  <2>6. Stale(u)' \subseteq Stale(u)
    BY <2>4, <2>5, StaleFrame
  <2>7. Started(u)' /\ NotAhead(u)'
    BY <1>0, <2>4, <2>5 DEF Started, NotAhead
  <2> QED BY <1>0, <2>4, <2>6, <2>7, CountedFrame
<1>4. ASSUME NEW c \in Callers, NEW w \in Workers, Refresh(c, w) PROVE OutageInv'
  <2> SUFFICES ASSUME NEW u \in Workers PROVE (NotAhead(u) /\ Started(u) /\ Counted(u))'
    BY DEF OutageInv
  <2>1. call[c][w] \in CallState /\ call[c][w].pc = "refresh" /\ UNCHANGED <<cfg, health, op>>
    BY <1>4 DEF Refresh, TypeOK, CallType
  <2>2. /\ call'[c][w].pc = "wait" /\ call'[c][w].cfg = call[c][w].cfg
        /\ \A b \in Callers : b # c \/ u # w => call'[b][u] = call[b][u]
    BY <1>4, <2>1 DEF Refresh, TypeOK, CallType, CallState
  <2>3. \A b \in Callers : \/ call'[b][u] = call[b][u]
                           \/ /\ call[b][u].pc = "refresh" /\ call'[b][u].pc = "wait"
                              /\ call'[b][u].cfg = call[b][u].cfg
    BY <2>1, <2>2
  <2>4. Stale(u)' \subseteq Stale(u)
    BY <2>1, <2>3, StaleFrame
  <2>5. flight'[u] = flight[u] \/ (u = w /\ flight'[u].cfg = call[c][w].cfg)
    BY <1>4 DEF Refresh, TypeOK, FlightType, FlightState, NoFlight
  <2>6. Started(u)'
    <3>1. CASE flight'[u] = flight[u]
      BY <1>0, <2>3, <3>1 DEF Started
    <3>2. CASE u = w /\ flight'[u].cfg = call[c][w].cfg
      BY <2>2, <3>2 DEF Started
    <3> QED BY <2>5, <3>1, <3>2
  <2>7. NotAhead(u)'
    BY <1>0, <2>1 DEF NotAhead
  <2> QED BY <1>0, <2>1, <2>4, <2>6, <2>7, CountedFrame
<1>5. ASSUME NEW w \in Workers, ProbeReturns(w) PROVE OutageInv'
  <2> SUFFICES ASSUME NEW u \in Workers PROVE (NotAhead(u) /\ Started(u) /\ Counted(u))'
    BY DEF OutageInv
  <2>1. UNCHANGED <<cfg, op>>
    BY <1>5 DEF ProbeReturns
  <2>2. health'[w].base = health[w].base /\ Counted(w)'
    BY <1>5, ProbeCounted
  <2>3. u # w => health'[u] = health[u]
    BY <1>5 DEF ProbeReturns, TypeOK, HealthType
  <2>4. PICK e : IF e = "none" THEN Land(w)
                 ELSE /\ flight' = [flight EXCEPT ![w].pc = "notify", ![w].event = e]
                      /\ UNCHANGED call
    BY <1>5 DEF ProbeReturns
  <2>5. /\ flight'[w].pc # "probe" /\ (u # w => flight'[u] = flight[u])
        /\ u # w => \A c \in Callers : call'[c][u] = call[c][u]
    <3>1. CASE e = "none"
      BY <2>4, <3>1, LandStale, StateTypes
    <3>2. CASE e # "none"
      BY <2>4, <3>2 DEF TypeOK, FlightType, FlightState
    <3> QED BY <3>1, <3>2
  <2>6. Started(u)'
    BY <1>0, <2>5 DEF Started
  <2>7. NotAhead(u)'
    BY <1>0, <2>1, <2>2, <2>3 DEF NotAhead
  <2>8. CASE u = w
    BY <2>2, <2>6, <2>7, <2>8
  <2>9. CASE u # w
    <3>1. Stale(u)' \subseteq Stale(u)
      BY <2>3, <2>5, <2>9, StaleFrame
    <3> QED BY <1>0, <2>3, <2>6, <2>7, <2>9, <3>1, CountedFrame
  <2> QED BY <2>8, <2>9
<1>6. ASSUME NEW w \in Workers, NotifyFlight(w) PROVE OutageInv'
  <2> SUFFICES ASSUME NEW u \in Workers PROVE (NotAhead(u) /\ Started(u) /\ Counted(u))'
    BY DEF OutageInv
  <2>1. Land(w) /\ UNCHANGED <<cfg, health, op>>
    BY <1>6 DEF NotifyFlight
  <2>2. /\ flight'[w].pc = "none" /\ (u # w => flight'[u] = flight[u])
        /\ \A c \in Callers :
             call'[c][u] = IF u = w /\ call[c][u].pc = "wait" THEN IdleCall ELSE call[c][u]
    BY <2>1, LandStale, StateTypes
  <2>3. Stale(u)' \subseteq Stale(u)
    BY <2>1, <2>2, StaleFrame DEF IdleCall
  <2>4. Started(u)' /\ NotAhead(u)'
    BY <1>0, <2>1, <2>2 DEF Started, NotAhead
  <2> QED BY <1>0, <2>1, <2>3, <2>4, CountedFrame
<1>7. ASSUME NEW w \in Workers, Flip(w) PROVE OutageInv'
  <2>1. \A u \in Workers : NotAhead(u)'
    BY <1>0, <1>7 DEF Flip, NotAhead
  <2> QED BY <1>7, <2>1, RequestFrame DEF Flip
<1>8. CASE Restart
  <2> SUFFICES ASSUME NEW u \in Workers PROVE (NotAhead(u) /\ Started(u) /\ Counted(u))'
    BY DEF OutageInv
  <2>1. /\ health'[u] = NoEntry /\ flight'[u].pc = "none" /\ UNCHANGED cfg
        /\ \A q \in Requests : op'[q].cfg = 0
    BY <1>8 DEF Restart, NoFlight, IdleOp, OpAt
  <2>2. health'[u].fails = 0 /\ health'[u].base = 0 /\ cfg[u] \in Nat
    BY <2>1 DEF NoEntry, TypeOK, Configs
  <2> QED BY <2>1, <2>2, CountedAnew DEF NotAhead, Started
<1> QED BY <1>1, <1>2, <1>3, <1>4, <1>5, <1>6, <1>7, <1>8 DEF MonitorNext

\* The steps of the requests keep the count.
LEMMA RequestCounted ==
  ASSUME TypeOK, OutageInv, NEW q \in Requests, NEW w \in Workers,
         CreateWorker(q, w) \/ UpdateWorker(q, w) \/ DeleteWorker(q, w) \/ RequestStep(q)
  PROVE  OutageInv'
<1>0. /\ \A u \in Workers : NotAhead(u) /\ Started(u) /\ Counted(u)
      /\ \A u \in Workers : cfg[u] \in Nat /\ health[u].base \in Nat
      /\ \A p \in Requests : op[p].cfg \in Nat /\ op[p] \in OpState
      /\ op \in [Requests -> OpState]
  BY EntryFacts DEF OutageInv, TypeOK, HealthType, OpType, OpState, Configs
<1>1. CASE CreateWorker(q, w)
  <2>1. \A u \in Workers : NotAhead(u)'
    BY <1>0, <1>1 DEF CreateWorker, NotAhead, OpAt, TypeOK
  <2> QED BY <1>1, <2>1, RequestFrame DEF CreateWorker
<1>2. CASE UpdateWorker(q, w)
  <2>1. \A u \in Workers : NotAhead(u)'
    BY <1>0, <1>2 DEF UpdateWorker, NotAhead, OpAt, TypeOK
  <2> QED BY <1>2, <2>1, RequestFrame DEF UpdateWorker
<1>3. CASE DeleteWorker(q, w)
  <2>1. \A u \in Workers : NotAhead(u)'
    BY <1>0, <1>3 DEF DeleteWorker, NotAhead, OpAt
  <2> QED BY <1>3, <2>1, RequestFrame DEF DeleteWorker
<1>4. CASE UpdateCheck(q)
  <2>1. \A p \in Requests : op'[p].w = op[p].w /\ op'[p].cfg = op[p].cfg
    BY <1>0, <1>4 DEF UpdateCheck, OpState
  <2>2. \A u \in Workers : NotAhead(u)'
    BY <1>0, <1>4, <2>1 DEF UpdateCheck, NotAhead
  <2> QED BY <1>4, <2>2, RequestFrame DEF UpdateCheck
<1>5. CASE NotifyRequest(q)
  <2>1. \A p \in Requests : op'[p] = op[p] \/ op'[p].cfg = 0
    BY <1>0, <1>5 DEF NotifyRequest, IdleOp, OpAt
  <2>2. \A u \in Workers : NotAhead(u)'
    BY <1>0, <1>5, <2>1 DEF NotifyRequest, NotAhead
  <2> QED BY <1>5, <2>2, RequestFrame DEF NotifyRequest
<1>6. CASE Seed(q)
  <2> SUFFICES ASSUME NEW u \in Workers PROVE (NotAhead(u) /\ Started(u) /\ Counted(u))'
    BY DEF OutageInv
  <2> PICK x \in Workers : x = op[q].w
    BY <1>6 DEF Seed, TypeOK, OpType
  <2>1. /\ health' = [health EXCEPT ![x] = Seeded(EntryOf(health[x]), op[q].outcome, op[q].cfg)]
        /\ UNCHANGED <<cfg, call, flight>>
    BY <1>6 DEF Seed
  <2>2. \A p \in Requests : op'[p].cfg = 0 \/ (op'[p].cfg = op[p].cfg /\ op'[p].w = op[p].w)
    <3>1. IdleOp.cfg = 0
      BY DEF IdleOp, OpAt
    <3> QED BY <1>0, <1>6, <3>1 DEF Seed, OpState
  <2>3. CASE u = x
    <3>1. health'[u].fails = 0 /\ health'[u].base = op[q].cfg
      BY <2>1, <2>3 DEF Seeded, TypeOK, HealthType
    <3>2. NotAhead(u)' /\ Started(u)'
      BY <1>0, <2>1, <2>2, <2>3, <3>1 DEF NotAhead, Started
    <3> QED BY <3>1, <3>2, CountedAnew
  <2>4. CASE u # x
    <3>1. health'[u] = health[u]
      BY <2>1, <2>4 DEF TypeOK, HealthType
    <3>2. NotAhead(u)' /\ Started(u)'
      BY <1>0, <2>1, <2>2, <3>1 DEF NotAhead, Started
    <3>3. Stale(u)' \subseteq Stale(u)
      BY <2>1, <3>1, StaleFrame
    <3> QED BY <1>0, <3>1, <3>2, <3>3, CountedFrame
  <2> QED BY <2>3, <2>4
<1>7. CASE EvictHealth(q)
  <2> SUFFICES ASSUME NEW u \in Workers PROVE (NotAhead(u) /\ Started(u) /\ Counted(u))'
    BY DEF OutageInv
  <2>1. health'[u] = health[u] \/ health'[u] = NoEntry
    BY <1>7 DEF EvictHealth, TypeOK, HealthType
  <2>2. UNCHANGED <<cfg, call, flight>>
        /\ \A p \in Requests : op'[p] = op[p] \/ op'[p].cfg = 0
    BY <1>0, <1>7 DEF EvictHealth, IdleOp, OpAt
  <2>3. NotAhead(u)' /\ Started(u)'
    BY <1>0, <2>1, <2>2 DEF NotAhead, Started, NoEntry
  <2>4. CASE health'[u] = NoEntry
    BY <2>3, <2>4, CountedAnew DEF NoEntry
  <2>5. CASE health'[u] = health[u]
    <3>1. Stale(u)' \subseteq Stale(u)
      BY <2>2, <2>5, StaleFrame
    <3> QED BY <1>0, <2>3, <2>5, <3>1, CountedFrame
  <2> QED BY <2>1, <2>4, <2>5
<1> QED BY <1>1, <1>2, <1>3, <1>4, <1>5, <1>6, <1>7 DEF RequestStep

LEMMA OutageStep == TypeOK /\ OutageInv /\ [Next]_vars => OutageInv'
<1> SUFFICES ASSUME TypeOK, OutageInv, [Next]_vars PROVE OutageInv'
  OBVIOUS
<1>1. CASE MonitorNext
  BY <1>1, MonitorCounted
<1>2. CASE \E q \in Requests, w \in Workers :
             CreateWorker(q, w) \/ UpdateWorker(q, w) \/ DeleteWorker(q, w)
  BY <1>2, RequestCounted
<1>3. ASSUME NEW q \in Requests, RequestStep(q) PROVE OutageInv'
  <2>1. op[q].w \in Workers
    BY <1>3 DEF RequestStep, UpdateCheck, Seed, NotifyRequest, EvictHealth, TypeOK, OpType
  <2> QED BY <1>3, <2>1, RequestCounted
<1>4. CASE UNCHANGED vars
  <2>1. \A u \in Workers : NotAhead(u)'
    BY <1>4 DEF vars, OutageInv, NotAhead
  <2> QED BY <1>4, <2>1, RequestFrame DEF vars
<1> QED BY <1>1, <1>2, <1>3, <1>4 DEF Next

LEMMA OutageInit == Init => OutageInv
<1> SUFFICES ASSUME Init, NEW u \in Workers PROVE NotAhead(u) /\ Started(u) /\ Counted(u)
  BY DEF OutageInv
<1>1. /\ health[u].fails = 0 /\ health[u].base = 0 /\ flight[u].pc = "none"
      /\ cfg[u] \in Nat /\ \A q \in Requests : op[q].cfg = 0
  BY DEF Init, NoEntry, NoFlight, IdleOp, OpAt
<1>2. Stale(u) \in SUBSET Callers
  BY DEF Stale
<1>3. Cardinality(Stale(u)) <= Cardinality(Callers) /\ Cardinality(Stale(u)) \in Nat
  BY <1>2, CallerCounts
<1> HIDE DEF Stale
<1> QED BY <1>1, <1>3 DEF NotAhead, Started, Counted

\* With fewer goroutines than the threshold asks for, an outage confirmed after
\* a Seed rests on a failed probe of the seeded configuration or a newer one,
\* whatever old snapshots are still being probed.
THEOREM ConfirmedOutageIsCurrentCorrect == Spec => []ConfirmedOutageIsCurrent
<1>1. TypeOK /\ OutageInv => ConfirmedOutageIsCurrent
  <2> SUFFICES ASSUME TypeOK, OutageInv, Few, NEW w \in Workers, health[w].fails = FailThreshold
               PROVE  CurrentEvidence(w)
    BY DEF ConfirmedOutageIsCurrent, CurrentEvidence, Few
  <2>1. Stale(w) \in SUBSET Callers
    BY DEF Stale
  <2>2. Cardinality(Stale(w)) \in Nat /\ Cardinality(Callers) \in Nat
    BY <2>1, CallerCounts
  <2> HIDE DEF Stale, CurrentEvidence
  <2> QED BY <2>2, HealthAssumption DEF OutageInv, Counted, Few
<1> QED BY <1>1, OutageInit, OutageStep, TypeCorrect, PTL DEF Spec
=============================================================================
