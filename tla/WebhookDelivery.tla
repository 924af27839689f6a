-------------------------- MODULE WebhookDelivery --------------------------
(***************************************************************************)
(* The webhook side of the event bus: services/integration, the delivery   *)
(* loop of services/integration/webhook and the integration routes that    *)
(* change webhooks and reload them.                                        *)
(*                                                                         *)
(* One goroutine consumes events and puts each on the queue of every       *)
(* webhook that wants it; one goroutine per webhook delivers its queue.  A *)
(* reload replaces all of them: the replaced ones drain their queues, the  *)
(* new ones run on the context of whoever asked for the reload, which for  *)
(* a request is cancelled when its handler returns.                        *)
(***************************************************************************)
EXTENDS Integers, Sequences, FiniteSets

CONSTANTS
  Hooks,        \* webhook ids
  Requests,     \* request goroutines of the integration routes
  QueueSize,    \* WEBHOOK_QUEUE_SIZE
  BusSize,      \* EVENT_SUBSCRIBER_BUFFER
  MaxAttempts,  \* WEBHOOK_MAX_ATTEMPTS
  MaxEvents,    \* bound: events broadcast
  MaxLoads      \* bound: reloads after the one at start-up

ASSUME WebhookAssumption ==
  /\ QueueSize \in Nat \ {0} /\ BusSize \in Nat \ {0} /\ MaxAttempts \in Nat \ {0}
  /\ MaxEvents \in Nat /\ MaxLoads \in Nat

VARIABLES
  rows,       \* the webhooks table
  request,    \* progress of each request
  current,    \* the load whose goroutines are in webhookWorkers
  loaded,     \* the webhooks each load listed
  cancelled,  \* loads whose context is done
  hook,       \* the goroutine of each webhook of each load
  queue,      \* its jobs channel
  bus,        \* the integration service's subscriber channel
  consumer,   \* the goroutine that runs processEvent
  published,  \* events broadcast so far, numbered in order
  arrived,    \* history: what each endpoint received, in order
  history     \* webhook_history: rows per webhook and event

vars == <<rows, request, current, loaded, cancelled, hook, queue, bus,
          consumer, published, arrived, history>>

Loads  == 0 .. MaxLoads
Events == 1 .. MaxEvents
Rows   == {"absent", "off", "on"}

\* A goroutine of runWebhookWorker: where it is, the event it is delivering,
\* the attempt it is at and whether it has seen stopCh.
HookState == [pc : {"none", "select", "send", "backoff", "exited"},
              event : Events \cup {0}, attempt : 0 .. MaxAttempts, draining : BOOLEAN]
NoHook    == [pc |-> "none", event |-> 0, attempt |-> 0, draining |-> FALSE]
Started   == [pc |-> "select", event |-> 0, attempt |-> 0, draining |-> FALSE]

\* Goroutine g begins to deliver event e.
Sending(g, e) == [pc |-> "send", event |-> e, attempt |-> 1, draining |-> g.draining]

\* It starts the next attempt.
Retrying(g) == [pc |-> "send", event |-> g.event, attempt |-> g.attempt + 1,
                draining |-> g.draining]

\* A request of the routes: the row it read and the value it is to write, then
\* the list it read for the reload.
RequestState == [pc : {"idle", "update", "list", "install", "respond"},
                 h : Hooks \cup {"none"}, value : Rows,
                 list : SUBSET Hooks, load : Loads \cup {-1}]
NoRequest    == [pc |-> "idle", h |-> "none", value |-> "absent",
                 list |-> {}, load |-> -1]

Consumer == [event : Events \cup {0}, load : Loads, todo : SUBSET Hooks]

\* Every variable holds a value of its kind and no channel is over its capacity.
TypeOK ==
  /\ rows \in [Hooks -> Rows]
  /\ request \in [Requests -> RequestState]
  /\ current \in Loads
  /\ loaded \in [Loads -> SUBSET Hooks] /\ cancelled \subseteq Loads
  /\ hook \in [Loads -> [Hooks -> HookState]]
  /\ queue \in [Loads -> [Hooks -> Seq(Events)]]
  /\ \A n \in Loads, h \in Hooks : Len(queue[n][h]) <= QueueSize
  /\ bus \in Seq(Events) /\ Len(bus) <= BusSize
  /\ consumer \in Consumer
  /\ published \in 0 .. MaxEvents
  /\ arrived \in [Hooks -> Seq(Loads \X Events)]
  /\ history \in [Hooks -> [Events -> 0 .. MaxAttempts]]

-----------------------------------------------------------------------------
Init ==
  /\ rows \in [Hooks -> Rows]
  /\ request = [q \in Requests |-> NoRequest]
  /\ current = 0 /\ cancelled = {}
  /\ loaded = [n \in Loads |-> IF n = 0 THEN {h \in Hooks : rows[h] = "on"} ELSE {}]
  /\ hook = [n \in Loads |-> [h \in Hooks |-> IF h \in loaded[n] THEN Started ELSE NoHook]]
  /\ queue = [n \in Loads |-> [h \in Hooks |-> <<>>]]
  /\ bus = <<>> /\ published = 0
  /\ consumer = [event |-> 0, load |-> 0, todo |-> {}]
  /\ arrived = [h \in Hooks |-> <<>>]
  /\ history = [h \in Hooks |-> [e \in Events |-> 0]]

(* The event side. *)

\* broadcastEvent: the event is dropped when the subscriber's channel is full.
Publish ==
  /\ published < MaxEvents
  /\ published' = published + 1
  /\ bus' = IF Len(bus) < BusSize THEN Append(bus, published + 1) ELSE bus
  /\ UNCHANGED <<rows, request, current, loaded, cancelled, hook, queue,
                 consumer, arrived, history>>

\* The consumer takes an event and snapshots the targets under the read lock;
\* each webhook's filter may or may not want the event.
Receive ==
  /\ consumer.todo = {} /\ bus # <<>>
  /\ \E wanted \in SUBSET loaded[current] :
       consumer' = [event |-> Head(bus), load |-> current, todo |-> wanted]
  /\ bus' = Tail(bus)
  /\ UNCHANGED <<rows, request, current, loaded, cancelled, hook, queue,
                 published, arrived, history>>

\* Mistake: the consumer waits for room in the queue.
EnqueueBlocking(h) ==
  /\ h \in consumer.todo
  /\ Len(queue[consumer.load][h]) < QueueSize
  /\ queue' = [queue EXCEPT ![consumer.load][h] = Append(@, consumer.event)]
  /\ consumer' = [consumer EXCEPT !.todo = @ \ {h}]
  /\ UNCHANGED <<rows, request, current, loaded, cancelled, hook, bus,
                 published, arrived, history>>

\* Mistake: the queue grows without limit.
EnqueueUnbounded(h) ==
  /\ h \in consumer.todo
  /\ queue' = [queue EXCEPT ![consumer.load][h] = Append(@, consumer.event)]
  /\ consumer' = [consumer EXCEPT !.todo = @ \ {h}]
  /\ UNCHANGED <<rows, request, current, loaded, cancelled, hook, bus,
                 published, arrived, history>>

\* The non-blocking send to one target of the snapshot, whatever became of the
\* goroutine behind it since; a full queue drops the event.
Enqueue(h) ==
  /\ h \in consumer.todo
  /\ queue' = [queue EXCEPT ![consumer.load][h] =
                 IF Len(@) < QueueSize THEN Append(@, consumer.event) ELSE @]
  /\ consumer' = [consumer EXCEPT !.todo = @ \ {h}]
  /\ UNCHANGED <<rows, request, current, loaded, cancelled, hook, bus,
                 published, arrived, history>>

-----------------------------------------------------------------------------
(* runWebhookWorker. *)

\* stopCh of a load is closed when the next load replaces it.
Stopped(n) == n < current

\* Mistake: the newest job is taken first.
TakeJobLast(n, h) ==
  /\ hook[n][h].pc = "select" /\ queue[n][h] # <<>>
  /\ hook' = [hook EXCEPT ![n][h] = Sending(@, queue[n][h][Len(queue[n][h])])]
  /\ queue' = [queue EXCEPT ![n][h] = SubSeq(@, 1, Len(@) - 1)]
  /\ UNCHANGED <<rows, request, current, loaded, cancelled, bus,
                 consumer, published, arrived, history>>

\* The select, or the drain loop after stopCh, takes the next job.
TakeJob(n, h) ==
  /\ hook[n][h].pc = "select" /\ queue[n][h] # <<>>
  /\ hook' = [hook EXCEPT ![n][h] = Sending(@, Head(queue[n][h]))]
  /\ queue' = [queue EXCEPT ![n][h] = Tail(@)]
  /\ UNCHANGED <<rows, request, current, loaded, cancelled, bus,
                 consumer, published, arrived, history>>

\* The select sees stopCh and enters the drain loop.
SeeStop(n, h) ==
  /\ hook[n][h].pc = "select" /\ ~hook[n][h].draining /\ Stopped(n)
  /\ hook' = [hook EXCEPT ![n][h].draining = TRUE]
  /\ UNCHANGED <<rows, request, current, loaded, cancelled, queue, bus,
                 consumer, published, arrived, history>>

\* Mistake: stopCh ends the goroutine at once.
ExitAtOnce(n, h) ==
  /\ hook[n][h].pc = "select" /\ (hook[n][h].draining \/ n \in cancelled)
  /\ hook' = [hook EXCEPT ![n][h].pc = "exited"]
  /\ UNCHANGED <<rows, request, current, loaded, cancelled, queue, bus,
                 consumer, published, arrived, history>>

\* The goroutine returns: its queue is drained, or its context is done.
Exit(n, h) ==
  /\ hook[n][h].pc = "select"
  /\ IF hook[n][h].draining THEN queue[n][h] = <<>> ELSE n \in cancelled
  /\ hook' = [hook EXCEPT ![n][h].pc = "exited"]
  /\ UNCHANGED <<rows, request, current, loaded, cancelled, queue, bus,
                 consumer, published, arrived, history>>

(* SendEventWithRetry. *)

\* Mistake: a failed delivery ends the goroutine.
FinishedExit(g) == [g EXCEPT !.pc = IF g.attempt = MaxAttempts THEN "exited" ELSE "select"]

\* The delivery loop goes on with the next job.
Finished(g) == [g EXCEPT !.pc = "select"]

\* Mistake: every attempt is recorded.
SaveHistoryEach(n, h, e, final) ==
  history' = IF n \in cancelled THEN history
             ELSE [history EXCEPT ![h][e] = IF @ < MaxAttempts THEN @ + 1 ELSE @]

\* saveHistory after the final attempt, with the goroutine's own context; a
\* failing insert is only logged.
SaveHistory(n, h, e, final) ==
  \/ /\ final /\ n \notin cancelled
     /\ history' = [history EXCEPT ![h][e] = IF @ < MaxAttempts THEN @ + 1 ELSE @]
  \/ history' = history

\* One POST.  "ok" is a 2xx, "reject" another 4xx, "fail" a 5xx, 429 or network
\* error; with "lost" the endpoint got the event but the answer did not come
\* back.  A request on a cancelled context fails unless it was already out.
Attempt(n, h) ==
  /\ hook[n][h].pc = "send"
  /\ \E outcome \in IF n \in cancelled THEN {"fail", "lost"}
                    ELSE {"ok", "reject", "fail", "lost"} :
       LET g     == hook[n][h]
           final == outcome \in {"ok", "reject"} \/ g.attempt = MaxAttempts
       IN /\ hook' = [hook EXCEPT ![n][h] = IF final THEN Finished(g)
                                            ELSE [g EXCEPT !.pc = "backoff"]]
          /\ arrived' = IF outcome \in {"ok", "lost"}
                        THEN [arrived EXCEPT ![h] = Append(@, <<n, g.event>>)]
                        ELSE arrived
          /\ SaveHistory(n, h, g.event, final)
  /\ UNCHANGED <<rows, request, current, loaded, cancelled, queue, bus,
                 consumer, published>>

\* The backoff timer fires, or the context is done and the delivery is given up.
Backoff(n, h) ==
  /\ hook[n][h].pc = "backoff"
  /\ \/ hook' = [hook EXCEPT ![n][h] = Retrying(@)]
     \/ n \in cancelled /\ hook' = [hook EXCEPT ![n][h].pc = "select"]
  /\ UNCHANGED <<rows, request, current, loaded, cancelled, queue, bus,
                 consumer, published, arrived, history>>

-----------------------------------------------------------------------------
(* The integration routes. *)

\* createWebhook inserts an enabled row.
CreateWebhook(q, h) ==
  /\ request[q].pc = "idle" /\ rows[h] = "absent"
  /\ rows' = [rows EXCEPT ![h] = "on"]
  /\ request' = [request EXCEPT ![q] = [NoRequest EXCEPT !.pc = "list", !.h = h]]
  /\ UNCHANGED <<current, loaded, cancelled, hook, queue, bus, consumer,
                 published, arrived, history>>

\* deleteWebhook.
DeleteWebhook(q, h) ==
  /\ request[q].pc = "idle" /\ rows[h] # "absent"
  /\ rows' = [rows EXCEPT ![h] = "absent"]
  /\ request' = [request EXCEPT ![q] = [NoRequest EXCEPT !.pc = "list", !.h = h]]
  /\ UNCHANGED <<current, loaded, cancelled, hook, queue, bus, consumer,
                 published, arrived, history>>

\* updateWebhook reads the row and overlays the body, which may or may not carry
\* "enabled" ...
ReadWebhook(q, h) ==
  /\ request[q].pc = "idle" /\ rows[h] # "absent"
  /\ \E value \in {"on", "off"} :
       request' = [request EXCEPT ![q] = [NoRequest EXCEPT !.pc = "update", !.h = h, !.value = value]]
  /\ UNCHANGED <<rows, current, loaded, cancelled, hook, queue, bus,
                 consumer, published, arrived, history>>

\* ... and writes every column back, unless the row is gone.
UpdateWebhook(q) ==
  /\ request[q].pc = "update"
  /\ LET h == request[q].h
     IN IF rows[h] = "absent"
        THEN /\ request' = [request EXCEPT ![q].pc = "respond"]
             /\ UNCHANGED rows
        ELSE /\ rows' = [rows EXCEPT ![h] = request[q].value]
             /\ request' = [request EXCEPT ![q].pc = "list"]
  /\ UNCHANGED <<current, loaded, cancelled, hook, queue, bus, consumer,
                 published, arrived, history>>

\* loadWebhooks, before the lock: the list is read, or the read fails (the
\* client went away, the database is busy) and the reload is skipped.
ListEnabledWebhooks(q) ==
  /\ request[q].pc = "list"
  /\ \/ request' = [request EXCEPT ![q] = [@ EXCEPT !.pc = "install",
                                             !.list = {h \in Hooks : rows[h] = "on"}]]
     \/ request' = [request EXCEPT ![q].pc = "respond"]
  /\ UNCHANGED <<rows, current, loaded, cancelled, hook, queue, bus,
                 consumer, published, arrived, history>>

\* Mistake: the new goroutines are given the queues the old ones still drain.
InstallHandingOver(q) ==
  /\ request[q].pc = "install" /\ current < MaxLoads
  /\ LET n == current + 1
     IN /\ current' = n
        /\ loaded' = [loaded EXCEPT ![n] = request[q].list]
        /\ hook' = [hook EXCEPT ![n] = [h \in Hooks |-> IF h \in request[q].list
                                                        THEN Started ELSE NoHook]]
        /\ queue' = [queue EXCEPT ![n] = queue[current]]
        /\ request' = [request EXCEPT ![q].pc = "respond", ![q].load = n]
  /\ UNCHANGED <<rows, cancelled, bus, consumer, published, arrived,
                 history>>

\* loadWebhooks, under the lock: every goroutine is stopped and replaced.
Install(q) ==
  /\ request[q].pc = "install" /\ current < MaxLoads
  /\ LET n == current + 1
     IN /\ current' = n
        /\ loaded' = [loaded EXCEPT ![n] = request[q].list]
        /\ hook' = [hook EXCEPT ![n] = [h \in Hooks |-> IF h \in request[q].list
                                                        THEN Started ELSE NoHook]]
        /\ request' = [request EXCEPT ![q].pc = "respond", ![q].load = n]
  /\ UNCHANGED <<rows, cancelled, queue, bus, consumer, published,
                 arrived, history>>

\* The handler returns and net/http cancels the request's context.
Respond(q) ==
  /\ request[q].pc = "respond"
  /\ cancelled' = cancelled \cup ({request[q].load} \ {-1})
  /\ request' = [request EXCEPT ![q] = NoRequest]
  /\ UNCHANGED <<rows, current, loaded, hook, queue, bus, consumer,
                 published, arrived, history>>

-----------------------------------------------------------------------------
HookStep(n, h) ==
  \/ TakeJob(n, h) \/ SeeStop(n, h) \/ Exit(n, h) \/ Attempt(n, h) \/ Backoff(n, h)

RequestStep(q) ==
  \/ UpdateWebhook(q) \/ ListEnabledWebhooks(q) \/ Install(q) \/ Respond(q)

Next ==
  \/ Publish \/ Receive
  \/ \E h \in Hooks : Enqueue(h)
  \/ \E n \in Loads, h \in Hooks : HookStep(n, h)
  \/ \E q \in Requests, h \in Hooks :
       CreateWebhook(q, h) \/ DeleteWebhook(q, h) \/ ReadWebhook(q, h)
  \/ \E q \in Requests : RequestStep(q)

\* Goroutines run, and an attempt ends within its HTTP timeout.
Fairness ==
  /\ WF_vars(Receive)
  /\ \A h \in Hooks : WF_vars(Enqueue(h))
  /\ \A n \in Loads, h \in Hooks : WF_vars(HookStep(n, h))
  /\ \A q \in Requests : WF_vars(RequestStep(q))

Spec     == Init /\ [][Next]_vars
FairSpec == Spec /\ Fairness

-----------------------------------------------------------------------------
(* Properties. *)

\* One goroutine delivers its queue in the order the events were broadcast,
\* across full queues, retries, lost answers and reloads.
OrderPerLoad ==
  \A h \in Hooks : \A i, j \in 1 .. Len(arrived[h]) :
    i < j /\ arrived[h][i][1] = arrived[h][j][1] => arrived[h][i][2] <= arrived[h][j][2]

\* However often a delivery is retried and whoever reloads meanwhile, an event
\* has at most one row in a webhook's history.
OneHistoryRow == \A h \in Hooks, e \in Events : history[h][e] <= 1

\* No event is handed to two goroutines of one webhook, so a reload does not
\* make an endpoint receive from both.
OneLoadPerEvent ==
  \A h \in Hooks : \A i, j \in 1 .. Len(arrived[h]) :
    arrived[h][i][2] = arrived[h][j][2] => arrived[h][i][1] = arrived[h][j][1]

\* A slow, dead or full webhook never holds up the consumer.
ConsumerNeverStalls == []<>(consumer.todo = {})

\* Every queued event is taken unless its goroutine has gone, and every
\* delivery ends with the goroutine ready for the next event, whatever the
\* endpoint answers and whoever reloads.
QueuedIsDelivered ==
  \A n \in Loads, h \in Hooks :
    /\ queue[n][h] # <<>> ~> queue[n][h] = <<>> \/ hook[n][h].pc = "exited"
    /\ hook[n][h].pc = "send" ~> hook[n][h].pc = "select"

\* How far the drain keeps its promise that a reload discards nothing: the one
\* event a drained goroutine can leave behind is the one the consumer had
\* snapshotted its targets for when the reload came.
DrainLeavesAtMostOne ==
  \A n \in Loads, h \in Hooks :
    hook[n][h].pc = "exited" /\ hook[n][h].draining => Len(queue[n][h]) <= 1

\* loadWebhooks starts one goroutine per enabled webhook: with no request
\* under way, each loaded webhook has a running goroutine.
LoadedHooksRun ==
  (\A q \in Requests : request[q].pc = "idle") =>
    \A h \in loaded[current] : hook[current][h].pc # "exited"
=============================================================================
