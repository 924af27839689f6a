----------------------- MODULE WebhookDeliveryProofs -----------------------
(***************************************************************************)
(* What one webhook goroutine delivers arrives in the order the events     *)
(* were broadcast; every variable keeps its type and a drained goroutine   *)
(* leaves at most one event behind; an event of a webhook belongs to one   *)
(* load and has one row of history; for any number of webhooks, requests   *)
(* and reloads and any capacity of the channels.                           *)
(***************************************************************************)
EXTENDS WebhookDelivery, SequenceTheorems, TLAPS

\* The part of the types the argument needs.
Typed ==
  /\ current \in Loads
  /\ hook \in [Loads -> [Hooks -> HookState]]
  /\ \A n \in Loads, h \in Hooks :
       hook[n][h].pc = "backoff" => hook[n][h].attempt < MaxAttempts
  /\ queue \in [Loads -> [Hooks -> Seq(Events)]]
  /\ bus \in Seq(Events)
  /\ consumer = [event |-> consumer.event, load |-> consumer.load, todo |-> consumer.todo]
  /\ consumer.event \in Events \cup {0} /\ consumer.load \in Loads
  /\ published \in 0 .. MaxEvents
  /\ arrived \in [Hooks -> Seq(Loads \X (Events \cup {0}))]

Increasing(s) == \A i, j \in 1 .. Len(s) : i < j => s[i] < s[j]

\* Events move from the bus to the consumer, a queue, a goroutine and the
\* endpoint, and everything ahead of an event on that way is older.
BusOrdered ==
  /\ Increasing(bus)
  /\ consumer.event <= published
  /\ \A i \in 1 .. Len(bus) : consumer.event < bus[i] /\ bus[i] <= published

\* A queue is behind the event its goroutine took last and ahead of the
\* consumer; the consumer's event is on no queue it is still to be put on.
QueueOrdered ==
  \A n \in Loads, h \in Hooks :
    /\ Increasing(queue[n][h])
    /\ hook[n][h].event <= consumer.event
    /\ \A i \in 1 .. Len(queue[n][h]) :
         hook[n][h].event < queue[n][h][i] /\ queue[n][h][i] <= consumer.event

NotYetQueued ==
  \A h \in Hooks : h \in consumer.todo =>
    /\ hook[consumer.load][h].event < consumer.event
    /\ \A i \in 1 .. Len(queue[consumer.load][h]) :
         queue[consumer.load][h][i] < consumer.event

\* Nothing has happened to the goroutines of a load that is still to come.
LaterLoadsEmpty ==
  /\ consumer.load <= current
  /\ \A n \in Loads, h \in Hooks :
       n > current => queue[n][h] = <<>> /\ hook[n][h] = NoHook

ArrivedBounded ==
  \A h \in Hooks : \A i \in 1 .. Len(arrived[h]) :
    /\ arrived[h][i][1] <= current
    /\ arrived[h][i][2] <= hook[arrived[h][i][1]][h].event

OrderInv ==
  /\ Typed /\ BusOrdered /\ QueueOrdered /\ NotYetQueued /\ LaterLoadsEmpty
  /\ ArrivedBounded /\ OrderPerLoad

-----------------------------------------------------------------------------
(* Facts about the channels. *)

LEMMA AppendIncreasing ==
  ASSUME NEW s \in Seq(Events), NEW e \in Events, Increasing(s),
         \A i \in 1 .. Len(s) : s[i] < e
  PROVE  Append(s, e) \in Seq(Events) /\ Increasing(Append(s, e))
<1>1. /\ Append(s, e) \in Seq(Events) /\ Len(Append(s, e)) = Len(s) + 1
      /\ \A i \in 1 .. Len(s) : Append(s, e)[i] = s[i]
      /\ Append(s, e)[Len(s) + 1] = e
  BY AppendProperties
<1>2. Len(s) \in Nat
  BY LenProperties
<1> SUFFICES ASSUME NEW i \in 1 .. Len(s) + 1, NEW j \in 1 .. Len(s) + 1, i < j
             PROVE  Append(s, e)[i] < Append(s, e)[j]
  BY <1>1 DEF Increasing
<1> QED BY <1>1, <1>2 DEF Increasing

LEMMA TailIncreasing ==
  ASSUME NEW s \in Seq(Events), s # <<>>, Increasing(s)
  PROVE  /\ Head(s) \in Events /\ Head(s) = s[1] /\ Tail(s) \in Seq(Events)
         /\ Increasing(Tail(s))
         /\ Len(s) > 0 /\ Len(Tail(s)) = Len(s) - 1
         /\ \A i \in 1 .. Len(Tail(s)) :
              i + 1 \in 1 .. Len(s) /\ Tail(s)[i] = s[i + 1] /\ Head(s) < Tail(s)[i]
<1>1. /\ Head(s) \in Events /\ Head(s) = s[1] /\ Tail(s) \in Seq(Events)
      /\ Len(s) \in Nat /\ Len(s) > 0 /\ Len(Tail(s)) = Len(s) - 1
      /\ \A i \in 1 .. Len(Tail(s)) : Tail(s)[i] = s[i + 1]
  BY HeadTailProperties, EmptySeq, LenProperties
<1>2. \A i \in 1 .. Len(Tail(s)) : i + 1 \in 1 .. Len(s) /\ 1 < i + 1
  BY <1>1
<1>3. \A i \in 1 .. Len(Tail(s)) : Head(s) < Tail(s)[i]
  BY <1>1, <1>2 DEF Increasing
<1>4. Increasing(Tail(s))
  <2> SUFFICES ASSUME NEW i \in 1 .. Len(Tail(s)), NEW j \in 1 .. Len(Tail(s)), i < j
               PROVE  Tail(s)[i] < Tail(s)[j]
    BY DEF Increasing
  <2>1. i + 1 < j + 1
    BY <1>1
  <2> QED BY <1>1, <1>2, <2>1 DEF Increasing
<1> QED BY <1>1, <1>2, <1>3, <1>4

LEMMA StateTypes ==
  /\ 0 \in Loads /\ NoHook \in HookState /\ Started \in HookState
  /\ NoHook.event = 0 /\ Started.event = 0 /\ NoHook.pc = "none" /\ Started.pc = "select"
  /\ \A g \in HookState, e \in Events :
       /\ Sending(g, e) \in HookState /\ Sending(g, e).event = e
       /\ Sending(g, e).pc = "send" /\ Sending(g, e).draining = g.draining
  /\ \A g \in HookState, pc \in {"select", "backoff", "exited"} :
       LET t == [g EXCEPT !.pc = pc] IN t \in HookState /\ t.event = g.event
<1>1. 0 \in Loads
  BY WebhookAssumption DEF Loads
<1>2. NoHook \in HookState /\ NoHook.event = 0 /\ NoHook.pc = "none"
  BY WebhookAssumption DEF NoHook, HookState
<1>3. Started \in HookState /\ Started.event = 0 /\ Started.pc = "select"
  BY WebhookAssumption DEF Started, HookState
<1>4. \A g \in HookState, e \in Events :
        /\ Sending(g, e) \in HookState /\ Sending(g, e).event = e
        /\ Sending(g, e).pc = "send" /\ Sending(g, e).draining = g.draining
  BY WebhookAssumption DEF HookState, Sending
<1>5. \A g \in HookState, pc \in {"select", "backoff", "exited"} :
        LET t == [g EXCEPT !.pc = pc] IN t \in HookState /\ t.event = g.event
  BY DEF HookState
<1> QED BY <1>1, <1>2, <1>3, <1>4, <1>5

LEMMA OrderInvInit == Init => OrderInv
<1> SUFFICES ASSUME Init PROVE OrderInv
  OBVIOUS
<1>1. 0 \in Loads /\ NoHook \in HookState /\ Started \in HookState
      /\ NoHook.event = 0 /\ Started.event = 0 /\ NoHook.pc = "none" /\ Started.pc = "select"
  BY StateTypes
<1>2. Typed
  BY <1>1, WebhookAssumption DEF Init, Typed
<1>3. BusOrdered /\ QueueOrdered /\ NotYetQueued /\ LaterLoadsEmpty /\ ArrivedBounded
      /\ OrderPerLoad
  BY <1>1 DEF Init, BusOrdered, Increasing, QueueOrdered, NotYetQueued, LaterLoadsEmpty,
              ArrivedBounded, OrderPerLoad, Loads
<1> QED BY <1>2, <1>3 DEF OrderInv

-----------------------------------------------------------------------------
(* One lemma per kind of step. *)

\* A step of goroutines that keeps each one's event and touches no channel.
LEMMA HookFrame ==
  ASSUME OrderInv,
         UNCHANGED <<current, queue, bus, consumer, published>>,
         hook' \in [Loads -> [Hooks -> HookState]],
         \A n \in Loads, h \in Hooks :
           /\ hook'[n][h].event = hook[n][h].event
           /\ hook'[n][h] = hook[n][h] \/ n <= current
           /\ hook'[n][h].pc = "backoff" => hook'[n][h].attempt < MaxAttempts,
         arrived' \in [Hooks -> Seq(Loads \X (Events \cup {0}))]
  PROVE  Typed' /\ BusOrdered' /\ QueueOrdered' /\ NotYetQueued' /\ LaterLoadsEmpty'
<1> USE DEF OrderInv
<1>1. Typed'
  BY DEF Typed
<1>2. BusOrdered'
  BY DEF BusOrdered, Increasing
<1>3. QueueOrdered'
  BY DEF QueueOrdered, Increasing
<1>4. NotYetQueued'
  BY DEF NotYetQueued, Typed
<1>5. LaterLoadsEmpty'
  <2>1. current \in Int /\ \A n \in Loads : n \in Int /\ (n > current => ~(n <= current))
    BY WebhookAssumption DEF Typed, Loads
  <2>2. \A n \in Loads, h \in Hooks : n > current => hook'[n][h] = hook[n][h]
    BY <2>1
  <2>3. \A n \in Loads, h \in Hooks : n > current => queue[n][h] = <<>> /\ hook'[n][h] = NoHook
    BY <2>2 DEF LaterLoadsEmpty
  <2> QED BY <2>3 DEF LaterLoadsEmpty
<1> QED BY <1>1, <1>2, <1>3, <1>4, <1>5

\* Nothing arrives, and no goroutine goes back to an older event.
LEMMA NothingArrives ==
  ASSUME OrderInv, UNCHANGED <<current, arrived>>,
         \A n \in Loads, h \in Hooks :
           n <= current => hook[n][h].event <= hook'[n][h].event,
         hook' \in [Loads -> [Hooks -> HookState]]
  PROVE  ArrivedBounded' /\ OrderPerLoad'
<1> USE DEF OrderInv
<1>1. ASSUME NEW h \in Hooks, NEW i \in 1 .. Len(arrived[h])
      PROVE  /\ arrived[h][i][1] <= current
             /\ arrived[h][i][2] <= hook'[arrived[h][i][1]][h].event
  <2> DEFINE a == arrived[h][i]
  <2>1. a \in Loads \X (Events \cup {0})
    BY ElementOfSeq DEF Typed
  <2>2. a[1] \in Loads /\ a[2] \in Int
    BY <2>1 DEF Events
  <2>3. a[1] <= current /\ a[2] <= hook[a[1]][h].event
    BY DEF ArrivedBounded
  <2>4. hook[a[1]][h].event <= hook'[a[1]][h].event
    BY <2>2, <2>3
  <2>5. hook[a[1]][h] \in HookState /\ hook'[a[1]][h] \in HookState
    BY <2>2 DEF Typed
  <2>6. hook[a[1]][h].event \in Int /\ hook'[a[1]][h].event \in Int
    BY <2>5 DEF HookState, Events
  <2> HIDE DEF a
  <2>7. a[2] <= hook'[a[1]][h].event
    BY <2>2, <2>3, <2>4, <2>6
  <2> QED BY <2>3, <2>7 DEF a
<1>2. ArrivedBounded'
  BY <1>1 DEF ArrivedBounded
<1>3. OrderPerLoad'
  BY DEF OrderPerLoad
<1> QED BY <1>2, <1>3

LEMMA PublishOrder ==
  ASSUME OrderInv, Publish PROVE OrderInv'
<1> USE DEF OrderInv
<1>1. /\ published \in Nat /\ published + 1 \in Events /\ published' = published + 1
      /\ UNCHANGED <<current, hook, queue, consumer, arrived>>
  BY WebhookAssumption DEF Publish, Typed, Events
<1>2. bus' = bus \/ bus' = Append(bus, published + 1)
  BY DEF Publish
<1>3. bus \in Seq(Events) /\ Len(bus) \in Nat /\ \A i \in 1 .. Len(bus) : bus[i] \in Events
  BY ElementOfSeq, LenProperties DEF Typed
<1>4. \A i \in 1 .. Len(bus) : bus[i] < published + 1 /\ consumer.event < published + 1
  BY <1>1, <1>3 DEF BusOrdered, Typed, Events
<1>5. bus' \in Seq(Events) /\ Increasing(bus')
  BY <1>1, <1>2, <1>3, <1>4, AppendIncreasing DEF BusOrdered
<1>6. \A i \in 1 .. Len(bus') : consumer.event < bus'[i] /\ bus'[i] <= published + 1
  <2>1. CASE bus' = bus
    BY <1>1, <1>3, <1>4, <2>1 DEF BusOrdered, Events
  <2>2. CASE bus' = Append(bus, published + 1)
    <3>1. /\ Len(bus') = Len(bus) + 1 /\ bus'[Len(bus) + 1] = published + 1
          /\ \A i \in 1 .. Len(bus) : bus'[i] = bus[i]
      BY <1>1, <1>3, <2>2, AppendProperties
    <3>2. consumer.event < published + 1
      BY <1>1 DEF BusOrdered, Typed, Events
    <3> QED BY <1>1, <1>3, <1>4, <3>1, <3>2 DEF BusOrdered, Events
  <2> QED BY <1>2, <2>1, <2>2
<1>7. Typed'
  <2>1. published + 1 \in 0 .. MaxEvents
    BY <1>1 DEF Events
  <2> QED BY <1>1, <1>5, <2>1 DEF Typed
<1>8. BusOrdered'
  <2>1. consumer.event <= published + 1
    BY <1>1 DEF BusOrdered, Typed, Events
  <2>2. Increasing(bus)'
    BY <1>5 DEF Increasing
  <2> QED BY <1>1, <1>6, <2>1, <2>2 DEF BusOrdered
<1>9. QueueOrdered' /\ NotYetQueued' /\ LaterLoadsEmpty' /\ ArrivedBounded' /\ OrderPerLoad'
  BY <1>1 DEF QueueOrdered, Increasing, NotYetQueued, LaterLoadsEmpty, ArrivedBounded, OrderPerLoad
<1> QED BY <1>7, <1>8, <1>9

LEMMA ReceiveOrder ==
  ASSUME OrderInv, Receive PROVE OrderInv'
<1> USE DEF OrderInv
<1>1. PICK wanted \in SUBSET loaded[current] :
        consumer' = [event |-> Head(bus), load |-> current, todo |-> wanted]
  BY DEF Receive
<1>2. /\ bus # <<>> /\ bus' = Tail(bus)
      /\ UNCHANGED <<current, hook, queue, published, arrived>>
  BY DEF Receive
<1>3. /\ Head(bus) \in Events /\ Head(bus) = bus[1] /\ 1 \in 1 .. Len(bus)
      /\ Tail(bus) \in Seq(Events) /\ Increasing(Tail(bus))
      /\ \A i \in 1 .. Len(Tail(bus)) :
           i + 1 \in 1 .. Len(bus) /\ Tail(bus)[i] = bus[i + 1] /\ Head(bus) < Tail(bus)[i]
  BY <1>2, TailIncreasing, LenProperties DEF Typed, BusOrdered
<1>4. consumer'.event = Head(bus) /\ consumer'.load = current
  BY <1>1
<1>5. consumer.event < Head(bus) /\ Head(bus) <= published
  BY <1>3 DEF BusOrdered
<1>6. Typed'
  BY <1>1, <1>2, <1>3, <1>4 DEF Typed
<1>7. BusOrdered'
  <2>1. Increasing(bus)'
    BY <1>2, <1>3 DEF Increasing
  <2> QED BY <1>2, <1>3, <1>4, <1>5, <2>1 DEF BusOrdered
<1>8. \A n \in Loads, h \in Hooks :
        /\ hook[n][h].event < Head(bus)
        /\ \A i \in 1 .. Len(queue[n][h]) : queue[n][h][i] < Head(bus)
  <2> SUFFICES ASSUME NEW n \in Loads, NEW h \in Hooks
               PROVE  /\ hook[n][h].event < Head(bus)
                      /\ \A i \in 1 .. Len(queue[n][h]) : queue[n][h][i] < Head(bus)
    OBVIOUS
  <2>1. hook[n][h].event \in Nat
    BY DEF Typed, HookState, Events
  <2>2. \A i \in 1 .. Len(queue[n][h]) : queue[n][h][i] \in Events
    BY ElementOfSeq DEF Typed
  <2>3. consumer.event \in Nat /\ Head(bus) \in Nat
    BY <1>3 DEF Typed, Events
  <2> QED BY <1>5, <2>1, <2>2, <2>3 DEF QueueOrdered, Events
<1>9. QueueOrdered'
  <2> SUFFICES ASSUME NEW n \in Loads, NEW h \in Hooks
               PROVE  /\ Increasing(queue[n][h])'
                      /\ hook[n][h].event <= Head(bus)
                      /\ \A i \in 1 .. Len(queue[n][h]) :
                           hook[n][h].event < queue[n][h][i] /\ queue[n][h][i] <= Head(bus)
    BY <1>2, <1>4 DEF QueueOrdered
  <2>1. Increasing(queue[n][h])'
    BY <1>2 DEF QueueOrdered, Increasing
  <2>2. hook[n][h].event \in Nat /\ Head(bus) \in Nat
    BY <1>3 DEF Typed, HookState, Events
  <2>3. hook[n][h].event <= Head(bus)
    BY <1>8, <2>2
  <2>4. \A i \in 1 .. Len(queue[n][h]) : queue[n][h][i] \in Events
    BY ElementOfSeq DEF Typed
  <2>5. \A i \in 1 .. Len(queue[n][h]) : queue[n][h][i] <= Head(bus)
    BY <1>8, <2>2, <2>4 DEF Events
  <2> QED BY <2>1, <2>3, <2>5 DEF QueueOrdered
<1>10. NotYetQueued'
  BY <1>2, <1>4, <1>8 DEF NotYetQueued, Typed
<1>11. LaterLoadsEmpty'
  BY <1>2, <1>4 DEF LaterLoadsEmpty, Typed, Loads
<1>12. ArrivedBounded' /\ OrderPerLoad'
  BY <1>2 DEF ArrivedBounded, OrderPerLoad
<1> QED BY <1>6, <1>7, <1>9, <1>10, <1>11, <1>12

LEMMA EnqueueOrder ==
  ASSUME OrderInv, NEW h \in Hooks, Enqueue(h) PROVE OrderInv'
<1> USE DEF OrderInv
<1> PICK n \in Loads, e \in Events \cup {0} : n = consumer.load /\ e = consumer.event
  BY DEF Typed
<1>1. /\ h \in consumer.todo
      /\ consumer' = [event |-> e, load |-> n, todo |-> consumer.todo \ {h}]
      /\ UNCHANGED <<current, hook, bus, published, arrived>>
  BY DEF Enqueue, Typed
<1>2. consumer'.event = e /\ consumer'.load = n /\ consumer'.todo \subseteq consumer.todo
      /\ h \notin consumer'.todo
  BY <1>1
<1>3. /\ hook[n][h].event < e
      /\ \A i \in 1 .. Len(queue[n][h]) : queue[n][h][i] < e
      /\ hook[n][h].event \in Nat
  BY <1>1 DEF NotYetQueued, Typed, HookState, Events
<1>4. e \in Events
  BY <1>3 DEF Events
<1>5. PICK q : /\ q = queue[n][h] \/ q = Append(queue[n][h], e)
               /\ queue' = [queue EXCEPT ![n][h] = q]
  BY <1>1 DEF Enqueue
<1>6. /\ queue[n][h] \in Seq(Events) /\ Increasing(queue[n][h])
      /\ Len(queue[n][h]) \in Nat /\ \A i \in 1 .. Len(queue[n][h]) : queue[n][h][i] \in Events
  BY ElementOfSeq, LenProperties DEF Typed, QueueOrdered
<1>7. q \in Seq(Events) /\ Increasing(q)
  BY <1>3, <1>4, <1>5, <1>6, AppendIncreasing
<1>8. \A i \in 1 .. Len(q) : hook[n][h].event < q[i] /\ q[i] <= e
  <2>1. CASE q = queue[n][h]
    BY <2>1 DEF QueueOrdered
  <2>2. CASE q = Append(queue[n][h], e)
    <3>1. /\ Len(q) = Len(queue[n][h]) + 1 /\ q[Len(queue[n][h]) + 1] = e
          /\ \A i \in 1 .. Len(queue[n][h]) : q[i] = queue[n][h][i]
      BY <1>4, <1>6, <2>2, AppendProperties
    <3>2. \A i \in 1 .. Len(queue[n][h]) : hook[n][h].event < q[i] /\ q[i] <= e
      BY <3>1 DEF QueueOrdered
    <3> QED BY <1>3, <1>4, <1>6, <3>1, <3>2 DEF Events
  <2> QED BY <1>5, <2>1, <2>2
<1>9. /\ queue'[n][h] = q
      /\ \A m \in Loads, k \in Hooks : m # n \/ k # h => queue'[m][k] = queue[m][k]
      /\ queue' \in [Loads -> [Hooks -> Seq(Events)]]
  BY <1>5, <1>7 DEF Typed
<1>10. Typed'
  BY <1>1, <1>2, <1>9 DEF Typed
<1>11. BusOrdered'
  BY <1>1, <1>2 DEF BusOrdered, Increasing
<1>12. QueueOrdered'
  <2> SUFFICES ASSUME NEW m \in Loads, NEW k \in Hooks
               PROVE  /\ Increasing(queue'[m][k])
                      /\ hook[m][k].event <= e
                      /\ \A i \in 1 .. Len(queue'[m][k]) :
                           hook[m][k].event < queue'[m][k][i] /\ queue'[m][k][i] <= e
    BY <1>1, <1>2 DEF QueueOrdered, Increasing
  <2>1. CASE m = n /\ k = h
    BY <1>7, <1>8, <1>9, <2>1 DEF QueueOrdered
  <2>2. CASE m # n \/ k # h
    BY <1>9, <2>2 DEF QueueOrdered
  <2> QED BY <2>1, <2>2
<1>13. NotYetQueued'
  <2> SUFFICES ASSUME NEW k \in Hooks, k \in consumer'.todo
               PROVE  /\ hook[n][k].event < e
                      /\ \A i \in 1 .. Len(queue'[n][k]) : queue'[n][k][i] < e
    BY <1>1, <1>2 DEF NotYetQueued
  <2>1. k # h /\ k \in consumer.todo
    BY <1>2
  <2>2. queue'[n][k] = queue[n][k]
    BY <1>9, <2>1
  <2> QED BY <2>1, <2>2 DEF NotYetQueued
<1>14. LaterLoadsEmpty'
  <2>1. n <= current /\ current \in Int /\ \A m \in Loads : m > current => m # n
    BY WebhookAssumption DEF LaterLoadsEmpty, Typed, Loads
  <2> QED BY <1>1, <1>2, <1>9, <2>1 DEF LaterLoadsEmpty
<1>15. ArrivedBounded' /\ OrderPerLoad'
  BY <1>1 DEF ArrivedBounded, OrderPerLoad
<1> QED BY <1>10, <1>11, <1>12, <1>13, <1>14, <1>15

LEMMA TakeJobOrder ==
  ASSUME OrderInv, NEW n \in Loads, NEW h \in Hooks, TakeJob(n, h) PROVE OrderInv'
<1> USE DEF OrderInv
<1> PICK q \in Seq(Events) : q = queue[n][h]
  BY DEF Typed
<1>1. /\ q # <<>> /\ hook' = [hook EXCEPT ![n][h] = Sending(hook[n][h], Head(q))]
      /\ queue' = [queue EXCEPT ![n][h] = Tail(q)]
      /\ UNCHANGED <<current, bus, consumer, published, arrived>>
  BY DEF TakeJob
<1>2. /\ Head(q) \in Events /\ Head(q) = q[1] /\ Tail(q) \in Seq(Events)
      /\ Increasing(Tail(q)) /\ 1 \in 1 .. Len(q)
      /\ \A i \in 1 .. Len(Tail(q)) :
           i + 1 \in 1 .. Len(q) /\ Tail(q)[i] = q[i + 1] /\ Head(q) < Tail(q)[i]
  BY <1>1, TailIncreasing, LenProperties DEF QueueOrdered
<1>3. hook[n][h] \in HookState /\ hook[n][h].event \in Int
  BY DEF Typed, HookState, Events
<1> PICK g \in HookState : g = Sending(hook[n][h], Head(q))
  BY <1>2, <1>3, StateTypes
<1>4. g.event = Head(q) /\ g.pc = "send"
  BY <1>2, <1>3, StateTypes
<1>5. /\ hook'[n][h] = g /\ queue'[n][h] = Tail(q)
      /\ \A m \in Loads, k \in Hooks :
           m # n \/ k # h => hook'[m][k] = hook[m][k] /\ queue'[m][k] = queue[m][k]
      /\ hook' \in [Loads -> [Hooks -> HookState]]
      /\ queue' \in [Loads -> [Hooks -> Seq(Events)]]
  BY <1>1, <1>2 DEF Typed
<1>6. /\ hook[n][h].event < Head(q) /\ Head(q) <= consumer.event
      /\ \A i \in 1 .. Len(Tail(q)) : Tail(q)[i] <= consumer.event
  BY <1>2 DEF QueueOrdered
<1>7. Typed'
  <2>1. \A m \in Loads, k \in Hooks : hook'[m][k].pc = "backoff" => hook'[m][k].attempt < MaxAttempts
    BY <1>4, <1>5 DEF Typed
  <2> QED BY <1>1, <1>5, <2>1 DEF Typed
<1>8. BusOrdered'
  BY <1>1 DEF BusOrdered, Increasing
<1>9. QueueOrdered'
  <2> SUFFICES ASSUME NEW m \in Loads, NEW k \in Hooks
               PROVE  /\ Increasing(queue'[m][k])
                      /\ hook'[m][k].event <= consumer.event
                      /\ \A i \in 1 .. Len(queue'[m][k]) :
                           /\ hook'[m][k].event < queue'[m][k][i]
                           /\ queue'[m][k][i] <= consumer.event
    BY <1>1 DEF QueueOrdered, Increasing
  <2>1. CASE m = n /\ k = h
    <3>1. queue'[m][k] = Tail(q) /\ hook'[m][k].event = Head(q)
      BY <1>4, <1>5, <2>1
    <3> QED BY <1>2, <1>6, <3>1
  <2>2. CASE m # n \/ k # h
    BY <1>5, <2>2 DEF QueueOrdered
  <2> QED BY <2>1, <2>2
<1>10. NotYetQueued'
  <2> SUFFICES ASSUME NEW k \in Hooks, k \in consumer.todo
               PROVE  /\ hook'[consumer.load][k].event < consumer.event
                      /\ \A i \in 1 .. Len(queue'[consumer.load][k]) :
                           queue'[consumer.load][k][i] < consumer.event
    BY <1>1 DEF NotYetQueued
  <2>1. CASE consumer.load = n /\ k = h
    <3>1. \A i \in 1 .. Len(q) : q[i] < consumer.event
      BY <2>1 DEF NotYetQueued
    <3>2. queue'[consumer.load][k] = Tail(q) /\ hook'[consumer.load][k].event = q[1]
      BY <1>2, <1>4, <1>5, <2>1
    <3>3. \A i \in 1 .. Len(Tail(q)) : Tail(q)[i] < consumer.event
      BY <1>2, <3>1
    <3> QED BY <1>2, <3>1, <3>2, <3>3
  <2>2. CASE consumer.load # n \/ k # h
    BY <1>5, <2>2 DEF NotYetQueued, Typed
  <2> QED BY <2>1, <2>2
<1>11. LaterLoadsEmpty'
  <2>1. n <= current /\ \A m \in Loads : m > current => m # n
    BY <1>1, WebhookAssumption DEF LaterLoadsEmpty, Typed, Loads
  <2> QED BY <1>1, <1>5, <2>1 DEF LaterLoadsEmpty
<1>12. \A m \in Loads, k \in Hooks : hook[m][k].event <= hook'[m][k].event
  <2> SUFFICES ASSUME NEW m \in Loads, NEW k \in Hooks
               PROVE  hook[m][k].event <= hook'[m][k].event
    OBVIOUS
  <2>1. hook[m][k] \in HookState
    BY DEF Typed
  <2>2. hook[m][k].event \in Int /\ Head(q) \in Int
    BY <1>2, <2>1 DEF HookState, Events
  <2>3. CASE m = n /\ k = h
    <3>1. hook'[m][k].event = Head(q) /\ hook[m][k].event < Head(q)
      BY <1>4, <1>5, <1>6, <2>3
    <3> QED BY <2>2, <3>1
  <2>4. CASE m # n \/ k # h
    BY <1>5, <2>2, <2>4
  <2> QED BY <2>3, <2>4
<1>13. ArrivedBounded' /\ OrderPerLoad'
  BY <1>1, <1>5, <1>12, NothingArrives
<1> QED BY <1>7, <1>8, <1>9, <1>10, <1>11, <1>13

LEMMA AttemptOrder ==
  ASSUME OrderInv, NEW n \in Loads, NEW h \in Hooks, Attempt(n, h) PROVE OrderInv'
<1> USE DEF OrderInv
<1> PICK g \in HookState : g = hook[n][h]
  BY DEF Typed
<1>1. /\ g.pc = "send" /\ UNCHANGED <<current, queue, bus, consumer, published>>
      /\ g.event \in Events \cup {0} /\ g.attempt \in 0 .. MaxAttempts
  BY DEF Attempt, HookState
<1>2. PICK pc \in {"select", "backoff"} :
        /\ hook' = [hook EXCEPT ![n][h] = [g EXCEPT !.pc = pc]]
        /\ pc = "backoff" => g.attempt # MaxAttempts
  BY DEF Attempt, Finished
<1> PICK t \in HookState : t = [g EXCEPT !.pc = pc]
  BY StateTypes
<1>3. t.event = g.event /\ (t.pc = "backoff" => t.attempt < MaxAttempts)
  BY <1>1, <1>2, WebhookAssumption DEF HookState
<1>4. /\ hook'[n][h] = t /\ hook' \in [Loads -> [Hooks -> HookState]]
      /\ \A m \in Loads, k \in Hooks : m # n \/ k # h => hook'[m][k] = hook[m][k]
  BY <1>2 DEF Typed
<1>5. n <= current /\ current \in Int /\ n \in Int
  <2>1. ~(n > current)
    BY <1>1, StateTypes DEF LaterLoadsEmpty
  <2> QED BY <2>1, WebhookAssumption DEF Typed, Loads
<1>6. \A m \in Loads, k \in Hooks :
        /\ hook'[m][k].event = hook[m][k].event
        /\ hook'[m][k] = hook[m][k] \/ m <= current
        /\ hook'[m][k].pc = "backoff" => hook'[m][k].attempt < MaxAttempts
  <2> SUFFICES ASSUME NEW m \in Loads, NEW k \in Hooks
               PROVE  /\ hook'[m][k].event = hook[m][k].event
                      /\ hook'[m][k] = hook[m][k] \/ m <= current
                      /\ hook'[m][k].pc = "backoff" => hook'[m][k].attempt < MaxAttempts
    OBVIOUS
  <2>1. CASE m = n /\ k = h
    <3>1. hook'[m][k] = t /\ hook[m][k] = g
      BY <1>4, <2>1
    <3> QED BY <1>3, <1>5, <2>1, <3>1
  <2>2. CASE m # n \/ k # h
    BY <1>4, <2>2 DEF Typed
  <2> QED BY <2>1, <2>2
<1> DEFINE a == <<n, g.event>>
<1>7. a \in Loads \X (Events \cup {0}) /\ a[1] = n /\ a[2] = g.event
  BY <1>1
<1>8. arrived' = arrived \/ arrived' = [arrived EXCEPT ![h] = Append(arrived[h], a)]
  BY DEF Attempt
<1> HIDE DEF a
<1>9. CASE arrived' = arrived
  <2>1. \A m \in Loads, k \in Hooks : hook[m][k].event <= hook'[m][k].event
    <3>1. \A m \in Loads, k \in Hooks : hook[m][k] \in HookState
      BY DEF Typed
    <3>2. \A m \in Loads, k \in Hooks : hook[m][k].event \in Int
      BY <3>1 DEF HookState, Events
    <3> QED BY <1>6, <3>2
  <2>2. arrived' \in [Hooks -> Seq(Loads \X (Events \cup {0}))]
    BY <1>9 DEF Typed
  <2>3. Typed' /\ BusOrdered' /\ QueueOrdered' /\ NotYetQueued' /\ LaterLoadsEmpty'
    BY <1>1, <1>4, <1>6, <2>2, HookFrame
  <2>4. ArrivedBounded' /\ OrderPerLoad'
    BY <1>1, <1>4, <1>9, <2>1, NothingArrives
  <2> QED BY <2>3, <2>4
<1>10. CASE arrived' = [arrived EXCEPT ![h] = Append(arrived[h], a)]
  <2> PICK s \in Seq(Loads \X (Events \cup {0})) : s = arrived[h]
    BY DEF Typed
  <2>1. /\ Append(s, a) \in Seq(Loads \X (Events \cup {0})) /\ Len(Append(s, a)) = Len(s) + 1
        /\ \A i \in 1 .. Len(s) : Append(s, a)[i] = s[i]
        /\ Append(s, a)[Len(s) + 1] = a /\ Len(s) \in Nat
    BY <1>7, AppendProperties, LenProperties
  <2>2. /\ arrived' \in [Hooks -> Seq(Loads \X (Events \cup {0}))] /\ arrived'[h] = Append(s, a)
        /\ \A k \in Hooks : k # h => arrived'[k] = arrived[k]
    BY <1>10, <2>1 DEF Typed
  <2>3. Typed' /\ BusOrdered' /\ QueueOrdered' /\ NotYetQueued' /\ LaterLoadsEmpty'
    BY <1>1, <1>4, <1>6, <2>2, HookFrame
  <2>4. \A i \in 1 .. Len(s) : s[i][1] <= current /\ s[i][2] <= hook[s[i][1]][h].event
                               /\ s[i][1] \in Loads
    BY ElementOfSeq DEF ArrivedBounded
  <2>5. ArrivedBounded'
    <3> SUFFICES ASSUME NEW k \in Hooks, NEW i \in 1 .. Len(arrived'[k])
                 PROVE  /\ arrived'[k][i][1] <= current
                        /\ arrived'[k][i][2] <= hook'[arrived'[k][i][1]][k].event
      BY <1>1 DEF ArrivedBounded
    <3>1. CASE k # h
      <4>1. arrived'[k] = arrived[k] /\ arrived[k][i] \in Loads \X (Events \cup {0})
        BY <2>2, <3>1, ElementOfSeq DEF Typed
      <4> QED BY <1>6, <4>1 DEF ArrivedBounded
    <3>2. CASE k = h /\ i <= Len(s)
      <4>1. i \in 1 .. Len(s) /\ arrived'[k][i] = s[i]
        BY <2>1, <2>2, <3>2
      <4> QED BY <1>6, <2>4, <3>2, <4>1
    <3>3. CASE k = h /\ i = Len(s) + 1
      <4>1. arrived'[k][i] = a /\ hook'[n][h].event = g.event /\ g.event \in Int
        BY <1>1, <1>3, <1>4, <2>1, <2>2, <3>3 DEF Events
      <4> QED BY <1>5, <1>7, <3>3, <4>1
    <3> QED BY <2>1, <2>2, <3>1, <3>2, <3>3
  <2>6. OrderPerLoad'
    <3> SUFFICES ASSUME NEW k \in Hooks, NEW i \in 1 .. Len(arrived'[k]),
                        NEW j \in 1 .. Len(arrived'[k]), i < j,
                        arrived'[k][i][1] = arrived'[k][j][1]
                 PROVE  arrived'[k][i][2] <= arrived'[k][j][2]
      BY DEF OrderPerLoad
    <3>1. CASE k # h
      BY <2>2, <3>1 DEF OrderPerLoad
    <3>2. CASE k = h /\ j <= Len(s)
      <4>1. i \in 1 .. Len(s) /\ j \in 1 .. Len(s)
        BY <2>1, <2>2, <3>2
      <4>2. arrived'[h][i] = s[i] /\ arrived'[h][j] = s[j]
        BY <2>1, <2>2, <4>1
      <4> QED BY <3>2, <4>1, <4>2 DEF OrderPerLoad
    <3>3. CASE k = h /\ j = Len(s) + 1
      <4>1. i \in 1 .. Len(s) /\ arrived'[h][i] = s[i] /\ arrived'[h][j] = a
        BY <2>1, <2>2, <3>3
      <4> QED BY <1>7, <2>4, <3>3, <4>1
    <3> QED BY <2>1, <2>2, <3>1, <3>2, <3>3
  <2> QED BY <2>3, <2>5, <2>6
<1> QED BY <1>8, <1>9, <1>10

\* SeeStop, Exit and Backoff: one goroutine moves and keeps its event.
LEMMA QuietHookOrder ==
  ASSUME OrderInv, NEW n \in Loads, NEW h \in Hooks,
         SeeStop(n, h) \/ Exit(n, h) \/ Backoff(n, h)
  PROVE  OrderInv'
<1> USE DEF OrderInv
<1> PICK g \in HookState : g = hook[n][h]
  BY DEF Typed
<1>1. /\ g.pc \in {"select", "backoff"}
      /\ UNCHANGED <<current, queue, bus, consumer, published, arrived>>
  BY DEF SeeStop, Exit, Backoff
<1>2. /\ g.attempt \in Nat /\ MaxAttempts \in Nat
      /\ g.pc = "backoff" => g.attempt < MaxAttempts
  BY WebhookAssumption DEF Typed, HookState
<1>3. PICK t \in HookState : /\ hook' = [hook EXCEPT ![n][h] = t]
                             /\ t.event = g.event /\ t.pc # "backoff"
  <2>1. CASE SeeStop(n, h)
    <3>1. [g EXCEPT !.draining = TRUE] \in HookState
      BY DEF HookState
    <3> QED BY <2>1, <3>1 DEF SeeStop, HookState
  <2>2. CASE Exit(n, h)
    <3>1. [g EXCEPT !.pc = "exited"] \in HookState
      BY DEF HookState
    <3> QED BY <2>2, <3>1 DEF Exit, HookState
  <2>3. CASE Backoff(n, h) /\ hook' = [hook EXCEPT ![n][h].pc = "select"]
    <3>1. [g EXCEPT !.pc = "select"] \in HookState
      BY DEF HookState
    <3> QED BY <2>3, <3>1 DEF HookState
  <2>4. CASE Backoff(n, h) /\ hook' = [hook EXCEPT ![n][h] = Retrying(g)]
    <3>1. g.attempt + 1 \in 0 .. MaxAttempts
      BY <1>2, <2>4 DEF Backoff
    <3>2. /\ Retrying(g) \in HookState /\ Retrying(g).event = g.event
          /\ Retrying(g).pc # "backoff"
      BY <3>1 DEF HookState, Retrying
    <3> QED BY <2>4, <3>2
  <2> QED BY <2>1, <2>2, <2>3, <2>4 DEF Backoff
<1>4. /\ hook'[n][h] = t /\ hook' \in [Loads -> [Hooks -> HookState]]
      /\ \A m \in Loads, k \in Hooks : m # n \/ k # h => hook'[m][k] = hook[m][k]
  BY <1>3 DEF Typed
<1>5. n <= current
  <2>1. ~(n > current)
    BY <1>1, StateTypes DEF LaterLoadsEmpty
  <2> QED BY <2>1, WebhookAssumption DEF Typed, Loads
<1>6. \A m \in Loads, k \in Hooks :
        /\ hook'[m][k].event = hook[m][k].event
        /\ hook'[m][k] = hook[m][k] \/ m <= current
        /\ hook'[m][k].pc = "backoff" => hook'[m][k].attempt < MaxAttempts
  <2> SUFFICES ASSUME NEW m \in Loads, NEW k \in Hooks
               PROVE  /\ hook'[m][k].event = hook[m][k].event
                      /\ hook'[m][k] = hook[m][k] \/ m <= current
                      /\ hook'[m][k].pc = "backoff" => hook'[m][k].attempt < MaxAttempts
    OBVIOUS
  <2>1. CASE m = n /\ k = h
    BY <1>3, <1>4, <1>5, <2>1
  <2>2. CASE m # n \/ k # h
    BY <1>4, <2>2 DEF Typed
  <2> QED BY <2>1, <2>2
<1>7. \A m \in Loads, k \in Hooks : hook[m][k].event <= hook'[m][k].event
  <2>1. \A m \in Loads, k \in Hooks : hook[m][k] \in HookState
    BY DEF Typed
  <2>2. \A m \in Loads, k \in Hooks : hook[m][k].event \in Int
    BY <2>1 DEF HookState, Events
  <2> QED BY <1>6, <2>2
<1>8. arrived' \in [Hooks -> Seq(Loads \X (Events \cup {0}))]
  BY <1>1 DEF Typed
<1>9. Typed' /\ BusOrdered' /\ QueueOrdered' /\ NotYetQueued' /\ LaterLoadsEmpty'
  BY <1>1, <1>4, <1>6, <1>8, HookFrame
<1>10. ArrivedBounded' /\ OrderPerLoad'
  BY <1>1, <1>4, <1>7, NothingArrives
<1> QED BY <1>9, <1>10

LEMMA InstallOrder ==
  ASSUME OrderInv, NEW q \in Requests, Install(q) PROVE OrderInv'
<1> USE DEF OrderInv
<1> PICK n : n = current + 1
  OBVIOUS
<1>1. /\ n \in Loads /\ n > current /\ current' = n /\ n \in Int /\ current \in Int
      /\ UNCHANGED <<queue, bus, consumer, published, arrived>>
      /\ \A m \in Loads : m <= current => m # n /\ m <= n
      /\ \A m \in Loads : m > n => m # n /\ m > current
  BY WebhookAssumption DEF Install, Typed, Loads
<1>2. PICK f \in [Hooks -> {Started, NoHook}] : hook' = [hook EXCEPT ![n] = f]
  BY DEF Install
<1>3. /\ hook'[n] = f /\ hook' \in [Loads -> [Hooks -> HookState]]
      /\ \A m \in Loads : m # n => hook'[m] = hook[m]
      /\ \A k \in Hooks : f[k].event = 0 /\ f[k].pc # "backoff"
  <2>1. \A k \in Hooks : f[k] \in HookState /\ f[k].event = 0 /\ f[k].pc # "backoff"
    BY StateTypes
  <2> QED BY <1>1, <1>2, <2>1 DEF Typed
<1>4. Typed'
  <2>1. \A m \in Loads, k \in Hooks : hook'[m][k].pc = "backoff" => hook'[m][k].attempt < MaxAttempts
    BY <1>3 DEF Typed
  <2> QED BY <1>1, <1>3, <2>1 DEF Typed
<1>5. BusOrdered'
  BY <1>1 DEF BusOrdered, Increasing
<1>6. QueueOrdered'
  <2> SUFFICES ASSUME NEW m \in Loads, NEW k \in Hooks
               PROVE  /\ Increasing(queue[m][k])
                      /\ hook'[m][k].event <= consumer.event
                      /\ \A i \in 1 .. Len(queue[m][k]) :
                           hook'[m][k].event < queue[m][k][i] /\ queue[m][k][i] <= consumer.event
    BY <1>1 DEF QueueOrdered, Increasing
  <2>1. CASE m = n
    <3>1. queue[m][k] = <<>> /\ Len(queue[m][k]) = 0
      BY <1>1, <2>1 DEF LaterLoadsEmpty
    <3>2. hook'[m][k].event = 0 /\ 0 <= consumer.event
      BY <1>3, <2>1 DEF Typed, Events
    <3> QED BY <3>1, <3>2 DEF QueueOrdered
  <2>2. CASE m # n
    BY <1>3, <2>2 DEF QueueOrdered
  <2> QED BY <2>1, <2>2
<1>7. NotYetQueued'
  <2>1. consumer.load \in Loads /\ consumer.load <= current
    BY DEF LaterLoadsEmpty, Typed
  <2>2. hook'[consumer.load] = hook[consumer.load]
    BY <1>1, <1>3, <2>1
  <2> QED BY <1>1, <2>2 DEF NotYetQueued
<1>8. LaterLoadsEmpty'
  <2>1. consumer.load <= n
    BY <1>1 DEF LaterLoadsEmpty, Typed
  <2> QED BY <1>1, <1>3, <2>1 DEF LaterLoadsEmpty
<1>9. ArrivedBounded'
  <2> SUFFICES ASSUME NEW k \in Hooks, NEW i \in 1 .. Len(arrived[k])
               PROVE  /\ arrived[k][i][1] <= n
                      /\ arrived[k][i][2] <= hook'[arrived[k][i][1]][k].event
    BY <1>1 DEF ArrivedBounded
  <2>1. arrived[k][i] \in Loads \X (Events \cup {0})
    BY ElementOfSeq DEF Typed
  <2>2. arrived[k][i][1] \in Loads /\ arrived[k][i][1] <= current
    BY <2>1 DEF ArrivedBounded
  <2>3. hook'[arrived[k][i][1]] = hook[arrived[k][i][1]] /\ arrived[k][i][1] <= n
    BY <1>1, <1>3, <2>2
  <2> QED BY <2>3 DEF ArrivedBounded
<1>10. OrderPerLoad'
  BY <1>1 DEF OrderPerLoad
<1> QED BY <1>4, <1>5, <1>6, <1>7, <1>8, <1>9, <1>10

\* A step that leaves the way of the events alone.
LEMMA OrderFrame ==
  ASSUME OrderInv, UNCHANGED <<current, hook, queue, bus, consumer, published, arrived>>
  PROVE  OrderInv'
BY DEF OrderInv, Typed, BusOrdered, Increasing, QueueOrdered, NotYetQueued, LaterLoadsEmpty,
       ArrivedBounded, OrderPerLoad

LEMMA OrderInvStep == OrderInv /\ [Next]_vars => OrderInv'
<1> SUFFICES ASSUME OrderInv, [Next]_vars PROVE OrderInv'
  OBVIOUS
<1>1. CASE Publish
  BY <1>1, PublishOrder
<1>2. CASE Receive
  BY <1>2, ReceiveOrder
<1>3. CASE \E h \in Hooks : Enqueue(h)
  BY <1>3, EnqueueOrder
<1>4. CASE \E n \in Loads, h \in Hooks : HookStep(n, h)
  BY <1>4, TakeJobOrder, AttemptOrder, QuietHookOrder DEF HookStep
<1>5. CASE \E q \in Requests, h \in Hooks :
             CreateWebhook(q, h) \/ DeleteWebhook(q, h) \/ ReadWebhook(q, h)
  BY <1>5, OrderFrame DEF CreateWebhook, DeleteWebhook, ReadWebhook
<1>6. CASE \E q \in Requests : RequestStep(q)
  <2>1. ASSUME NEW q \in Requests, UpdateWebhook(q) \/ ListEnabledWebhooks(q) \/ Respond(q)
        PROVE  OrderInv'
    BY <2>1, OrderFrame DEF UpdateWebhook, ListEnabledWebhooks, Respond
  <2> QED BY <1>6, <2>1, InstallOrder DEF RequestStep
<1>7. CASE UNCHANGED vars
  BY <1>7, OrderFrame DEF vars
<1> QED BY <1>1, <1>2, <1>3, <1>4, <1>5, <1>6, <1>7 DEF Next

\* What one goroutine of runWebhookWorker delivers reaches the endpoint in the
\* order of the broadcasts, in every behaviour.
THEOREM OrderPerLoadCorrect == Spec => []OrderPerLoad
<1>1. Init => OrderInv
  BY OrderInvInit
<1>2. OrderInv /\ [Next]_vars => OrderInv'
  BY OrderInvStep
<1>3. OrderInv => OrderPerLoad
  BY DEF OrderInv
<1> QED BY <1>1, <1>2, <1>3, PTL DEF Spec

-----------------------------------------------------------------------------
(* Types. *)

\* A goroutine that delivers has an event to deliver, one that waits to retry
\* has an attempt left, and the consumer has an event as long as it has targets.
Busy ==
  /\ \A n \in Loads, h \in Hooks :
       /\ hook[n][h].pc \in {"send", "backoff"} => hook[n][h].event \in Events
       /\ hook[n][h].pc = "backoff" => hook[n][h].attempt < MaxAttempts
  /\ consumer.todo # {} => consumer.event \in Events

TypeInv == TypeOK /\ Busy

\* The states of a goroutine after each of its steps.
LEMMA HookMoves ==
  ASSUME NEW g \in HookState
  PROVE  /\ \A e \in Events : LET t == Sending(g, e) IN
              /\ t \in HookState /\ t.pc = "send" /\ t.event = e /\ t.draining = g.draining
         /\ \A pc \in {"select", "backoff", "exited"} : LET t == [g EXCEPT !.pc = pc] IN
              /\ t \in HookState /\ t.pc = pc /\ t.event = g.event
              /\ t.attempt = g.attempt /\ t.draining = g.draining
         /\ LET t == [g EXCEPT !.draining = TRUE] IN
              /\ t \in HookState /\ t.pc = g.pc /\ t.event = g.event /\ t.draining
         /\ g.attempt < MaxAttempts =>
              LET t == Retrying(g) IN
              /\ t \in HookState /\ t.pc = "send" /\ t.event = g.event
              /\ t.draining = g.draining
<1>1. \A e \in Events : LET t == Sending(g, e) IN
        /\ t \in HookState /\ t.pc = "send" /\ t.event = e /\ t.draining = g.draining
  BY WebhookAssumption DEF HookState, Sending
<1>2. \A pc \in {"select", "backoff", "exited"} : LET t == [g EXCEPT !.pc = pc] IN
        /\ t \in HookState /\ t.pc = pc /\ t.event = g.event
        /\ t.attempt = g.attempt /\ t.draining = g.draining
  BY DEF HookState
<1>3. LET t == [g EXCEPT !.draining = TRUE] IN
        /\ t \in HookState /\ t.pc = g.pc /\ t.event = g.event /\ t.draining
  BY DEF HookState
<1>4. ASSUME g.attempt < MaxAttempts
      PROVE  LET t == Retrying(g) IN
             /\ t \in HookState /\ t.pc = "send" /\ t.event = g.event
             /\ t.draining = g.draining
  BY <1>4, WebhookAssumption DEF HookState, Retrying
<1> QED BY <1>1, <1>2, <1>3, <1>4


\* SeeStop, Exit and Backoff move one goroutine, which keeps its event.
LEMMA QuietMoves ==
  ASSUME TypeInv, NEW n \in Loads, NEW h \in Hooks,
         SeeStop(n, h) \/ Exit(n, h) \/ Backoff(n, h)
  PROVE  \E t \in HookState :
           /\ hook' = [hook EXCEPT ![n][h] = t]
           /\ t.event = hook[n][h].event
           /\ t.pc = "send" => hook[n][h].pc = "backoff"
           /\ t.pc # "backoff"
           /\ t.pc = "exited" /\ t.draining => queue[n][h] = <<>> /\ hook[n][h].draining
           /\ t.draining => hook[n][h].draining \/ Stopped(n)
           /\ UNCHANGED <<rows, request, current, loaded, cancelled, queue, bus, consumer,
                          published, arrived, history>>
<1> PICK g \in HookState : g = hook[n][h]
  BY DEF TypeInv, TypeOK
<1>0. g.pc = "backoff" => g.attempt < MaxAttempts
  BY DEF TypeInv, Busy
<1>1. CASE SeeStop(n, h)
  <2> PICK t \in HookState : t = [g EXCEPT !.draining = TRUE]
    BY HookMoves
  <2>1. t.event = g.event /\ t.pc = g.pc
    BY HookMoves
  <2>2. /\ hook' = [hook EXCEPT ![n][h] = t] /\ g.pc = "select" /\ Stopped(n)
        /\ UNCHANGED <<rows, request, current, loaded, cancelled, queue, bus, consumer,
                       published, arrived, history>>
    BY <1>1 DEF SeeStop
  <2> QED BY <2>1, <2>2
<1>2. CASE Exit(n, h)
  <2> PICK t \in HookState : t = [g EXCEPT !.pc = "exited"]
    BY HookMoves
  <2>1. t.event = g.event /\ t.pc = "exited" /\ t.draining = g.draining
    BY HookMoves
  <2>2. /\ hook' = [hook EXCEPT ![n][h] = t] /\ g.pc = "select"
        /\ g.draining => queue[n][h] = <<>>
        /\ UNCHANGED <<rows, request, current, loaded, cancelled, queue, bus, consumer,
                       published, arrived, history>>
    BY <1>2 DEF Exit
  <2> QED BY <2>1, <2>2
<1>3. CASE Backoff(n, h) /\ hook' = [hook EXCEPT ![n][h] = Retrying(g)]
  <2>1. g.pc = "backoff" /\ UNCHANGED <<rows, request, current, loaded, cancelled, queue, bus,
                                       consumer, published, arrived, history>>
    BY <1>3 DEF Backoff
  <2> PICK t \in HookState : t = Retrying(g)
    BY <1>0, <2>1, HookMoves
  <2>2. t.event = g.event /\ t.pc = "send" /\ t.draining = g.draining
    BY <1>0, <2>1, HookMoves
  <2> QED BY <1>3, <2>1, <2>2
<1>4. CASE Backoff(n, h) /\ hook' = [hook EXCEPT ![n][h].pc = "select"]
  <2> PICK t \in HookState : t = [g EXCEPT !.pc = "select"]
    BY HookMoves
  <2>1. t.event = g.event /\ t.pc = "select" /\ t.draining = g.draining
    BY HookMoves
  <2>2. /\ hook' = [hook EXCEPT ![n][h] = t] /\ g.pc = "backoff"
        /\ UNCHANGED <<rows, request, current, loaded, cancelled, queue, bus, consumer,
                       published, arrived, history>>
    BY <1>4 DEF Backoff
  <2> QED BY <2>1, <2>2
<1> QED BY <1>1, <1>2, <1>3, <1>4 DEF Backoff

\* TakeJob moves the head of the queue to the goroutine.
LEMMA TakeJobMoves ==
  ASSUME TypeInv, NEW n \in Loads, NEW h \in Hooks, TakeJob(n, h)
  PROVE  \E t \in HookState :
           /\ hook' = [hook EXCEPT ![n][h] = t]
           /\ t.pc = "send" /\ t.event = Head(queue[n][h]) /\ t.event \in Events
           /\ hook[n][h].pc = "select" /\ t.draining = hook[n][h].draining
           /\ queue[n][h] # <<>> /\ queue' = [queue EXCEPT ![n][h] = Tail(queue[n][h])]
           /\ UNCHANGED <<rows, request, current, loaded, cancelled, bus, consumer,
                          published, arrived, history>>
<1> PICK g \in HookState : g = hook[n][h]
  BY DEF TypeInv, TypeOK
<1> PICK e \in Events : e = Head(queue[n][h])
  BY HeadTailProperties DEF TypeInv, TypeOK, TakeJob
<1> PICK t \in HookState : t = Sending(g, e)
  BY HookMoves
<1>1. t.pc = "send" /\ t.event = e /\ t.draining = g.draining
  BY DEF Sending
<1> QED BY <1>1 DEF TakeJob

\* Attempt records what arrived and, when it was the last, may record a row.
LEMMA AttemptMoves ==
  ASSUME TypeInv, NEW n \in Loads, NEW h \in Hooks, Attempt(n, h)
  PROVE  \E t \in HookState :
           /\ hook' = [hook EXCEPT ![n][h] = t]
           /\ t.event = hook[n][h].event /\ t.event \in Events
           /\ hook[n][h].pc = "send" /\ t.draining = hook[n][h].draining
           /\ t.pc = "select" \/ (t.pc = "backoff" /\ t.attempt < MaxAttempts)
           /\ arrived' = arrived \/
              arrived' = [arrived EXCEPT ![h] = Append(arrived[h], <<n, t.event>>)]
           /\ history' = history \/
              (/\ t.pc = "select"
               /\ history' = [history EXCEPT ![h][t.event] = IF @ < MaxAttempts THEN @ + 1 ELSE @])
           /\ UNCHANGED <<rows, request, current, loaded, cancelled, queue, bus, consumer,
                          published>>
<1> PICK g \in HookState : g = hook[n][h]
  BY DEF TypeInv, TypeOK
<1>1. PICK outcome \in {"ok", "reject", "fail", "lost"}, final \in BOOLEAN :
        /\ final = (outcome \in {"ok", "reject"} \/ g.attempt = MaxAttempts)
        /\ hook' = [hook EXCEPT ![n][h] = IF final THEN Finished(g) ELSE [g EXCEPT !.pc = "backoff"]]
        /\ arrived' = IF outcome \in {"ok", "lost"}
                      THEN [arrived EXCEPT ![h] = Append(@, <<n, g.event>>)] ELSE arrived
        /\ SaveHistory(n, h, g.event, final)
  BY Zenon DEF Attempt
<1>2. g.pc = "send" /\ g.event \in Events /\ UNCHANGED <<rows, request, current, loaded,
        cancelled, queue, bus, consumer, published>>
  BY DEF Attempt, TypeInv, Busy
<1> PICK t \in HookState : t = IF final THEN Finished(g) ELSE [g EXCEPT !.pc = "backoff"]
  BY HookMoves DEF Finished
<1>3. /\ t.event = g.event /\ t.draining = g.draining /\ t.attempt = g.attempt
      /\ t.pc = IF final THEN "select" ELSE "backoff"
  BY HookMoves DEF Finished
<1>4. ~final => g.attempt < MaxAttempts
  <2>1. g.attempt \in 0 .. MaxAttempts /\ MaxAttempts \in Nat
    BY WebhookAssumption DEF HookState
  <2>2. ~final => g.attempt # MaxAttempts
    BY <1>1, Zenon
  <2> QED BY <2>1, <2>2
<1>5. arrived' = arrived \/ arrived' = [arrived EXCEPT ![h] = Append(arrived[h], <<n, t.event>>)]
  BY <1>1, <1>3
<1>6. history' = history \/
        (/\ t.pc = "select"
         /\ history' = [history EXCEPT ![h][t.event] = IF @ < MaxAttempts THEN @ + 1 ELSE @])
  BY <1>1, <1>3 DEF SaveHistory
<1>7. t.pc = "select" \/ (t.pc = "backoff" /\ t.attempt < MaxAttempts)
  BY <1>3, <1>4
<1> QED BY <1>1, <1>2, <1>3, <1>5, <1>6, <1>7

\* The consumer deals with hook h: the queue of load n becomes q, with or
\* without the event e.
Enqueued(h, n, e, q) ==
  /\ n = consumer.load /\ e = consumer.event /\ h \in consumer.todo
  /\ queue' \in [Loads -> [Hooks -> Seq(Events)]] /\ queue'[n][h] = q
  /\ \A m \in Loads, k \in Hooks : m # n \/ k # h => queue'[m][k] = queue[m][k]
  /\ q = queue[n][h] \/ (Len(queue[n][h]) < QueueSize /\ q = Append(queue[n][h], e))
  /\ consumer' \in Consumer /\ consumer'.load = n /\ consumer'.event = e
  /\ consumer'.todo = consumer.todo \ {h}
  /\ UNCHANGED <<rows, request, current, loaded, cancelled, hook, bus, published,
                 arrived, history>>

\* Enqueue puts the event on the queue or drops it.
LEMMA EnqueueMoves ==
  ASSUME TypeInv, NEW h \in Hooks, Enqueue(h)
  PROVE  \E n \in Loads, e \in Events, q \in Seq(Events) : Enqueued(h, n, e, q)
<1> PICK n \in Loads, e \in Events : n = consumer.load /\ e = consumer.event
  BY DEF TypeInv, TypeOK, Busy, Consumer, Enqueue
<1>1. /\ h \in consumer.todo
      /\ queue' = [queue EXCEPT ![n][h] = IF Len(@) < QueueSize THEN Append(@, e) ELSE @]
      /\ consumer' = [consumer EXCEPT !.todo = @ \ {h}]
      /\ UNCHANGED <<rows, request, current, loaded, cancelled, hook, bus, published,
                     arrived, history>>
  BY DEF Enqueue
<1>2. queue[n][h] \in Seq(Events)
  BY DEF TypeInv, TypeOK
<1> PICK q \in Seq(Events) :
      q = IF Len(queue[n][h]) < QueueSize THEN Append(queue[n][h], e) ELSE queue[n][h]
  BY <1>2, AppendProperties
<1>3. queue' = [queue EXCEPT ![n][h] = q]
  BY <1>1
<1>4. /\ queue'[n][h] = q /\ queue' \in [Loads -> [Hooks -> Seq(Events)]]
      /\ \A m \in Loads, k \in Hooks : m # n \/ k # h => queue'[m][k] = queue[m][k]
  BY <1>3 DEF TypeInv, TypeOK
<1>5. /\ consumer' \in Consumer /\ consumer'.load = n /\ consumer'.event = e
      /\ consumer'.todo = consumer.todo \ {h}
  BY <1>1 DEF TypeInv, TypeOK, Consumer
<1> QED BY <1>1, <1>3, <1>4, <1>5 DEF Enqueued

\* Receive makes the head of the bus the consumer's event.
LEMMA ReceiveMoves ==
  ASSUME TypeInv, Receive
  PROVE  /\ consumer' \in Consumer /\ consumer'.load = current
         /\ consumer'.event = Head(bus) /\ Head(bus) \in Events
         /\ consumer.todo = {} /\ bus # <<>> /\ bus' = Tail(bus)
         /\ UNCHANGED <<rows, request, current, loaded, cancelled, hook, queue, published,
                        arrived, history>>
<1>1. PICK wanted \in SUBSET loaded[current] :
        consumer' = [event |-> Head(bus), load |-> current, todo |-> wanted]
  BY DEF Receive
<1>2. Head(bus) \in Events
  BY HeadTailProperties DEF Receive, TypeInv, TypeOK
<1>3. wanted \subseteq Hooks /\ current \in Loads
  BY DEF TypeInv, TypeOK
<1> QED BY <1>1, <1>2, <1>3 DEF Receive, Consumer

\* Install starts the goroutines of a load that had none.
LEMMA InstallMoves ==
  ASSUME TypeInv, NEW q \in Requests, Install(q)
  PROVE  /\ current + 1 \in Loads /\ current' = current + 1
         /\ hook' \in [Loads -> [Hooks -> HookState]]
         /\ \A k \in Hooks : hook'[current + 1][k] \in {Started, NoHook}
         /\ \A m \in Loads : m # current + 1 => hook'[m] = hook[m]
         /\ loaded' \in [Loads -> SUBSET Hooks] /\ request' \in [Requests -> RequestState]
         /\ UNCHANGED <<rows, cancelled, queue, bus, consumer, published, arrived, history>>
<1> DEFINE n == current + 1
           f == [h \in Hooks |-> IF h \in request[q].list THEN Started ELSE NoHook]
<1>1. n \in Loads
  BY WebhookAssumption DEF Install, TypeInv, TypeOK, Loads
<1>2. /\ current' = n /\ hook' = [hook EXCEPT ![n] = f]
      /\ loaded' = [loaded EXCEPT ![n] = request[q].list]
      /\ request' = [request EXCEPT ![q].pc = "respond", ![q].load = n]
      /\ UNCHANGED <<rows, cancelled, queue, bus, consumer, published, arrived, history>>
  BY DEF Install
<1>3. f \in [Hooks -> HookState] /\ \A k \in Hooks : f[k] \in {Started, NoHook}
  BY StateTypes
<1>4. /\ hook' \in [Loads -> [Hooks -> HookState]] /\ hook'[n] = f
      /\ \A m \in Loads : m # n => hook'[m] = hook[m]
  <2> HIDE DEF f, n
  <2> QED BY <1>1, <1>2, <1>3 DEF TypeInv, TypeOK
<1>5. request[q].list \subseteq Hooks
  BY DEF TypeInv, TypeOK, RequestState
<1>6. loaded' \in [Loads -> SUBSET Hooks]
  BY <1>2, <1>5 DEF TypeInv, TypeOK
<1>7. request' \in [Requests -> RequestState]
  <2>1. \A r \in RequestState : [r EXCEPT !.pc = "respond"] \in RequestState
    BY DEF RequestState
  <2>2. \A r \in RequestState : [r EXCEPT !.load = n] \in RequestState
    BY <1>1 DEF RequestState
  <2>3. request[q] \in RequestState
    BY DEF TypeInv, TypeOK
  <2> HIDE DEF n
  <2>4. [request EXCEPT ![q].pc = "respond"] \in [Requests -> RequestState]
    BY <2>1, <2>3 DEF TypeInv, TypeOK
  <2> QED BY <1>2, <2>2, <2>4
<1> QED BY <1>1, <1>2, <1>3, <1>4, <1>6, <1>7

\* A step of goroutines keeps the types when the moved one is well typed.
LEMMA HookTypeFrame ==
  ASSUME TypeInv, UNCHANGED <<rows, request, current, loaded, cancelled, bus, consumer, published>>,
         NEW n \in Loads, NEW h \in Hooks, NEW t \in HookState,
         hook' = [hook EXCEPT ![n][h] = t],
         t.pc \in {"send", "backoff"} => t.event \in Events,
         t.pc = "backoff" => t.attempt < MaxAttempts,
         queue' \in [Loads -> [Hooks -> Seq(Events)]],
         \A m \in Loads, k \in Hooks : Len(queue'[m][k]) <= QueueSize,
         arrived' \in [Hooks -> Seq(Loads \X Events)],
         history' \in [Hooks -> [Events -> 0 .. MaxAttempts]]
  PROVE  TypeInv'
<1>1. /\ hook' \in [Loads -> [Hooks -> HookState]] /\ hook'[n][h] = t
      /\ \A m \in Loads, k \in Hooks : m # n \/ k # h => hook'[m][k] = hook[m][k]
  BY DEF TypeInv, TypeOK
<1>2. TypeOK'
  BY <1>1 DEF TypeInv, TypeOK
<1>3. Busy'
  BY <1>1 DEF TypeInv, Busy
<1> QED BY <1>2, <1>3 DEF TypeInv

\* Every step of a goroutine keeps the types.
LEMMA HookStepType ==
  ASSUME TypeInv, NEW n \in Loads, NEW h \in Hooks, HookStep(n, h) PROVE TypeInv'
<1>0. /\ queue \in [Loads -> [Hooks -> Seq(Events)]]
      /\ \A m \in Loads, k \in Hooks : Len(queue[m][k]) <= QueueSize
      /\ arrived \in [Hooks -> Seq(Loads \X Events)]
      /\ history \in [Hooks -> [Events -> 0 .. MaxAttempts]]
  BY DEF TypeInv, TypeOK
<1>1. CASE TakeJob(n, h)
  <2> PICK t \in HookState :
        /\ hook' = [hook EXCEPT ![n][h] = t]
        /\ t.pc = "send" /\ t.event \in Events
        /\ queue[n][h] # <<>> /\ queue' = [queue EXCEPT ![n][h] = Tail(queue[n][h])]
        /\ UNCHANGED <<rows, request, current, loaded, cancelled, bus, consumer, published,
                       arrived, history>>
    BY <1>1, TakeJobMoves
  <2> PICK q \in Seq(Events) : q = queue[n][h]
    BY <1>0
  <2>1. Tail(q) \in Seq(Events) /\ Len(Tail(q)) = Len(q) - 1 /\ Len(q) \in Nat
    BY HeadTailProperties, LenProperties
  <2>2. Len(Tail(q)) <= QueueSize
    BY <1>0, <2>1, WebhookAssumption
  <2>3. /\ queue' \in [Loads -> [Hooks -> Seq(Events)]] /\ queue'[n][h] = Tail(q)
        /\ \A m \in Loads, k \in Hooks : m # n \/ k # h => queue'[m][k] = queue[m][k]
    BY <1>0, <2>1
  <2>4. \A m \in Loads, k \in Hooks : Len(queue'[m][k]) <= QueueSize
    BY <1>0, <2>2, <2>3
  <2> QED BY <1>0, <2>3, <2>4, HookTypeFrame
<1>2. CASE Attempt(n, h)
  <2> PICK t \in HookState :
        /\ hook' = [hook EXCEPT ![n][h] = t] /\ t.event \in Events
        /\ t.pc = "select" \/ (t.pc = "backoff" /\ t.attempt < MaxAttempts)
        /\ arrived' = arrived \/
           arrived' = [arrived EXCEPT ![h] = Append(arrived[h], <<n, t.event>>)]
        /\ history' = history \/
           history' = [history EXCEPT ![h][t.event] = IF @ < MaxAttempts THEN @ + 1 ELSE @]
        /\ UNCHANGED <<rows, request, current, loaded, cancelled, queue, bus, consumer,
                       published>>
    BY <1>2, AttemptMoves
  <2> DEFINE a == <<n, t.event>>
  <2>1. a \in Loads \X Events
    OBVIOUS
  <2> HIDE DEF a
  <2>2. Append(arrived[h], a) \in Seq(Loads \X Events)
    BY <1>0, <2>1, AppendProperties
  <2>3. arrived' \in [Hooks -> Seq(Loads \X Events)]
    BY <1>0, <2>2 DEF a
  <2>4. history' \in [Hooks -> [Events -> 0 .. MaxAttempts]]
    <3>1. history[h][t.event] \in 0 .. MaxAttempts /\ MaxAttempts \in Nat
      BY <1>0, WebhookAssumption
    <3> PICK v \in 0 .. MaxAttempts :
          v = IF history[h][t.event] < MaxAttempts THEN history[h][t.event] + 1
              ELSE history[h][t.event]
      BY <3>1
    <3>2. history' = history \/ history' = [history EXCEPT ![h][t.event] = v]
      OBVIOUS
    <3> DEFINE row == [history[h] EXCEPT ![t.event] = v]
    <3>3. row \in [Events -> 0 .. MaxAttempts]
      BY <1>0
    <3>4. history' = history \/ history' = [history EXCEPT ![h] = row]
      BY <3>2
    <3> HIDE DEF row
    <3> QED BY <1>0, <3>3, <3>4
  <2> QED BY <1>0, <2>3, <2>4, HookTypeFrame
<1>3. CASE SeeStop(n, h) \/ Exit(n, h) \/ Backoff(n, h)
  <2> PICK t \in HookState :
        /\ hook' = [hook EXCEPT ![n][h] = t] /\ t.event = hook[n][h].event
        /\ t.pc = "send" => hook[n][h].pc = "backoff"
        /\ t.pc # "backoff"
        /\ UNCHANGED <<rows, request, current, loaded, cancelled, queue, bus, consumer,
                       published, arrived, history>>
    BY <1>3, QuietMoves
  <2>1. t.pc \in {"send", "backoff"} => t.event \in Events
    BY DEF TypeInv, Busy
  <2> QED BY <1>0, <2>1, HookTypeFrame
<1> QED BY <1>1, <1>2, <1>3 DEF HookStep

LEMMA StartedStates ==
  /\ Started.pc = "select" /\ NoHook.pc = "none" /\ Started.event = 0 /\ NoHook.event = 0
  /\ ~Started.draining /\ ~NoHook.draining
  BY DEF Started, NoHook

LEMMA InitType == Init => TypeInv
<1> SUFFICES ASSUME Init PROVE TypeInv
  OBVIOUS
<1>1. 0 \in Loads /\ 0 \in 0 .. MaxAttempts /\ 0 \in 0 .. MaxEvents /\ 0 <= QueueSize /\ 0 <= BusSize
  BY WebhookAssumption DEF Loads
<1>2. NoRequest \in RequestState
  BY DEF NoRequest, RequestState, Rows
<1>3. loaded \in [Loads -> SUBSET Hooks]
  BY DEF Init
<1>4. hook \in [Loads -> [Hooks -> HookState]]
  BY <1>3, StateTypes DEF Init
<1>5. \A n \in Loads, h \in Hooks : hook[n][h] \in {Started, NoHook}
  BY <1>3 DEF Init
<1>6. queue \in [Loads -> [Hooks -> Seq(Events)]] /\ \A n \in Loads, h \in Hooks : Len(queue[n][h]) = 0
  BY DEF Init
<1>7. request \in [Requests -> RequestState] /\ consumer \in Consumer
  BY <1>1, <1>2 DEF Init, Consumer
<1>8. bus \in Seq(Events) /\ Len(bus) = 0 /\ arrived \in [Hooks -> Seq(Loads \X Events)]
  BY DEF Init
<1>9. TypeOK
  BY <1>1, <1>3, <1>4, <1>6, <1>7, <1>8 DEF Init, TypeOK
<1>10. Busy
  BY <1>5, StartedStates DEF Busy, Init
<1> QED BY <1>9, <1>10 DEF TypeInv

\* Every step keeps the types.
LEMMA TypeStep == TypeInv /\ [Next]_vars => TypeInv'
<1> SUFFICES ASSUME TypeInv, [Next]_vars PROVE TypeInv'
  OBVIOUS
<1>1. CASE Publish
  <2>1. published' = published + 1 /\ published + 1 \in Events /\ published + 1 \in 0 .. MaxEvents
    BY <1>1, WebhookAssumption DEF Publish, TypeInv, TypeOK, Events
  <2>2. bus' \in Seq(Events) /\ Len(bus') <= BusSize
    <3>1. bus \in Seq(Events) /\ Len(bus) \in Nat /\ Len(bus) <= BusSize
      BY LenProperties DEF TypeInv, TypeOK
    <3>2. Append(bus, published + 1) \in Seq(Events)
          /\ Len(Append(bus, published + 1)) = Len(bus) + 1
      BY <2>1, <3>1, AppendProperties
    <3> QED BY <1>1, <3>1, <3>2, WebhookAssumption DEF Publish
  <2> QED BY <1>1, <2>1, <2>2 DEF Publish, TypeInv, TypeOK, Busy
<1>2. CASE Receive
  <2>1. bus' \in Seq(Events) /\ Len(bus') <= BusSize
    <3>1. bus \in Seq(Events) /\ Len(bus) \in Nat /\ Len(bus) <= BusSize /\ BusSize \in Nat
      BY LenProperties, WebhookAssumption DEF TypeInv, TypeOK
    <3>2. bus # <<>> /\ bus' = Tail(bus)
      BY <1>2, ReceiveMoves
    <3>3. Tail(bus) \in Seq(Events) /\ Len(Tail(bus)) = Len(bus) - 1
      BY <3>1, <3>2, HeadTailProperties
    <3> QED BY <3>1, <3>2, <3>3
  <2> QED BY <1>2, <2>1, ReceiveMoves DEF TypeInv, TypeOK, Busy
<1>3. ASSUME NEW h \in Hooks, Enqueue(h) PROVE TypeInv'
  <2> PICK n \in Loads, e \in Events, q \in Seq(Events) : Enqueued(h, n, e, q)
    BY <1>3, EnqueueMoves
  <2>0. /\ queue'[n][h] = q /\ queue' \in [Loads -> [Hooks -> Seq(Events)]]
        /\ \A m \in Loads, k \in Hooks : m # n \/ k # h => queue'[m][k] = queue[m][k]
        /\ q = queue[n][h] \/ (Len(queue[n][h]) < QueueSize /\ q = Append(queue[n][h], e))
        /\ consumer' \in Consumer /\ consumer'.event = e
        /\ UNCHANGED <<rows, request, current, loaded, cancelled, hook, bus, published,
                       arrived, history>>
    BY DEF Enqueued
  <2>1. queue[n][h] \in Seq(Events) /\ Len(queue[n][h]) \in Nat
        /\ \A m \in Loads, k \in Hooks : Len(queue[m][k]) <= QueueSize
    BY LenProperties DEF TypeInv, TypeOK
  <2>2. Len(q) <= QueueSize
    <3>1. Len(Append(queue[n][h], e)) = Len(queue[n][h]) + 1
      BY <2>1, AppendProperties
    <3> QED BY <2>0, <2>1, <3>1, WebhookAssumption
  <2>3. \A m \in Loads, k \in Hooks : Len(queue'[m][k]) <= QueueSize
    BY <2>0, <2>1, <2>2
  <2> QED BY <2>0, <2>3 DEF TypeInv, TypeOK, Busy
<1>4. ASSUME NEW n \in Loads, NEW h \in Hooks, HookStep(n, h) PROVE TypeInv'
  BY <1>4, HookStepType
<1>5. ASSUME NEW q \in Requests, Install(q) PROVE TypeInv'
  <2>1. \A n \in Loads, k \in Hooks :
          hook'[n][k] = hook[n][k] \/ hook'[n][k] \in {Started, NoHook}
    BY <1>5, InstallMoves
  <2>2. Busy'
    BY <1>5, <2>1, InstallMoves, StartedStates DEF TypeInv, Busy
  <2>3. TypeOK'
    BY <1>5, InstallMoves DEF TypeInv, TypeOK
  <2> QED BY <2>2, <2>3 DEF TypeInv
<1>6. ASSUME NEW q \in Requests, NEW h \in Hooks,
             CreateWebhook(q, h) \/ DeleteWebhook(q, h) \/ ReadWebhook(q, h)
      PROVE  TypeInv'
  <2>1. \A pc \in {"list", "update"}, value \in Rows :
          /\ [NoRequest EXCEPT !.pc = pc, !.h = h] \in RequestState
          /\ [NoRequest EXCEPT !.pc = pc, !.h = h, !.value = value] \in RequestState
    BY DEF NoRequest, RequestState, Rows
  <2>2. request' \in [Requests -> RequestState]
    BY <1>6, <2>1 DEF CreateWebhook, DeleteWebhook, ReadWebhook, TypeInv, TypeOK, Rows
  <2>3. rows' \in [Hooks -> Rows]
    BY <1>6 DEF CreateWebhook, DeleteWebhook, ReadWebhook, TypeInv, TypeOK, Rows
  <2> QED BY <1>6, <2>2, <2>3 DEF CreateWebhook, DeleteWebhook, ReadWebhook, TypeInv, TypeOK, Busy
<1>7. ASSUME NEW q \in Requests, UpdateWebhook(q) PROVE TypeInv'
  <2>0. request[q] \in RequestState /\ request \in [Requests -> RequestState]
    BY DEF TypeInv, TypeOK
  <2>1. \A pc \in {"respond", "list"} : [request[q] EXCEPT !.pc = pc] \in RequestState
    BY <2>0 DEF RequestState
  <2>2. request' \in [Requests -> RequestState]
    BY <1>7, <2>0, <2>1 DEF UpdateWebhook
  <2>3. request[q].value \in Rows
    BY <2>0 DEF RequestState
  <2>4. rows' \in [Hooks -> Rows]
    BY <1>7, <2>3 DEF UpdateWebhook, TypeInv, TypeOK
  <2> QED BY <1>7, <2>2, <2>4 DEF UpdateWebhook, TypeInv, TypeOK, Busy
<1>8. ASSUME NEW q \in Requests, ListEnabledWebhooks(q) PROVE TypeInv'
  <2>0. request[q] \in RequestState /\ request \in [Requests -> RequestState]
    BY DEF TypeInv, TypeOK
  <2>1. \A pc \in {"respond", "install"}, list \in SUBSET Hooks :
          /\ [request[q] EXCEPT !.pc = pc] \in RequestState
          /\ [request[q] EXCEPT !.pc = pc, !.list = list] \in RequestState
    BY <2>0 DEF RequestState
  <2> DEFINE on == {h \in Hooks : rows[h] = "on"}
             r == [request[q] EXCEPT !.pc = "install", !.list = on]
             g == [request[q] EXCEPT !.pc = "respond"]
  <2>2. r \in RequestState /\ g \in RequestState
    BY <2>1
  <2>3. request' = [request EXCEPT ![q] = r] \/ request' = [request EXCEPT ![q] = g]
    BY <1>8 DEF ListEnabledWebhooks
  <2> HIDE DEF r, g
  <2>4. request' \in [Requests -> RequestState]
    BY <2>0, <2>2, <2>3
  <2> QED BY <1>8, <2>4 DEF ListEnabledWebhooks, TypeInv, TypeOK, Busy
<1>9. ASSUME NEW q \in Requests, Respond(q) PROVE TypeInv'
  <2>1. request[q].load \in Loads \cup {-1} /\ NoRequest \in RequestState
    BY DEF TypeInv, TypeOK, RequestState, NoRequest, Rows
  <2>2. request' \in [Requests -> RequestState] /\ cancelled' \subseteq Loads
    BY <1>9, <2>1 DEF Respond, TypeInv, TypeOK
  <2> QED BY <1>9, <2>2 DEF Respond, TypeInv, TypeOK, Busy
<1>10. CASE UNCHANGED vars
  BY <1>10 DEF vars, TypeInv, TypeOK, Busy
<1> QED BY <1>1, <1>2, <1>3, <1>4, <1>5, <1>6, <1>7, <1>8, <1>9, <1>10 DEF Next, RequestStep

LEMMA TypeInvariant == Spec => []TypeInv
<1> QED BY InitType, TypeStep, PTL DEF Spec

\* No channel of the webhook service ever holds more than its capacity, every
\* delivery in progress is of an event, and every variable keeps its type.
THEOREM TypeCorrect == Spec => []TypeOK
<1>1. TypeInv => TypeOK
  BY DEF TypeInv
<1> QED BY <1>1, TypeInvariant, PTL

-----------------------------------------------------------------------------
(* What a drained goroutine leaves behind. *)

\* Only the replaced loads drain.  A drained goroutine left an empty queue, and
\* the consumer puts on it at most the event whose targets it had snapshotted
\* before the reload: the next event is for another load.
DrainedAt(n, h) ==
  /\ hook[n][h].draining => n < current
  /\ hook[n][h].pc = "exited" /\ hook[n][h].draining =>
       \/ queue[n][h] = <<>>
       \/ Len(queue[n][h]) = 1 /\ ~(consumer.load = n /\ h \in consumer.todo)

DrainInv == \A n \in Loads, h \in Hooks : DrainedAt(n, h)

\* A move of one goroutine that only takes from its queue keeps it.
LEMMA DrainMoves ==
  ASSUME TypeInv, DrainInv, NEW n \in Loads, NEW h \in Hooks, HookStep(n, h)
  PROVE  DrainInv'
<1>1. PICK t \in HookState :
        /\ hook' = [hook EXCEPT ![n][h] = t]
        /\ t.draining => hook[n][h].draining \/ Stopped(n)
        /\ t.pc = "exited" /\ t.draining => queue'[n][h] = <<>>
        /\ \A m \in Loads, k \in Hooks : m # n \/ k # h => queue'[m][k] = queue[m][k]
        /\ UNCHANGED <<current, consumer>>
  <2>1. CASE TakeJob(n, h)
    <3>1. \A m \in Loads, k \in Hooks : m # n \/ k # h => queue'[m][k] = queue[m][k]
      BY <2>1 DEF TakeJob, TypeInv, TypeOK
    <3> QED BY <2>1, <3>1, TakeJobMoves
  <2>2. CASE Attempt(n, h)
    BY <2>2, AttemptMoves
  <2>3. CASE SeeStop(n, h) \/ Exit(n, h) \/ Backoff(n, h)
    BY <2>3, QuietMoves
  <2> QED BY <2>1, <2>2, <2>3 DEF HookStep
<1>2. /\ hook'[n][h] = t
      /\ \A m \in Loads, k \in Hooks : m # n \/ k # h => hook'[m][k] = hook[m][k]
  BY <1>1 DEF TypeInv, TypeOK
<1> SUFFICES ASSUME NEW m \in Loads, NEW k \in Hooks PROVE DrainedAt(m, k)'
  BY DEF DrainInv
<1>3. DrainedAt(m, k)
  BY DEF DrainInv
<1>4. CASE m = n /\ k = h
  BY <1>1, <1>2, <1>3, <1>4 DEF DrainedAt, Stopped
<1>5. CASE m # n \/ k # h
  BY <1>1, <1>2, <1>3, <1>5 DEF DrainedAt
<1> QED BY <1>4, <1>5

\* Every step keeps it.
LEMMA DrainStep == TypeInv /\ DrainInv /\ [Next]_vars => DrainInv'
<1> SUFFICES ASSUME TypeInv, DrainInv, [Next]_vars PROVE DrainInv'
  OBVIOUS
<1>1. CASE Publish
  BY <1>1 DEF Publish, DrainInv, DrainedAt
<1>2. CASE Receive
  <2>1. consumer'.load = current /\ UNCHANGED <<current, hook, queue>>
    BY <1>2, ReceiveMoves
  <2>2. \A n \in Loads : n < current => n # current
    BY WebhookAssumption DEF TypeInv, TypeOK, Loads
  <2> QED BY <2>1, <2>2 DEF DrainInv, DrainedAt
<1>3. ASSUME NEW h \in Hooks, Enqueue(h) PROVE DrainInv'
  <2> PICK n \in Loads, e \in Events, q \in Seq(Events) : Enqueued(h, n, e, q)
    BY <1>3, EnqueueMoves
  <2>1. /\ n = consumer.load /\ h \in consumer.todo /\ queue'[n][h] = q
        /\ \A m \in Loads, k \in Hooks : m # n \/ k # h => queue'[m][k] = queue[m][k]
        /\ q = queue[n][h] \/ q = Append(queue[n][h], e)
        /\ consumer'.load = n /\ consumer'.todo = consumer.todo \ {h}
        /\ UNCHANGED <<current, hook>>
    BY DEF Enqueued
  <2>2. Len(<<>>) = 0 /\ Len(Append(<<>>, e)) = 1
    OBVIOUS
  <2> SUFFICES ASSUME NEW m \in Loads, NEW k \in Hooks PROVE DrainedAt(m, k)'
    BY DEF DrainInv
  <2>3. DrainedAt(m, k)
    BY DEF DrainInv
  <2>4. CASE m = n /\ k = h
    <3>1. hook[m][k].pc = "exited" /\ hook[m][k].draining => queue[m][k] = <<>>
      BY <2>1, <2>3, <2>4 DEF DrainedAt
    <3>2. hook[m][k].pc = "exited" /\ hook[m][k].draining
            => queue'[m][k] = <<>> \/ Len(queue'[m][k]) = 1
      BY <2>1, <2>2, <2>4, <3>1
    <3> QED BY <2>1, <2>3, <2>4, <3>2 DEF DrainedAt
  <2>5. CASE m # n \/ k # h
    BY <2>1, <2>3, <2>5 DEF DrainedAt
  <2> QED BY <2>4, <2>5
<1>4. ASSUME NEW n \in Loads, NEW h \in Hooks, HookStep(n, h) PROVE DrainInv'
  BY <1>4, DrainMoves
<1>5. ASSUME NEW q \in Requests, Install(q) PROVE DrainInv'
  <2>1. /\ current' = current + 1 /\ UNCHANGED <<queue, consumer>>
        /\ \A m \in Loads, k \in Hooks :
             hook'[m][k] = hook[m][k] \/ hook'[m][k] \in {Started, NoHook}
    BY <1>5, InstallMoves
  <2>2. \A m \in Loads : m < current => m < current + 1
    BY WebhookAssumption DEF TypeInv, TypeOK, Loads
  <2> QED BY <2>1, <2>2, StartedStates DEF DrainInv, DrainedAt
<1>6. ASSUME UNCHANGED <<current, hook, queue, consumer>> PROVE DrainInv'
  BY <1>6 DEF DrainInv, DrainedAt
<1>7. CASE \E q \in Requests, h \in Hooks :
             CreateWebhook(q, h) \/ DeleteWebhook(q, h) \/ ReadWebhook(q, h)
  BY <1>6, <1>7 DEF CreateWebhook, DeleteWebhook, ReadWebhook
<1>8. CASE \E q \in Requests : UpdateWebhook(q) \/ ListEnabledWebhooks(q) \/ Respond(q)
  BY <1>6, <1>8 DEF UpdateWebhook, ListEnabledWebhooks, Respond
<1>9. CASE UNCHANGED vars
  BY <1>6, <1>9 DEF vars
<1> QED BY <1>1, <1>2, <1>3, <1>4, <1>5, <1>7, <1>8, <1>9 DEF Next, RequestStep

\* The drain after stopCh leaves at most one event behind, the one the consumer
\* was handing out when the reload came, whatever the reloads and the capacity.
THEOREM DrainLeavesAtMostOneCorrect == Spec => []DrainLeavesAtMostOne
<1>1. Init => DrainInv
  <2> SUFFICES ASSUME Init PROVE DrainInv
    OBVIOUS
  <2>1. \A n \in Loads, h \in Hooks : hook[n][h] \in {Started, NoHook}
    BY DEF Init
  <2> QED BY <2>1, StartedStates DEF DrainInv, DrainedAt
<1>2. TypeInv /\ DrainInv /\ [Next]_vars => DrainInv'
  BY DrainStep
<1>3. DrainInv => DrainLeavesAtMostOne
  <2> SUFFICES ASSUME DrainInv, NEW n \in Loads, NEW h \in Hooks,
                      hook[n][h].pc = "exited", hook[n][h].draining
               PROVE  Len(queue[n][h]) <= 1
    BY DEF DrainLeavesAtMostOne
  <2>1. Len(queue[n][h]) = 0 \/ Len(queue[n][h]) = 1
    BY DEF DrainInv, DrainedAt
  <2>2. \A i : i = 0 \/ i = 1 => i <= 1
    OBVIOUS
  <2> QED BY <2>1, <2>2, Zenon
<1> QED BY <1>1, <1>2, <1>3, TypeInvariant, PTL DEF Spec

-----------------------------------------------------------------------------
(* An event of a webhook belongs to one load. *)

InQueue(q, e) == \E i \in 1 .. Len(q) : q[i] = e

\* The goroutine of load n has, had or is to have event e for webhook h.
Claims(n, h, e) ==
  \/ hook[n][h].event = e
  \/ InQueue(queue[n][h], e)
  \/ \E i \in 1 .. Len(arrived[h]) : arrived[h][i] = <<n, e>>

\* One load claims an event, and none does yet while the consumer is still to
\* hand it out.
OwnInv ==
  \A h \in Hooks :
    /\ \A e \in Events, m, n \in Loads : Claims(m, h, e) /\ Claims(n, h, e) => m = n
    /\ h \in consumer.todo => \A n \in Loads : ~Claims(n, h, consumer.event)


\* What is on a queue after an Append and after a Tail.
LEMMA InAppend ==
  ASSUME NEW s \in Seq(Events), NEW e \in Events, NEW d, InQueue(Append(s, e), d)
  PROVE  InQueue(s, d) \/ d = e
  BY AppendProperties, LenProperties DEF InQueue

LEMMA InTail ==
  ASSUME NEW s \in Seq(Events), s # <<>>, NEW d, InQueue(Tail(s), d)
  PROVE  InQueue(s, d)
<1>1. /\ Len(Tail(s)) = Len(s) - 1 /\ Len(s) \in Nat
      /\ \A i \in 1 .. Len(Tail(s)) : Tail(s)[i] = s[i + 1]
  BY HeadTailProperties, LenProperties
<1> QED BY <1>1 DEF InQueue

LEMMA HeadIn ==
  ASSUME NEW s \in Seq(Events), s # <<>>
  PROVE  InQueue(s, Head(s))
<1>1. Head(s) = s[1] /\ Len(s) \in Nat /\ Len(s) # 0
  BY HeadTailProperties, LenProperties, EmptySeq
<1> QED BY <1>1 DEF InQueue

\* What a load claims has been handed out.
LEMMA ClaimsBounded ==
  ASSUME OrderInv, NEW h \in Hooks, NEW n \in Loads, NEW e \in Events, Claims(n, h, e)
  PROVE  e <= consumer.event
<1>1. e \in Int /\ consumer.event \in Int /\ hook[n][h].event \in Int
      /\ hook[n][h].event <= consumer.event
  BY DEF OrderInv, Typed, QueueOrdered, HookState, Events
<1>2. CASE hook[n][h].event = e
  BY <1>1, <1>2
<1>3. CASE InQueue(queue[n][h], e)
  BY <1>3 DEF InQueue, OrderInv, QueueOrdered
<1>4. ASSUME NEW i \in 1 .. Len(arrived[h]), arrived[h][i] = <<n, e>>
      PROVE  e <= consumer.event
  <2>1. e <= hook[n][h].event
    BY <1>4 DEF OrderInv, ArrivedBounded
  <2> QED BY <1>1, <2>1
<1> QED BY <1>2, <1>3, <1>4 DEF Claims

\* No new claims, no new targets of the consumer.
LEMMA OwnFrame ==
  ASSUME OwnInv, consumer' = consumer,
         \A n \in Loads, h \in Hooks, e \in Events : Claims(n, h, e)' => Claims(n, h, e),
         TypeInv
  PROVE  OwnInv'
<1>1. \A h \in Hooks : h \in consumer.todo => consumer.event \in Events
  BY DEF TypeInv, Busy
<1> QED BY <1>1 DEF OwnInv

\* A step of a goroutine claims nothing new.
LEMMA HookStepClaims ==
  ASSUME TypeInv, NEW n \in Loads, NEW h \in Hooks, HookStep(n, h),
         NEW m \in Loads, NEW k \in Hooks, NEW e \in Events, Claims(m, k, e)'
  PROVE  Claims(m, k, e) /\ consumer' = consumer
<1>1. CASE TakeJob(n, h)
  <2> PICK t \in HookState :
        /\ hook' = [hook EXCEPT ![n][h] = t] /\ t.event = Head(queue[n][h])
        /\ queue[n][h] # <<>> /\ queue' = [queue EXCEPT ![n][h] = Tail(queue[n][h])]
        /\ UNCHANGED <<consumer, arrived>>
    BY <1>1, TakeJobMoves
  <2>1. queue[n][h] \in Seq(Events)
    BY DEF TypeInv, TypeOK
  <2>2. CASE m = n /\ k = h
    <3>1. hook'[m][k] = t /\ queue'[m][k] = Tail(queue[n][h])
      BY <2>2 DEF TypeInv, TypeOK
    <3>2. InQueue(queue[n][h], Head(queue[n][h]))
      BY <2>1, HeadIn
    <3>3. InQueue(Tail(queue[n][h]), e) => InQueue(queue[n][h], e)
      BY <2>1, InTail
    <3>4. hook'[m][k].event = e => InQueue(queue[m][k], e)
      BY <2>2, <3>1, <3>2
    <3>5. InQueue(queue'[m][k], e) => InQueue(queue[m][k], e)
      BY <2>2, <3>1, <3>3
    <3> QED BY <3>4, <3>5 DEF Claims
  <2>3. CASE m # n \/ k # h
    <3>1. hook'[m][k] = hook[m][k] /\ queue'[m][k] = queue[m][k]
      BY <2>3 DEF TypeInv, TypeOK
    <3> QED BY <3>1 DEF Claims
  <2> QED BY <2>2, <2>3
<1>2. CASE Attempt(n, h)
  <2> PICK t \in HookState :
        /\ hook' = [hook EXCEPT ![n][h] = t]
        /\ t.event = hook[n][h].event /\ t.event \in Events
        /\ arrived' = arrived \/
           arrived' = [arrived EXCEPT ![h] = Append(arrived[h], <<n, t.event>>)]
        /\ UNCHANGED <<queue, consumer>>
    BY <1>2, AttemptMoves
  <2>1. hook'[m][k].event = hook[m][k].event
    BY DEF TypeInv, TypeOK
  <2>2. ASSUME NEW i \in 1 .. Len(arrived'[k]), arrived'[k][i] = <<m, e>>
        PROVE  Claims(m, k, e)
    <3>1. CASE arrived'[k] = arrived[k]
      BY <2>2, <3>1 DEF Claims
    <3>2. CASE k = h /\ arrived'[k] = Append(arrived[h], <<n, t.event>>)
      <4> DEFINE a == <<n, t.event>>
      <4> PICK s \in Seq(Loads \X Events) : s = arrived[h]
        BY DEF TypeInv, TypeOK
      <4>1. a \in Loads \X Events /\ (a = <<m, e>> => n = m /\ t.event = e)
        OBVIOUS
      <4> HIDE DEF a
      <4>2. /\ Len(Append(s, a)) = Len(s) + 1 /\ Len(s) \in Nat
            /\ \A j \in 1 .. Len(s) : Append(s, a)[j] = s[j]
            /\ Append(s, a)[Len(s) + 1] = a
        BY <4>1, AppendProperties, LenProperties
      <4>3. arrived'[k] = Append(s, a)
        BY <3>2 DEF a
      <4>4. CASE i \in 1 .. Len(s)
        BY <2>2, <3>2, <4>2, <4>3, <4>4 DEF Claims
      <4>5. CASE i = Len(s) + 1
        <5>1. a = <<m, e>>
          BY <2>2, <4>2, <4>3, <4>5
        <5> QED BY <3>2, <4>1, <5>1 DEF Claims
      <4> QED BY <4>2, <4>3, <4>4, <4>5
    <3>3. arrived'[k] = arrived[k] \/ (k = h /\ arrived'[k] = Append(arrived[h], <<n, t.event>>))
      BY DEF TypeInv, TypeOK
    <3> QED BY <3>1, <3>2, <3>3
  <2> QED BY <2>1, <2>2 DEF Claims
<1>3. CASE SeeStop(n, h) \/ Exit(n, h) \/ Backoff(n, h)
  <2> PICK t \in HookState :
        /\ hook' = [hook EXCEPT ![n][h] = t] /\ t.event = hook[n][h].event
        /\ UNCHANGED <<queue, consumer, arrived>>
    BY <1>3, QuietMoves
  <2>1. hook'[m][k].event = hook[m][k].event
    BY DEF TypeInv, TypeOK
  <2> QED BY <2>1 DEF Claims
<1> QED BY <1>1, <1>2, <1>3 DEF HookStep

\* Every step keeps it.
LEMMA OwnStep == TypeInv /\ OrderInv /\ OwnInv /\ [Next]_vars => OwnInv'
<1> SUFFICES ASSUME TypeInv, OrderInv, OwnInv, [Next]_vars PROVE OwnInv'
  OBVIOUS
<1>1. ASSUME UNCHANGED <<hook, queue, consumer, arrived>> PROVE OwnInv'
  BY <1>1 DEF OwnInv, Claims
<1>2. CASE Receive
  <2>1. consumer'.event = Head(bus) /\ Head(bus) \in Events /\ UNCHANGED <<hook, queue, arrived>>
    BY <1>2, ReceiveMoves
  <2>2. consumer.event < Head(bus)
    <3>1. bus \in Seq(Events) /\ bus # <<>>
      BY <1>2, ReceiveMoves DEF TypeInv, TypeOK
    <3>2. Head(bus) = bus[1] /\ 1 \in 1 .. Len(bus)
      BY <3>1, HeadTailProperties, LenProperties, EmptySeq
    <3> QED BY <3>2 DEF OrderInv, BusOrdered
  <2>3. consumer.event \in Int /\ Head(bus) \in Int
    BY <2>1 DEF TypeInv, TypeOK, Consumer, Events
  <2>4. \A h \in Hooks, n \in Loads : ~Claims(n, h, Head(bus))
    BY <2>1, <2>2, <2>3, ClaimsBounded
  <2>5. \A h \in Hooks, n \in Loads, e \in Events : Claims(n, h, e)' <=> Claims(n, h, e)
    BY <2>1 DEF Claims
  <2> QED BY <2>1, <2>4, <2>5 DEF OwnInv
<1>3. ASSUME NEW h \in Hooks, Enqueue(h) PROVE OwnInv'
  <2> PICK n \in Loads, e \in Events, q \in Seq(Events) : Enqueued(h, n, e, q)
    BY <1>3, EnqueueMoves
  <2>1. /\ e = consumer.event /\ h \in consumer.todo /\ queue'[n][h] = q
        /\ \A m \in Loads, k \in Hooks : m # n \/ k # h => queue'[m][k] = queue[m][k]
        /\ q = queue[n][h] \/ q = Append(queue[n][h], e)
        /\ consumer'.event = e /\ consumer'.todo = consumer.todo \ {h}
        /\ UNCHANGED <<hook, arrived>> /\ queue[n][h] \in Seq(Events)
    BY DEF Enqueued, TypeInv, TypeOK
  <2>2. ASSUME NEW k \in Hooks, NEW m \in Loads, NEW d \in Events, Claims(m, k, d)'
        PROVE  Claims(m, k, d) \/ (m = n /\ k = h /\ d = e)
    <3>1. CASE m = n /\ k = h
      <4>1. InQueue(queue'[m][k], d) => InQueue(queue[m][k], d) \/ d = e
        <5> PICK s \in Seq(Events) : s = queue[n][h]
          BY <2>1
        <5>1. InQueue(Append(s, e), d) => InQueue(s, d) \/ d = e
          BY InAppend
        <5> QED BY <2>1, <3>1, <5>1
      <4> QED BY <2>1, <2>2, <3>1, <4>1 DEF Claims
    <3>2. CASE m # n \/ k # h
      BY <2>1, <2>2, <3>2 DEF Claims
    <3> QED BY <3>1, <3>2
  <2>3. \A m \in Loads : ~Claims(m, h, e)
    BY <2>1 DEF OwnInv
  <2>4. ASSUME NEW k \in Hooks, NEW d \in Events, NEW m \in Loads, NEW l \in Loads,
               Claims(m, k, d)', Claims(l, k, d)'
        PROVE  m = l
    <3>1. Claims(m, k, d) \/ (m = n /\ k = h /\ d = e)
      BY <2>2, <2>4
    <3>2. Claims(l, k, d) \/ (l = n /\ k = h /\ d = e)
      BY <2>2, <2>4
    <3> QED BY <2>3, <3>1, <3>2 DEF OwnInv
  <2>5. ASSUME NEW k \in Hooks, k \in consumer'.todo, NEW m \in Loads
        PROVE  ~(Claims(m, k, consumer.event)')
    BY <2>1, <2>2, <2>5 DEF OwnInv
  <2>6. consumer'.event = consumer.event
    BY <2>1
  <2>7. \A k \in Hooks, m \in Loads : k \in consumer'.todo => ~(Claims(m, k, consumer.event)')
    BY <2>5
  <2> QED BY <2>4, <2>6, <2>7 DEF OwnInv, Claims
<1>4. ASSUME NEW n \in Loads, NEW h \in Hooks, HookStep(n, h) PROVE OwnInv'
  <2>1. consumer' = consumer
    BY <1>4 DEF HookStep, TakeJob, SeeStop, Exit, Attempt, Backoff
  <2> QED BY <1>4, <2>1, HookStepClaims, OwnFrame
<1>5. ASSUME NEW q \in Requests, Install(q) PROVE OwnInv'
  <2>1. /\ UNCHANGED <<queue, consumer, arrived>>
        /\ \A m \in Loads, k \in Hooks :
             hook'[m][k] = hook[m][k] \/ hook'[m][k] \in {Started, NoHook}
    BY <1>5, InstallMoves
  <2>2. \A m \in Loads, k \in Hooks, e \in Events :
          hook'[m][k].event = e => hook[m][k].event = e
    BY <2>1, StartedStates DEF Events
  <2>3. \A m \in Loads, k \in Hooks, e \in Events : Claims(m, k, e)' => Claims(m, k, e)
    BY <2>1, <2>2 DEF Claims
  <2> QED BY <2>1, <2>3, OwnFrame
<1>6. CASE Publish
  BY <1>1, <1>6 DEF Publish
<1>7. CASE \E q \in Requests, h \in Hooks :
             CreateWebhook(q, h) \/ DeleteWebhook(q, h) \/ ReadWebhook(q, h)
  BY <1>1, <1>7 DEF CreateWebhook, DeleteWebhook, ReadWebhook
<1>8. CASE \E q \in Requests : UpdateWebhook(q) \/ ListEnabledWebhooks(q) \/ Respond(q)
  BY <1>1, <1>8 DEF UpdateWebhook, ListEnabledWebhooks, Respond
<1>9. CASE UNCHANGED vars
  BY <1>1, <1>9 DEF vars
<1> QED BY <1>2, <1>3, <1>4, <1>5, <1>6, <1>7, <1>8, <1>9 DEF Next, RequestStep

LEMMA OrderInvariant == Spec => []OrderInv
<1> QED BY OrderInvInit, OrderInvStep, PTL DEF Spec

LEMMA OwnInvariant == Spec => []OwnInv
<1>1. Init => OwnInv
  <2> SUFFICES ASSUME Init PROVE OwnInv
    OBVIOUS
  <2>1. \A n \in Loads, h \in Hooks :
          /\ hook[n][h].event = 0 /\ Len(queue[n][h]) = 0 /\ Len(arrived[h]) = 0
    BY StartedStates DEF Init
  <2>2. \A n \in Loads, h \in Hooks, e \in Events : ~Claims(n, h, e)
    BY <2>1 DEF Claims, InQueue, Events
  <2>3. consumer.todo = {}
    BY DEF Init
  <2> QED BY <2>2, <2>3 DEF OwnInv
<1> QED BY <1>1, OwnStep, TypeInvariant, OrderInvariant, PTL DEF Spec

\* An endpoint receives an event from the goroutine of one load only, however
\* the reloads fall between the broadcasts and the deliveries.
THEOREM OneLoadPerEventCorrect == Spec => []OneLoadPerEvent
<1>1. TypeInv /\ OwnInv => OneLoadPerEvent
  <2> SUFFICES ASSUME TypeInv, OwnInv, NEW h \in Hooks,
                      NEW i \in 1 .. Len(arrived[h]), NEW j \in 1 .. Len(arrived[h]),
                      arrived[h][i][2] = arrived[h][j][2]
               PROVE  arrived[h][i][1] = arrived[h][j][1]
    BY DEF OneLoadPerEvent
  <2>1. arrived[h][i] \in Loads \X Events /\ arrived[h][j] \in Loads \X Events
    BY ElementOfSeq DEF TypeInv, TypeOK
  <2> PICK m \in Loads, e \in Events : arrived[h][i] = <<m, e>>
    BY <2>1
  <2> PICK n \in Loads, d \in Events : arrived[h][j] = <<n, d>>
    BY <2>1
  <2>2. d = e
    OBVIOUS
  <2>3. Claims(m, h, e) /\ Claims(n, h, e)
    BY <2>2 DEF Claims
  <2> QED BY <2>3 DEF OwnInv
<1> QED BY <1>1, TypeInvariant, OwnInvariant, PTL

-----------------------------------------------------------------------------
(* A delivery is recorded once. *)

\* An event has no row as long as its delivery is not over; the consumer has
\* handed out what has one.
HistoryInv ==
  \A h \in Hooks :
    /\ \A e \in Events :
         /\ history[h][e] <= 1
         /\ history[h][e] # 0 => e <= consumer.event /\ (h \in consumer.todo => e # consumer.event)
    /\ \A n \in Loads :
         /\ \A e \in Events : InQueue(queue[n][h], e) => history[h][e] = 0
         /\ hook[n][h].pc \in {"send", "backoff"} => history[h][hook[n][h].event] = 0

\* Nothing is recorded, and what is under way stays within what was.
LEMMA HistoryFrame ==
  ASSUME HistoryInv, UNCHANGED <<consumer, history>>,
         \A n \in Loads, h \in Hooks :
           /\ \A e \in Events : InQueue(queue'[n][h], e) => InQueue(queue[n][h], e)
           /\ hook'[n][h].pc \in {"send", "backoff"} =>
                \/ InQueue(queue[n][h], hook'[n][h].event) /\ hook'[n][h].event \in Events
                \/ hook[n][h].pc \in {"send", "backoff"} /\ hook'[n][h].event = hook[n][h].event
  PROVE  HistoryInv'
  BY DEF HistoryInv, InQueue

\* The final attempt of a delivery records its event, which no other load claims
\* and which is no longer under way.
LEMMA AttemptHistory ==
  ASSUME TypeInv, OrderInv, OwnInv, HistoryInv, NEW n \in Loads, NEW h \in Hooks, Attempt(n, h)
  PROVE  HistoryInv'
<1> PICK t \in HookState :
      /\ hook' = [hook EXCEPT ![n][h] = t]
      /\ t.event = hook[n][h].event /\ t.event \in Events /\ hook[n][h].pc = "send"
      /\ history' = history \/
         (/\ t.pc = "select"
          /\ history' = [history EXCEPT ![h][t.event] = IF @ < MaxAttempts THEN @ + 1 ELSE @])
      /\ UNCHANGED <<queue, consumer>>
  BY AttemptMoves
<1> PICK e \in Events : e = t.event
  OBVIOUS
<1>1. /\ hook'[n][h] = t
      /\ \A m \in Loads, k \in Hooks : m # n \/ k # h => hook'[m][k] = hook[m][k]
  BY DEF TypeInv, TypeOK
<1>2. CASE history' = history
  BY <1>1, <1>2, HistoryFrame
<1>3. CASE t.pc = "select" /\
           history' = [history EXCEPT ![h][e] = IF @ < MaxAttempts THEN @ + 1 ELSE @]
  <2>1. history[h][e] = 0 /\ e <= consumer.event
    BY ClaimsBounded DEF HistoryInv, Claims
  <2>2. 0 < MaxAttempts
    BY WebhookAssumption
  <2>3. /\ history'[h][e] = 1
        /\ \A k \in Hooks, d \in Events : k # h \/ d # e => history'[k][d] = history[k][d]
    BY <1>3, <2>1, <2>2 DEF TypeInv, TypeOK
  <2>4. h \in consumer.todo => e # consumer.event
    BY DEF OwnInv, Claims
  <2>5. \A m \in Loads : Claims(m, h, e) => m = n
    BY DEF OwnInv, Claims
  <2>6. ~InQueue(queue[n][h], e)
    <3>1. \A i \in 1 .. Len(queue[n][h]) : e < queue[n][h][i]
      BY DEF OrderInv, QueueOrdered
    <3> QED BY <3>1 DEF InQueue, Events
  <2> SUFFICES ASSUME NEW k \in Hooks
               PROVE  /\ \A d \in Events :
                           /\ history'[k][d] <= 1
                           /\ history'[k][d] # 0 =>
                                d <= consumer.event /\ (k \in consumer.todo => d # consumer.event)
                      /\ \A m \in Loads :
                           /\ \A d \in Events : InQueue(queue[m][k], d) => history'[k][d] = 0
                           /\ hook'[m][k].pc \in {"send", "backoff"}
                                => history'[k][hook'[m][k].event] = 0
    BY DEF HistoryInv, InQueue
  <2>7. ASSUME NEW d \in Events
        PROVE  /\ history'[k][d] <= 1
               /\ history'[k][d] # 0 =>
                    d <= consumer.event /\ (k \in consumer.todo => d # consumer.event)
    BY <2>1, <2>3, <2>4 DEF HistoryInv
  <2>8. ASSUME NEW m \in Loads, NEW d \in Events, InQueue(queue[m][k], d)
        PROVE  history'[k][d] = 0
    <3>1. k # h \/ d # e
      BY <2>5, <2>6, <2>8 DEF Claims
    <3> QED BY <2>3, <2>8, <3>1 DEF HistoryInv
  <2>9. ASSUME NEW m \in Loads, hook'[m][k].pc \in {"send", "backoff"}
        PROVE  history'[k][hook'[m][k].event] = 0
    <3>1. m # n \/ k # h
      BY <1>1, <1>3, <2>9
    <3>2. hook'[m][k] = hook[m][k] /\ hook[m][k].event \in Events
      BY <1>1, <2>9, <3>1 DEF TypeInv, Busy
    <3>3. k # h \/ hook[m][k].event # e
      BY <2>5, <3>1 DEF Claims
    <3> QED BY <2>3, <2>9, <3>2, <3>3 DEF HistoryInv
  <2> QED BY <2>7, <2>8, <2>9
<1> QED BY <1>2, <1>3

\* Every step keeps it.
LEMMA HistoryStep ==
  TypeInv /\ OrderInv /\ OwnInv /\ HistoryInv /\ [Next]_vars => HistoryInv'
<1> SUFFICES ASSUME TypeInv, OrderInv, OwnInv, HistoryInv, [Next]_vars PROVE HistoryInv'
  OBVIOUS
<1>1. ASSUME UNCHANGED <<hook, queue, consumer, history>> PROVE HistoryInv'
  BY <1>1 DEF HistoryInv, InQueue
<1>2. CASE Receive
  <2>1. consumer'.event = Head(bus) /\ Head(bus) \in Events /\ UNCHANGED <<hook, queue, history>>
    BY <1>2, ReceiveMoves
  <2>2. consumer.event < Head(bus)
    <3>1. bus \in Seq(Events) /\ bus # <<>>
      BY <1>2, ReceiveMoves DEF TypeInv, TypeOK
    <3>2. Head(bus) = bus[1] /\ 1 \in 1 .. Len(bus)
      BY <3>1, HeadTailProperties, LenProperties, EmptySeq
    <3> QED BY <3>2 DEF OrderInv, BusOrdered
  <2>3. consumer.event \in Int /\ Head(bus) \in Int
    BY <2>1 DEF TypeInv, TypeOK, Consumer, Events
  <2>4. \A e \in Events : e <= consumer.event => e <= Head(bus) /\ e # Head(bus)
    BY <2>2, <2>3 DEF Events
  <2> QED BY <2>1, <2>4 DEF HistoryInv, InQueue
<1>3. ASSUME NEW h \in Hooks, Enqueue(h) PROVE HistoryInv'
  <2> PICK n \in Loads, e \in Events, q \in Seq(Events) : Enqueued(h, n, e, q)
    BY <1>3, EnqueueMoves
  <2>1. /\ e = consumer.event /\ h \in consumer.todo /\ queue'[n][h] = q
        /\ \A m \in Loads, k \in Hooks : m # n \/ k # h => queue'[m][k] = queue[m][k]
        /\ q = queue[n][h] \/ q = Append(queue[n][h], e)
        /\ consumer'.event = e /\ consumer'.todo = consumer.todo \ {h}
        /\ UNCHANGED <<hook, history>> /\ queue[n][h] \in Seq(Events)
    BY DEF Enqueued, TypeInv, TypeOK
  <2>2. history[h][e] = 0
    BY <2>1 DEF HistoryInv
  <2>3. ASSUME NEW m \in Loads, NEW k \in Hooks, NEW d \in Events, InQueue(queue'[m][k], d)
        PROVE  history[k][d] = 0
    <3>1. CASE m = n /\ k = h
      <4> PICK s \in Seq(Events) : s = queue[n][h]
        BY <2>1
      <4>1. InQueue(Append(s, e), d) => InQueue(s, d) \/ d = e
        BY InAppend
      <4>2. InQueue(queue[m][k], d) \/ d = e
        BY <2>1, <2>3, <3>1, <4>1
      <4> QED BY <2>2, <3>1, <4>2 DEF HistoryInv
    <3>2. CASE m # n \/ k # h
      BY <2>1, <2>3, <3>2 DEF HistoryInv
    <3> QED BY <3>1, <3>2
  <2>4. \A m \in Loads, k \in Hooks, d \in Events : InQueue(queue[m][k], d)' => history[k][d] = 0
    BY <2>3 DEF InQueue
  <2> HIDE DEF InQueue
  <2> QED BY <2>1, <2>4 DEF HistoryInv
<1>4. ASSUME NEW n \in Loads, NEW h \in Hooks, TakeJob(n, h) PROVE HistoryInv'
  <2> PICK t \in HookState :
        /\ hook' = [hook EXCEPT ![n][h] = t] /\ t.event = Head(queue[n][h]) /\ t.event \in Events
        /\ queue[n][h] # <<>> /\ queue' = [queue EXCEPT ![n][h] = Tail(queue[n][h])]
        /\ UNCHANGED <<consumer, history>>
    BY <1>4, TakeJobMoves
  <2> PICK s \in Seq(Events) : s = queue[n][h]
    BY DEF TypeInv, TypeOK
  <2>1. InQueue(s, Head(s)) /\ \A e \in Events : InQueue(Tail(s), e) => InQueue(s, e)
    BY HeadIn, InTail
  <2>2. /\ hook'[n][h] = t /\ queue'[n][h] = Tail(s)
        /\ \A m \in Loads, k \in Hooks :
             m # n \/ k # h => hook'[m][k] = hook[m][k] /\ queue'[m][k] = queue[m][k]
    BY DEF TypeInv, TypeOK
  <2>3. InQueue(queue[n][h], t.event)
    BY <2>1
  <2>4. \A m \in Loads, k \in Hooks :
          /\ \A e \in Events : InQueue(queue'[m][k], e) => InQueue(queue[m][k], e)
          /\ hook'[m][k].pc \in {"send", "backoff"} =>
               \/ InQueue(queue[m][k], hook'[m][k].event) /\ hook'[m][k].event \in Events
               \/ hook[m][k].pc \in {"send", "backoff"} /\ hook'[m][k].event = hook[m][k].event
    BY <2>1, <2>2, <2>3
  <2> QED BY <2>4, HistoryFrame
<1>5. ASSUME NEW n \in Loads, NEW h \in Hooks, Attempt(n, h) PROVE HistoryInv'
  BY <1>5, AttemptHistory
<1>6. ASSUME NEW n \in Loads, NEW h \in Hooks, SeeStop(n, h) \/ Exit(n, h) \/ Backoff(n, h)
      PROVE  HistoryInv'
  <2> PICK t \in HookState :
        /\ hook' = [hook EXCEPT ![n][h] = t] /\ t.event = hook[n][h].event
        /\ t.pc = "send" => hook[n][h].pc = "backoff"
        /\ t.pc # "backoff"
        /\ UNCHANGED <<queue, consumer, history>>
    BY <1>6, QuietMoves
  <2>1. /\ hook'[n][h] = t
        /\ \A m \in Loads, k \in Hooks : m # n \/ k # h => hook'[m][k] = hook[m][k]
    BY DEF TypeInv, TypeOK
  <2> QED BY <2>1, HistoryFrame
<1>7. ASSUME NEW q \in Requests, Install(q) PROVE HistoryInv'
  <2>1. /\ UNCHANGED <<queue, consumer, history>>
        /\ \A m \in Loads, k \in Hooks :
             hook'[m][k] = hook[m][k] \/ hook'[m][k] \in {Started, NoHook}
    BY <1>7, InstallMoves
  <2> QED BY <2>1, StartedStates, HistoryFrame
<1>8. CASE Publish
  BY <1>1, <1>8 DEF Publish
<1>9. CASE \E q \in Requests, h \in Hooks :
             CreateWebhook(q, h) \/ DeleteWebhook(q, h) \/ ReadWebhook(q, h)
  BY <1>1, <1>9 DEF CreateWebhook, DeleteWebhook, ReadWebhook
<1>10. CASE \E q \in Requests : UpdateWebhook(q) \/ ListEnabledWebhooks(q) \/ Respond(q)
  BY <1>1, <1>10 DEF UpdateWebhook, ListEnabledWebhooks, Respond
<1>11. CASE UNCHANGED vars
  BY <1>1, <1>11 DEF vars
<1> QED BY <1>2, <1>3, <1>4, <1>5, <1>6, <1>7, <1>8, <1>9, <1>10, <1>11
        DEF Next, HookStep, RequestStep

\* A delivery leaves at most one row in webhook_history, however often it is
\* retried, given up or overtaken by a reload.
THEOREM OneHistoryRowCorrect == Spec => []OneHistoryRow
<1>1. Init => HistoryInv
  <2> SUFFICES ASSUME Init PROVE HistoryInv
    OBVIOUS
  <2>1. /\ \A n \in Loads, h \in Hooks :
             hook[n][h].pc \notin {"send", "backoff"} /\ Len(queue[n][h]) = 0
        /\ \A h \in Hooks, e \in Events : history[h][e] = 0
    BY StartedStates DEF Init
  <2> QED BY <2>1 DEF HistoryInv, InQueue
<1>2. HistoryInv => OneHistoryRow
  BY DEF HistoryInv, OneHistoryRow
<1> QED BY <1>1, <1>2, HistoryStep, TypeInvariant, OrderInvariant, OwnInvariant, PTL DEF Spec
=============================================================================
