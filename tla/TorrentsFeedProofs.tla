------------------------- MODULE TorrentsFeedProofs -------------------------
(***************************************************************************)
(* Proofs about TorrentsFeed, for any torrents, states, sockets and        *)
(* channel capacity and any number of changes and faults.                  *)
(***************************************************************************)
EXTENDS TorrentsFeed, FiniteSetTheorems, TLAPS

USE FeedAssumption

Message == Event \cup Snapshot

LEMMA ReadIsNoReading == ASSUME NEW r PROVE [rows |-> r] # Reading
<1> DEFINE m == [rows |-> r]
<1>1. "rows" \in DOMAIN m
  OBVIOUS
<1>2. "rows" \notin DOMAIN Reading
  BY DEF Reading
<1> QED BY <1>1, <1>2

LEMMA KindOfMessage ==
  ASSUME NEW m \in Message
  PROVE \/ m \in Snapshot /\ "rows" \in DOMAIN m
        \/ m \in Event /\ "rows" \notin DOMAIN m
  BY DEF Message, Event, Snapshot

LEMMA AppliedType ==
  ASSUME NEW m \in Message, rows \in Rows PROVE Applied(m) \in Rows
<1>1. CASE m \in Snapshot /\ "rows" \in DOMAIN m
  BY <1>1 DEF Applied, Snapshot
<1>2. CASE m \in Event /\ "rows" \notin DOMAIN m
  BY <1>2 DEF Applied, Event, Rows
<1> QED BY <1>1, <1>2, KindOfMessage

-----------------------------------------------------------------------------
(* Types.                                                                  *)

\* A message that fits keeps a channel a channel within its capacity.
Channel(q) == q \in Seq(Message) /\ Len(q) <= SendCap

LEMMA ChannelAppend ==
  ASSUME NEW q, Channel(q), Len(q) < SendCap, NEW m \in Message PROVE Channel(Append(q, m))
  BY DEF Channel

LEMMA ChannelTail ==
  ASSUME NEW q, Channel(q), q # <<>> PROVE Channel(Tail(q)) /\ Head(q) \in Message
  BY DEF Channel

LEMMA Channels ==
  ASSUME NEW f, f = [s \in Sockets |-> f[s]], \A s \in Sockets : Channel(f[s])
  PROVE f \in [Sockets -> Seq(Message)] /\ \A s \in Sockets : Len(f[s]) <= SendCap
  BY DEF Channel

\* What the browser does with its sockets: connect(), and the end of one.
LEMMA ConnectType ==
  ASSUME TypeOK, Connect
  PROVE /\ sock' \in [Sockets -> {"closed", "connecting", "open"}]
        /\ attached' \subseteq Sockets /\ current' \in Sockets \cup {None}
<1>1. CASE current # None /\ sock[current] = "open"
  BY <1>1 DEF Connect, TypeOK
<1>2. CASE ~(current # None /\ sock[current] = "open")
  BY <1>2 DEF Connect, TypeOK
<1> QED BY <1>1, <1>2

LEMMA LostType ==
  ASSUME TypeOK, NEW s, Lost(s)
  PROVE /\ sock' \in [Sockets -> {"closed", "connecting", "open"}]
        /\ wire' \in [Sockets -> Seq(Message)] /\ \A t \in Sockets : Len(wire'[t]) <= SendCap
        /\ fetch' \in [Sockets -> SUBSET (Snapshot \cup {Reading})]
<1>1. Channel(<<>>)
  BY DEF Channel
<1>2. wire' = [t \in Sockets |-> wire'[t]] /\ \A t \in Sockets : Channel(wire'[t])
  BY <1>1 DEF Lost, TypeOK, Channel, Message
<1>3. sock' \in [Sockets -> {"closed", "connecting", "open"}]
      /\ fetch' \in [Sockets -> SUBSET (Snapshot \cup {Reading})]
  BY DEF Lost, TypeOK
<1> QED BY <1>2, <1>3, Channels

LEMMA FaultType == TypeOK /\ (Fault \/ UNCHANGED faults) => faults' \in 0 .. MaxFaults
  BY DEF TypeOK, Fault

LEMMA ClosedType ==
  ASSUME TypeOK, NEW s \in Sockets, Closed(s), Fault \/ UNCHANGED faults PROVE TypeOK'
<1>1. Lost(s) /\ attached' \subseteq Sockets
  BY DEF Closed, TypeOK
<1>3. timer' \in BOOLEAN
  <2>1. timer' = (timer \/ s \in attached)
    BY DEF Closed
  <2>2. CASE timer \/ s \in attached
    BY <2>1, <2>2
  <2>3. CASE ~(timer \/ s \in attached)
    BY <2>1, <2>3
  <2> QED BY <2>2, <2>3
<1>2. faults' \in 0 .. MaxFaults
  BY FaultType
<1>4. {session, mounted, timer, loaded}' \subseteq BOOLEAN
  BY <1>3, Zenon DEF Closed, TypeOK
<1>5. UNCHANGED <<torrents, had, changes, mounted, current, rows, loaded, events, peer, session>>
  BY DEF Closed, world
<1> QED BY <1>1, <1>2, <1>4, <1>5, LostType DEF TypeOK, Message

LEMMA TypeStep == TypeOK /\ [Next]_vars => TypeOK'
<1> SUFFICES ASSUME TypeOK, [Next]_vars PROVE TypeOK'
  OBVIOUS
<1> USE DEF Message
<1>1. ASSUME NEW h \in Hashes, NEW s \in States \cup {Gone}, Change(h, s) PROVE TypeOK'
  <2>1. [hash |-> h, state |-> s] \in Event
    BY DEF Event
  <2>2. events' \in Seq(Event)
    BY <1>1, <2>1 DEF Change, TypeOK
  <2>3. torrents' \in Rows /\ had' \in [Hashes -> SUBSET (States \cup {Gone})]
    BY <1>1 DEF Change, TypeOK, Rows
  <2>4. changes' \in 0 .. MaxChanges
    BY <1>1 DEF Change, TypeOK
  <2> QED BY <1>1, <2>2, <2>3, <2>4 DEF Change, TypeOK, browser
<1>2. CASE Mount
  BY <1>2, ConnectType DEF Mount, TypeOK, world, hub
<1>3. CASE Reconnect
  BY <1>3, ConnectType DEF Reconnect, TypeOK, world, hub
<1>4. CASE Unmount
  <2>1. attached' \subseteq Sockets /\ timer' \in BOOLEAN /\ current' \in Sockets \cup {None}
    BY <1>4 DEF Unmount, TypeOK
  <2>2. /\ mounted' \in BOOLEAN /\ loaded' \in BOOLEAN /\ rows' \in Rows
        /\ UNCHANGED <<world, events, peer, session, faults>>
    BY <1>4 DEF Unmount, Leave, Rows, Empty
  <2>3. CASE current = None
    BY <1>4, <2>1, <2>2, <2>3 DEF Unmount, Leave, TypeOK, world
  <2>4. CASE current # None
    <3>1. Lost(current)
      BY <1>4, <2>4 DEF Unmount, Leave
    <3> QED BY <3>1, <2>1, <2>2, LostType DEF TypeOK, world
  <2> QED BY <2>3, <2>4
<1>5. ASSUME NEW s \in Sockets, Accept(s) PROVE TypeOK'
  BY <1>5 DEF Accept, TypeOK, world
<1>6. ASSUME NEW s \in Sockets, Refuse(s) \/ Break(s) \/ CloseArrives(s) PROVE TypeOK'
  <2>1. Closed(s) /\ (Fault \/ UNCHANGED faults)
    BY <1>6 DEF Refuse, Break, CloseArrives
  <2> QED BY <2>1, ClosedType
<1>7. ASSUME NEW s \in Sockets, Receive(s) PROVE TypeOK'
  <2>1. Channel(wire[s])
    BY DEF TypeOK, Channel
  <2>2. Channel(Tail(wire[s])) /\ Head(wire[s]) \in Message
    BY <1>7, <2>1, ChannelTail DEF Receive
  <2>3. wire' = [t \in Sockets |-> wire'[t]] /\ \A t \in Sockets : Channel(wire'[t])
    BY <1>7, <2>2 DEF Receive, TypeOK, Channel
  <2>4. rows' \in Rows
    BY <1>7, <2>2, AppliedType DEF Receive, TypeOK
  <2>5. loaded' \in BOOLEAN
    BY <1>7 DEF Receive, TypeOK
  <2> QED BY <1>7, <2>3, <2>4, <2>5, Channels DEF Receive, TypeOK, world
<1>8. ASSUME NEW s \in Sockets, Register(s) \/ RequestSync(s) PROVE TypeOK'
  <2>1. fetch' \in [Sockets -> SUBSET (Snapshot \cup {Reading})]
        /\ peer' \in [Sockets -> {None, "validated", "registered", "closing"}]
    BY <1>8 DEF Register, RequestSync, TypeOK
  <2> QED BY <1>8, <2>1 DEF Register, RequestSync, TypeOK, world, browser
<1>9. CASE Broadcast
  <2>1. events' \in Seq(Event) /\ Head(events) \in Message
    BY <1>9 DEF Broadcast, TypeOK
  <2>2. \A t \in Sockets : Channel(wire[t])
    BY DEF TypeOK, Channel
  <2>3. wire' = [t \in Sockets |-> wire'[t]] /\ \A t \in Sockets : Channel(wire'[t])
    BY <1>9, <2>1, <2>2, ChannelAppend DEF Broadcast
  <2> QED BY <1>9, <2>1, <2>3, Channels DEF Broadcast, TypeOK, world, browser
<1>10. ASSUME NEW s \in Sockets, ReadTasks(s) PROVE TypeOK'
  <2>1. PICK read \in Rows : Fetched(s, read) /\ (Fault \/ UNCHANGED faults)
    BY <1>10 DEF ReadTasks, TypeOK, Empty, Rows
  <2>2. fetch' \in [Sockets -> SUBSET (Snapshot \cup {Reading})]
    BY <2>1 DEF Fetched, TypeOK, Snapshot
  <2>3. faults' \in 0 .. MaxFaults
    BY <2>1, FaultType
  <2> QED BY <1>10, <2>2, <2>3 DEF ReadTasks, TypeOK, world, browser
<1>11. ASSUME NEW s \in Sockets, SendSnapshot(s) PROVE TypeOK'
  <2>1. PICK m \in fetch[s] \ {Reading} :
          /\ fetch' = [fetch EXCEPT ![s] = @ \ {m}]
          /\ \/ UNCHANGED wire
             \/ Len(wire[s]) < SendCap /\ wire' = [wire EXCEPT ![s] = Append(@, m)]
          /\ Fault \/ UNCHANGED faults
          /\ UNCHANGED <<world, browser, events, peer, session>>
    BY <1>11 DEF SendSnapshot
  <2>2. m \in Message
    BY DEF TypeOK
  <2>3. \A t \in Sockets : Channel(wire[t])
    BY DEF TypeOK, Channel
  <2>4. wire' = [t \in Sockets |-> wire'[t]] /\ \A t \in Sockets : Channel(wire'[t])
    <3>1. CASE UNCHANGED wire
      BY <2>3, <3>1 DEF TypeOK
    <3>2. CASE Len(wire[s]) < SendCap /\ wire' = [wire EXCEPT ![s] = Append(@, m)]
      <4>1. Channel(Append(wire[s], m))
        BY <2>2, <2>3, <3>2, ChannelAppend
      <4> QED BY <2>3, <3>2, <4>1 DEF TypeOK
    <3> QED BY <2>1, <3>1, <3>2
  <2>5. fetch' \in [Sockets -> SUBSET (Snapshot \cup {Reading})]
    BY <2>1 DEF TypeOK
  <2>6. faults' \in 0 .. MaxFaults
    BY <2>1, FaultType
  <2> QED BY <2>1, <2>4, <2>5, <2>6, Channels DEF TypeOK, world, browser
<1>12. ASSUME NEW s \in Sockets, PumpEnds(s) \/ Unregister(s) \/ MonitorSession(s) PROVE TypeOK'
  <2>1. peer' \in [Sockets -> {None, "validated", "registered", "closing"}]
    BY <1>12 DEF PumpEnds, Unregister, MonitorSession, TypeOK
  <2>2. \A t \in Sockets : Channel(wire[t]) /\ Channel(<<>>)
    BY DEF TypeOK, Channel
  <2>3. wire' = [t \in Sockets |-> wire'[t]] /\ \A t \in Sockets : Channel(wire'[t])
    BY <1>12, <2>2 DEF PumpEnds, Unregister, MonitorSession, TypeOK
  <2> QED BY <1>12, <2>1, <2>3, Channels
          DEF PumpEnds, Unregister, MonitorSession, TypeOK, world, browser
<1>13. CASE EndSession \/ DropSession
  BY <1>13 DEF EndSession, DropSession, TypeOK, world, browser, hub
<1>14. CASE UNCHANGED vars
  BY <1>14 DEF vars, world, browser, hub, TypeOK
<1> QED BY <1>1, <1>2, <1>3, <1>4, <1>5, <1>6, <1>7, <1>8, <1>9, <1>10, <1>11, <1>12, <1>13, <1>14
        DEF Next, HubLoop, SendInitialState, EventLoop

LEMMA TypeInit == Init => TypeOK
<1> SUFFICES ASSUME Init PROVE TypeOK
  OBVIOUS
<1>1. torrents \in Rows /\ rows \in Rows /\ had \in [Hashes -> SUBSET (States \cup {Gone})]
  BY DEF Init, Rows, Empty
<1>2. events \in Seq(Event)
  BY DEF Init
<1>5. {session, mounted, timer, loaded} \subseteq BOOLEAN
  BY Zenon DEF Init
<1>3. wire \in [Sockets -> Seq(Message)] /\ \A s \in Sockets : Len(wire[s]) <= SendCap
  BY DEF Init
<1>4. changes \in 0 .. MaxChanges /\ faults \in 0 .. MaxFaults
  BY DEF Init
<1> QED BY <1>1, <1>2, <1>3, <1>4, <1>5 DEF Init, TypeOK, Message

\* Every variable keeps its kind, and no channel holds more than it can.
THEOREM TypeCorrect == Spec => []TypeOK
BY TypeInit, TypeStep, PTL DEF Spec

-----------------------------------------------------------------------------
(* The sockets of the page.                                                *)

\* Without the count: what is live is the current socket, with its handlers, and
\* then no timer runs; a mounted page has one or the other.
SocketInv ==
  /\ mounted <=> (timer \/ \E s \in Sockets : Live(s))
  /\ \A s \in Sockets : Live(s) => ~timer /\ s = current /\ s \in attached

LEMMA SocketInvImplies == SocketInv => SocketDiscipline
<1> SUFFICES ASSUME SocketInv PROVE Cardinality({s \in Sockets : Live(s)}) <= 1
  BY DEF SocketInv, SocketDiscipline
<1> DEFINE L == {s \in Sockets : Live(s)}
<1>1. L \subseteq {current}
  BY DEF SocketInv
<1>2. IsFiniteSet({current}) /\ Cardinality({current}) = 1
  BY FS_Singleton
<1>3. Cardinality(L) <= Cardinality({current})
  BY <1>1, <1>2, FS_Subset
<1> QED BY <1>2, <1>3

\* connect(), called when no socket lives, makes the current one live.
LEMMA ConnectOpens ==
  ASSUME TypeOK, \A s \in Sockets : ~Live(s), Connect
  PROVE /\ current' \in Sockets /\ sock'[current'] # "closed" /\ current' \in attached'
        /\ \A s \in Sockets : sock'[s] # "closed" => s = current'
<1>1. ~(current # None /\ sock[current] = "open")
  BY DEF TypeOK, Live
<1>2. PICK s \in Sockets : /\ sock' = [sock EXCEPT ![s] = "connecting"]
                           /\ attached' = attached \cup {s} /\ current' = s
  BY <1>1, Zenon DEF Connect
<1> QED BY <1>2 DEF TypeOK, Live

\* A socket that lived is over: its handler is still there and arms the timer.
LEMMA ClosedArms ==
  ASSUME TypeOK, SocketInv, NEW s \in Sockets, Live(s), Closed(s)
  PROVE SocketInv'
<1>1. timer'
  BY DEF Closed, SocketInv
<1>2. \A t \in Sockets : ~Live(t)'
  BY DEF Closed, Lost, SocketInv, TypeOK, Live
<1>3. mounted'
  BY DEF Closed, SocketInv
<1> QED BY <1>1, <1>2, <1>3 DEF SocketInv

LEMMA SocketStep == TypeOK /\ SocketInv /\ [Next]_vars => SocketInv'
<1> SUFFICES ASSUME TypeOK, SocketInv, [Next]_vars PROVE SocketInv'
  OBVIOUS
<1>1. CASE Mount
  <2>1. \A s \in Sockets : ~Live(s)
    BY <1>1 DEF Mount, SocketInv
  <2>2. ~timer' /\ mounted' /\ Connect
    BY <1>1 DEF Mount, SocketInv
  <2> QED BY <2>1, <2>2, ConnectOpens DEF SocketInv, Live
<1>2. CASE Reconnect
  <2>1. \A s \in Sockets : ~Live(s)
    BY <1>2 DEF Reconnect, SocketInv
  <2>2. ~timer' /\ mounted' /\ Connect
    BY <1>2 DEF Reconnect, SocketInv
  <2> QED BY <2>1, <2>2, ConnectOpens DEF SocketInv, Live
<1>3. CASE Unmount
  <2>1. ~timer' /\ ~mounted'
    BY <1>3 DEF Unmount, Leave
  <2>2. \A s \in Sockets : ~Live(s)'
    <3>1. CASE current = None
      BY <1>3, <3>1 DEF Unmount, Leave, SocketInv, Live
    <3>2. CASE current # None
      BY <1>3, <3>2 DEF Unmount, Leave, Lost, SocketInv, TypeOK, Live
    <3> QED BY <3>1, <3>2
  <2> QED BY <2>1, <2>2 DEF SocketInv
<1>4. ASSUME NEW s \in Sockets, Accept(s) PROVE SocketInv'
  <2>1. \A t \in Sockets : Live(t)' <=> Live(t)
    BY <1>4 DEF Accept, TypeOK, Live
  <2>2. UNCHANGED <<mounted, timer, current, attached>>
    BY <1>4 DEF Accept
  <2> QED BY <2>1, <2>2 DEF SocketInv
<1>5. ASSUME NEW s \in Sockets, Refuse(s) \/ Break(s) \/ CloseArrives(s) PROVE SocketInv'
  <2>1. Live(s) /\ Closed(s)
    BY <1>5 DEF Refuse, Break, CloseArrives, Live
  <2> QED BY <2>1, ClosedArms
<1>6. CASE UNCHANGED <<mounted, timer, sock, current, attached>>
  BY <1>6 DEF SocketInv, Live
<1>7. \/ Mount \/ Reconnect \/ Unmount
      \/ \E s \in Sockets : Accept(s) \/ Refuse(s) \/ Break(s) \/ CloseArrives(s)
      \/ UNCHANGED <<mounted, timer, sock, current, attached>>
  <2>1. CASE \E s \in Sockets : \/ SendInitialState(s) \/ PumpEnds(s) \/ MonitorSession(s)
                                 \/ Receive(s) \/ RequestSync(s)
    BY <2>1 DEF SendInitialState, ReadTasks, SendSnapshot, PumpEnds, MonitorSession, Receive,
                RequestSync, browser
  <2>2. CASE HubLoop \/ EndSession \/ DropSession
    BY <2>2 DEF HubLoop, Broadcast, Register, Unregister, EndSession, DropSession, browser
  <2>3. CASE \E h \in Hashes, s \in States \cup {Gone} : Change(h, s)
    BY <2>3 DEF Change, browser
  <2>4. CASE UNCHANGED vars
    BY <2>4 DEF vars, browser
  <2> QED BY <2>1, <2>2, <2>3, <2>4 DEF Next, EventLoop
<1> QED BY <1>1, <1>2, <1>3, <1>4, <1>5, <1>6, <1>7

\* The page never has two live sockets, is never without a live socket or a timer
\* while it is mounted, and leaves neither behind (useTorrentsWS): over any number
\* of mounts, breaks, refusals and retries, and any number of sockets.
THEOREM SocketDisciplineCorrect == Spec => []SocketDiscipline
<1>1. Init => SocketInv
  BY DEF Init, SocketInv, Live
<1>2. Spec => []SocketInv
  BY <1>1, SocketStep, TypeCorrect, PTL DEF Spec
<1> QED BY <1>2, SocketInvImplies, PTL

-----------------------------------------------------------------------------
(* What the list shows.                                                    *)

\* A message, and a queue of them, say nothing but what torrents have been.
TellsOf(m, past) ==
  IF "rows" \in DOMAIN m THEN \A h \in Hashes : m.rows[h] \in past[h]
                         ELSE m.state \in past[m.hash]
AllTellOf(q, past) == \A i \in 1 .. Len(q) : TellsOf(q[i], past)

ViewInv ==
  /\ \A h \in Hashes : Gone \in had[h] /\ torrents[h] \in had[h] /\ rows[h] \in had[h]
  /\ AllTellOf(events, had)
  /\ \A s \in Sockets : AllTellOf(wire[s], had)
  /\ \A s \in Sockets : \A m \in fetch[s] \ {Reading} : TellsOf(m, had)

LEMMA TellsAppend ==
  ASSUME NEW past, NEW q \in Seq(Message), AllTellOf(q, past),
         NEW m \in Message, TellsOf(m, past)
  PROVE AllTellOf(Append(q, m), past)
  BY DEF AllTellOf

LEMMA TellsTail ==
  ASSUME NEW past, NEW q \in Seq(Message), AllTellOf(q, past), q # <<>>
  PROVE AllTellOf(Tail(q), past) /\ TellsOf(Head(q), past) /\ Head(q) \in Message
  BY DEF AllTellOf

LEMMA TellsNothing == ASSUME NEW past PROVE AllTellOf(<<>>, past)
  BY DEF AllTellOf

\* What has been remains.
LEMMA TellsLater ==
  ASSUME NEW past, NEW later, \A h \in Hashes : past[h] \subseteq later[h],
         NEW m \in Message, TellsOf(m, past)
  PROVE TellsOf(m, later)
<1>1. CASE m \in Snapshot /\ "rows" \in DOMAIN m
  BY <1>1 DEF TellsOf
<1>2. CASE m \in Event /\ "rows" \notin DOMAIN m
  BY <1>2 DEF TellsOf, Event
<1> QED BY <1>1, <1>2, KindOfMessage

LEMMA AppliedShowsPast ==
  ASSUME NEW m \in Message, TellsOf(m, had), TypeOK,
         \A h \in Hashes : rows[h] \in had[h]
  PROVE \A h \in Hashes : Applied(m)[h] \in had[h]
<1>1. CASE m \in Snapshot /\ "rows" \in DOMAIN m
  BY <1>1 DEF Applied, TellsOf
<1>2. CASE m \in Event /\ "rows" \notin DOMAIN m
  BY <1>2 DEF Applied, TellsOf, Event, TypeOK, Rows
<1> QED BY <1>1, <1>2, KindOfMessage

LEMMA ViewStep == TypeOK /\ ViewInv /\ [Next]_vars => ViewInv'
<1> SUFFICES ASSUME TypeOK, ViewInv, [Next]_vars PROVE ViewInv'
  OBVIOUS
<1> USE DEF Message
<1>0. /\ \A s \in Sockets : wire[s] \in Seq(Message)
      /\ \A s \in Sockets : \A m \in fetch[s] \ {Reading} : m \in Message
      /\ events \in Seq(Message)
  BY DEF TypeOK
<1>1. ASSUME NEW h \in Hashes, NEW s \in States \cup {Gone}, Change(h, s) PROVE ViewInv'
  <2> DEFINE e == [hash |-> h, state |-> s]
  <2>1. \A g \in Hashes : had[g] \subseteq had'[g]
    BY <1>1 DEF Change, TypeOK
  <2>2. e \in Message /\ "rows" \notin DOMAIN e
    BY DEF Event
  <2>3. TellsOf(e, had')
    BY <1>1, <2>2 DEF Change, TypeOK, TellsOf
  <2>4. \A m \in Message : TellsOf(m, had) => TellsOf(m, had')
    BY <2>1, TellsLater
  <2>5. AllTellOf(events, had')
    BY <1>0, <2>4 DEF AllTellOf, ViewInv
  <2>6. AllTellOf(events', had')
    BY <1>0, <1>1, <2>2, <2>3, <2>5, TellsAppend DEF Change
  <2>7. \A t \in Sockets : AllTellOf(wire'[t], had')
    <3>1. wire' = wire
      BY <1>1 DEF Change
    <3>2. ASSUME NEW t \in Sockets PROVE AllTellOf(wire[t], had')
      BY <1>0, <2>4 DEF AllTellOf, ViewInv
    <3> QED BY <3>1, <3>2
  <2>8. \A t \in Sockets : \A m \in fetch'[t] \ {Reading} : TellsOf(m, had')
    BY <1>0, <1>1, <2>4 DEF ViewInv, Change
  <2>9. \A g \in Hashes : Gone \in had'[g] /\ torrents'[g] \in had'[g] /\ rows'[g] \in had'[g]
    BY <1>1, <2>1 DEF ViewInv, Change, TypeOK, Rows, browser
  <2> QED BY <2>6, <2>7, <2>8, <2>9 DEF ViewInv
<1>2. CASE Mount \/ Reconnect \/ EndSession \/ DropSession \/ UNCHANGED vars
  <2>1. UNCHANGED <<torrents, had, rows, events, wire, fetch>>
    BY <1>2 DEF Mount, Reconnect, EndSession, DropSession, vars, world, browser, hub
  <2> QED BY <2>1 DEF ViewInv
<1>3. CASE Unmount
  <2>1. UNCHANGED <<torrents, had, events>> /\ \A h \in Hashes : rows'[h] = Gone
    BY <1>3 DEF Unmount, Leave, world, Empty
  <2>2. CASE current = None
    BY <1>3, <2>1, <2>2 DEF Unmount, Leave, ViewInv
  <2>3. CASE current # None
    <3>1. Lost(current)
      BY <1>3, <2>3 DEF Unmount, Leave
    <3>2. \A t \in Sockets : wire'[t] = wire[t] \/ wire'[t] = <<>>
      BY <3>1 DEF Lost, TypeOK
    <3>3. \A t \in Sockets : fetch'[t] \subseteq fetch[t]
      BY <3>1 DEF Lost, TypeOK
    <3> QED BY <2>1, <3>2, <3>3, TellsNothing DEF ViewInv
  <2> QED BY <2>2, <2>3
<1>4. ASSUME NEW s \in Sockets, \/ Refuse(s) \/ Break(s) \/ CloseArrives(s)
                                \/ PumpEnds(s) \/ Unregister(s) \/ MonitorSession(s) \/ Accept(s)
      PROVE ViewInv'
  <2>1. UNCHANGED <<torrents, had, rows, events>>
    BY <1>4 DEF Refuse, Break, CloseArrives, Closed, PumpEnds, Unregister, MonitorSession, Accept,
                world, browser
  <2>2. \A t \in Sockets : wire'[t] = wire[t] \/ wire'[t] = <<>>
    BY <1>4 DEF Refuse, Break, CloseArrives, Closed, Lost, PumpEnds, Unregister, MonitorSession,
                Accept, TypeOK
  <2>3. \A t \in Sockets : fetch'[t] \subseteq fetch[t]
    BY <1>4 DEF Refuse, Break, CloseArrives, Closed, Lost, PumpEnds, Unregister, MonitorSession,
                Accept, TypeOK
  <2> QED BY <2>1, <2>2, <2>3, TellsNothing DEF ViewInv
<1>5. ASSUME NEW s \in Sockets, Receive(s) PROVE ViewInv'
  <2>1. AllTellOf(Tail(wire[s]), had) /\ TellsOf(Head(wire[s]), had) /\ Head(wire[s]) \in Message
    BY <1>0, <1>5, TellsTail DEF Receive, ViewInv
  <2>2. \A h \in Hashes : rows'[h] \in had[h]
    BY <1>5, <2>1, AppliedShowsPast DEF Receive, ViewInv
  <2>3. \A t \in Sockets : AllTellOf(wire'[t], had)
    BY <1>5, <2>1 DEF Receive, ViewInv, TypeOK
  <2> QED BY <1>5, <2>2, <2>3 DEF Receive, ViewInv, world
<1>6. ASSUME NEW s \in Sockets, Register(s) \/ RequestSync(s) PROVE ViewInv'
  <2>1. \A t \in Sockets : fetch'[t] \ {Reading} = fetch[t] \ {Reading}
    <3>1. fetch' = [fetch EXCEPT ![s] = @ \cup {Reading}]
      BY <1>6 DEF Register, RequestSync
    <3>2. fetch \in [Sockets -> SUBSET (Snapshot \cup {Reading})]
      BY DEF TypeOK
    <3> HIDE DEF Message
    <3> QED BY <3>1, <3>2
  <2>2. UNCHANGED <<torrents, had, rows, events, wire>>
    BY <1>6 DEF Register, RequestSync, world, browser
  <2> QED BY <2>1, <2>2 DEF ViewInv
<1>7. CASE Broadcast
  <2>1. AllTellOf(Tail(events), had) /\ TellsOf(Head(events), had) /\ Head(events) \in Message
    BY <1>0, <1>7, TellsTail DEF Broadcast, ViewInv
  <2>2. \A t \in Sockets : AllTellOf(Append(wire[t], Head(events)), had)
    BY <1>0, <2>1, TellsAppend DEF ViewInv
  <2>3. \A t \in Sockets : AllTellOf(wire'[t], had)
    BY <1>7, <2>2 DEF Broadcast, ViewInv
  <2> QED BY <1>7, <2>1, <2>3 DEF Broadcast, ViewInv, world, browser
<1>8. ASSUME NEW s \in Sockets, ReadTasks(s) PROVE ViewInv'
  <2>1. PICK read \in Rows : Fetched(s, read) /\ \A h \in Hashes : read[h] \in had[h]
    <3>1. CASE Fetched(s, torrents)
      BY <3>1 DEF TypeOK, ViewInv
    <3>2. CASE Fetched(s, Empty)
      <4>1. Empty \in Rows /\ \A h \in Hashes : Empty[h] \in had[h]
        BY DEF Empty, Rows, ViewInv
      <4> QED BY <3>2, <4>1
    <3> QED BY <1>8, <3>1, <3>2 DEF ReadTasks
  <2>2. TellsOf([rows |-> read], had)
    BY <2>1 DEF TellsOf
  <2>3. \A t \in Sockets : \A m \in fetch'[t] \ {Reading} : m \in fetch[t] \/ m = [rows |-> read]
    BY <2>1 DEF Fetched, TypeOK
  <2>4. UNCHANGED <<torrents, had, rows, events, wire>>
    BY <1>8 DEF ReadTasks, world, browser
  <2> QED BY <2>2, <2>3, <2>4 DEF ViewInv
<1>9. ASSUME NEW s \in Sockets, SendSnapshot(s) PROVE ViewInv'
  <2>1. PICK m \in fetch[s] \ {Reading} :
          /\ fetch' = [fetch EXCEPT ![s] = @ \ {m}]
          /\ UNCHANGED wire \/ wire' = [wire EXCEPT ![s] = Append(@, m)]
          /\ UNCHANGED <<world, browser, events, peer, session>>
    BY <1>9 DEF SendSnapshot
  <2>2. AllTellOf(Append(wire[s], m), had)
    BY <1>0, TellsAppend DEF ViewInv
  <2>3. \A t \in Sockets : AllTellOf(wire'[t], had)
    <3>1. CASE UNCHANGED wire
      BY <3>1 DEF ViewInv
    <3>2. CASE wire' = [wire EXCEPT ![s] = Append(@, m)]
      BY <2>2, <3>2 DEF ViewInv, TypeOK
    <3> QED BY <2>1, <3>1, <3>2
  <2>4. \A t \in Sockets : fetch'[t] \subseteq fetch[t]
    BY <2>1 DEF TypeOK
  <2> QED BY <2>1, <2>3, <2>4 DEF ViewInv, world, browser
<1> QED BY <1>1, <1>2, <1>3, <1>4, <1>5, <1>6, <1>7, <1>8, <1>9
        DEF Next, HubLoop, SendInitialState, EventLoop

\* What the list shows is what FeedView lets it show: its safety part is
\* implemented, whatever snapshots and events overtake each other, are dropped or
\* fail to be read, over any number of connections (hub.go, useTorrentsWS,
\* Torrents.tsx).
THEOREM ViewSafety == Spec => View!Init /\ [][View!Next]_(View!vars)
<1>1. Init => ViewInv /\ View!Init
  <2> SUFFICES ASSUME Init PROVE ViewInv /\ View!Init
    OBVIOUS
  <2>1. \A h \in Hashes : Gone \in had[h] /\ torrents[h] \in had[h] /\ rows[h] \in had[h]
    BY DEF Init, Empty
  <2>2. AllTellOf(events, had) /\ \A s \in Sockets : AllTellOf(wire[s], had)
    BY TellsNothing DEF Init
  <2>3. \A s \in Sockets : \A m \in fetch[s] \ {Reading} : TellsOf(m, had)
    BY DEF Init
  <2>4. View!Init
    BY DEF Init, View!Init, Rows, Empty
  <2> QED BY <2>1, <2>2, <2>3, <2>4 DEF ViewInv
<1>2. TypeOK /\ TypeOK' /\ ViewInv' /\ [Next]_vars => [View!Next]_(View!vars)
  <2> SUFFICES ASSUME TypeOK, TypeOK', ViewInv', [Next]_vars PROVE [View!Next]_(View!vars)
    OBVIOUS
  <2>1. ASSUME NEW h \in Hashes, NEW s \in States \cup {Gone}, Change(h, s) PROVE View!Change(h)
    <3>1. UNCHANGED <<browser, peer, wire, fetch, session>>
      BY <2>1 DEF Change
    <3>2. Starved' <=> Starved
      BY <3>1 DEF Starved, browser
    <3>3. UNCHANGED (mounted /\ session /\ ~Starved)
      BY <3>1, <3>2 DEF browser
    <3>4. /\ torrents' = [torrents EXCEPT ![h] = s]
          /\ had' = [had EXCEPT ![h] = @ \cup {torrents'[h]}]
      BY <2>1 DEF Change, TypeOK, Rows
    <3> QED BY <3>1, <3>3, <3>4 DEF View!Change, browser
  <2>2. CASE UNCHANGED <<torrents, had>>
    <3>1. rows' \in [Hashes -> States \cup {Gone}] /\ \A h \in Hashes : rows'[h] \in had[h]
      BY <2>2 DEF TypeOK, ViewInv, Rows
    <3>2. (mounted /\ session)' \in BOOLEAN
      BY Zenon DEF TypeOK
    <3> QED BY <2>2, <3>1, <3>2 DEF View!Next, View!Show
  <2>3. UNCHANGED <<torrents, had>> \/ \E h \in Hashes, s \in States \cup {Gone} : Change(h, s)
    BY DEF Next, HubLoop, SendInitialState, EventLoop, vars, world, Mount, Unmount, Leave, Reconnect,
           EndSession, DropSession, ReadTasks, SendSnapshot, PumpEnds, MonitorSession, Accept,
           CloseArrives, Receive, Refuse, Break, Closed, RequestSync, Broadcast, Register, Unregister
  <2> QED BY <2>1, <2>2, <2>3 DEF View!Next
<1>3. Spec => []ViewInv
  BY <1>1, ViewStep, TypeCorrect, PTL DEF Spec
<1> QED BY <1>1, <1>2, <1>3, TypeCorrect, PTL DEF Spec
=============================================================================
