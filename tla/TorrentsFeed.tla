---------------------------- MODULE TorrentsFeed ----------------------------
(***************************************************************************)
(* The live list of torrents: the browser's socket (useTorrentsWS), the    *)
(* page that keeps the list (Torrents.tsx) and, at the other end, the hub  *)
(* with its clients and their pumps. The hub tells its clients of changes  *)
(* and sends each a snapshot when it registers and when it asks for one;   *)
(* snapshots are read by goroutines of their own, so they can be older     *)
(* than the changes they arrive after.                                     *)
(***************************************************************************)
EXTENDS Naturals, Sequences, FiniteSets

CONSTANTS Hashes, States, Gone,
          Sockets,      \* connections; one that is over can be used again
          SendCap,      \* messages a client's Send channel and socket hold
          MaxChanges,   \* changes of the torrents
          MaxFaults     \* breaks, refusals, failed reads and timed out sends

None == "none"

ASSUME FeedAssumption ==
  /\ Gone \notin States
  /\ None \notin Sockets
  /\ SendCap \in Nat \ {0}
  /\ MaxChanges \in Nat
  /\ MaxFaults \in Nat

Rows == [Hashes -> States \cup {Gone}]
Empty == [h \in Hashes |-> Gone]
Event == [hash : Hashes, state : States \cup {Gone}]
Snapshot == [rows : Rows]

VARIABLES
  torrents, had,   \* the workers' torrents; what each has been (history)
  events,          \* events the hub has not taken from its subscription
  session,         \* is the user's session valid?
  mounted,         \* is the page with the list mounted?
  sock,            \* the browser's side of each connection
  attached,        \* the sockets whose onclose handler is still set
  current,         \* wsRef.current
  timer,           \* is reconnectTimeoutRef armed?
  rows, loaded,    \* originalTasks, initialLoadComplete
  peer,            \* the hub's side: validated, registered, closing
  wire,            \* Send channel and socket: what is on its way down
  fetch,           \* SendInitialState goroutines: reading, or what they read
  changes, faults

world == <<torrents, had, changes>>
browser == <<mounted, sock, attached, current, timer, rows, loaded>>
hub == <<events, peer, wire, fetch>>
vars == <<world, browser, hub, session, faults>>

Reading == [reading |-> TRUE]

TypeOK ==
  /\ torrents \in Rows /\ rows \in Rows
  /\ had \in [Hashes -> SUBSET (States \cup {Gone})]
  /\ events \in Seq(Event)
  /\ {session, mounted, timer, loaded} \subseteq BOOLEAN
  /\ sock \in [Sockets -> {"closed", "connecting", "open"}]
  /\ attached \subseteq Sockets
  /\ current \in Sockets \cup {None}
  /\ peer \in [Sockets -> {None, "validated", "registered", "closing"}]
  /\ wire \in [Sockets -> Seq(Event \cup Snapshot)]
  /\ \A s \in Sockets : Len(wire[s]) <= SendCap
  /\ fetch \in [Sockets -> SUBSET (Snapshot \cup {Reading})]
  /\ changes \in 0 .. MaxChanges /\ faults \in 0 .. MaxFaults

Init ==
  /\ torrents \in Rows
  /\ had = [h \in Hashes |-> {Gone, torrents[h]}]
  /\ events = <<>>
  /\ session = TRUE
  /\ mounted = FALSE /\ timer = FALSE /\ loaded = FALSE
  /\ sock = [s \in Sockets |-> "closed"]
  /\ attached = {} /\ current = None
  /\ rows = Empty
  /\ peer = [s \in Sockets |-> None]
  /\ wire = [s \in Sockets |-> <<>>]
  /\ fetch = [s \in Sockets |-> {}]
  /\ changes = 0 /\ faults = 0

Fault == faults < MaxFaults /\ faults' = faults + 1

-----------------------------------------------------------------------------
(* The workers' torrents change, and the event service tells the hub.      *)

Change(h, s) ==
  /\ changes < MaxChanges /\ s # torrents[h]
  /\ torrents' = [torrents EXCEPT ![h] = s]
  /\ had' = [had EXCEPT ![h] = @ \cup {s}]
  /\ events' = Append(events, [hash |-> h, state |-> s])
  /\ changes' = changes + 1
  /\ UNCHANGED <<browser, peer, wire, fetch, session, faults>>

-----------------------------------------------------------------------------
(* The browser's socket.                                                   *)

Live(s) == sock[s] # "closed"
Over(s) == ~Live(s) /\ peer[s] = None

\* The browser's side of s is over. What is on its way, and what goroutines
\* still read for it, goes nowhere.
Lost(s) ==
  /\ sock' = [sock EXCEPT ![s] = "closed"]
  /\ wire' = [wire EXCEPT ![s] = <<>>]
  /\ fetch' = [fetch EXCEPT ![s] = {}]

\* connect(): nothing when the current socket is open, else a new socket
\* takes its place.
Connect ==
  IF current # None /\ sock[current] = "open"
  THEN UNCHANGED <<sock, attached, current>>
  ELSE \E s \in Sockets :
         /\ Over(s)
         /\ sock' = [sock EXCEPT ![s] = "connecting"]
         /\ attached' = attached \cup {s}
         /\ current' = s

Mount ==
  /\ ~mounted
  /\ mounted' = TRUE
  /\ Connect
  /\ UNCHANGED <<world, timer, rows, loaded, hub, session, faults>>

Leave == /\ mounted
         /\ mounted' = FALSE /\ loaded' = FALSE
         /\ rows' = Empty
         /\ IF current = None THEN UNCHANGED <<sock, wire, fetch>>
                              ELSE Lost(current)
         /\ UNCHANGED <<world, events, peer, session, faults>>

\* Mistake: the page leaves without taking the handlers off its socket.
UnmountAttached ==
  /\ Leave
  /\ timer' = (current \in attached)
  /\ attached' = attached \ {current}
  /\ UNCHANGED current

\* The cleanup of the effect: the timer is cleared, the handlers are taken off
\* the current socket, and it is closed. The page's state goes with it.
Unmount ==
  /\ Leave
  /\ timer' = FALSE
  /\ attached' = attached \ {current}
  /\ current' = None

\* The browser learns that s is over: what was on its way is lost, and onclose,
\* when it is still set, arms the timer of the next attempt.
Closed(s) ==
  /\ Lost(s)
  /\ attached' = attached \ {s}
  /\ timer' = (timer \/ s \in attached)
  /\ UNCHANGED <<world, mounted, current, rows, loaded,
                 events, peer, session>>

\* The upgrade passed the session middleware; the hub has not seen it yet.
Accept(s) ==
  /\ sock[s] = "connecting" /\ session
  /\ sock' = [sock EXCEPT ![s] = "open"]
  /\ peer' = [peer EXCEPT ![s] = "validated"]
  /\ UNCHANGED <<world, mounted, attached, current, timer, rows, loaded,
                 events, wire, fetch, session, faults>>

\* No server, or no session any more.
Refuse(s) ==
  /\ sock[s] = "connecting"
  /\ IF session THEN Fault ELSE UNCHANGED faults
  /\ Closed(s)

\* The connection breaks, and the browser notices first.
Break(s) ==
  /\ sock[s] = "open" /\ Fault
  /\ Closed(s)

\* The server's close frame, after what was still in the channel.
CloseArrives(s) ==
  /\ sock[s] = "open" /\ peer[s] \in {None, "closing"} /\ wire[s] = <<>>
  /\ Closed(s)
  /\ UNCHANGED faults

\* Mistake: a broken connection is not tried again.
ReconnectNever ==
  /\ timer
  /\ timer' = FALSE
  /\ UNCHANGED <<world, mounted, sock, attached, current, rows, loaded,
                 hub, session, faults>>

Reconnect ==
  /\ timer
  /\ timer' = FALSE
  /\ Connect
  /\ UNCHANGED <<world, mounted, rows, loaded, hub, session, faults>>

-----------------------------------------------------------------------------
(* The page's list.                                                        *)

\* Mistake: a snapshot is added to the list instead of replacing it.
AppliedMerged(m) ==
  IF "rows" \in DOMAIN m
  THEN [h \in Hashes |-> IF m.rows[h] = Gone THEN rows[h] ELSE m.rows[h]]
  ELSE [rows EXCEPT ![m.hash] = m.state]

\* INITIAL_STATE replaces the list; an event adds, patches or removes a row.
Applied(m) ==
  IF "rows" \in DOMAIN m THEN m.rows ELSE [rows EXCEPT ![m.hash] = m.state]

Receive(s) ==
  /\ wire[s] # <<>> /\ sock[s] = "open"
  /\ rows' = Applied(Head(wire[s]))
  /\ loaded' = (loaded \/ "rows" \in DOMAIN Head(wire[s]))
  /\ wire' = [wire EXCEPT ![s] = Tail(@)]
  /\ UNCHANGED <<world, mounted, sock, attached, current, timer,
                 events, peer, fetch, session, faults>>

\* The interval of the page asks for a snapshot, and readPump starts reading one.
\* The requests it drops, within five seconds of another, are those not taken.
RequestSync(s) ==
  /\ mounted /\ loaded
  /\ s = current /\ sock[s] = "open"
  /\ peer[s] = "registered"
  /\ fetch' = [fetch EXCEPT ![s] = @ \cup {Reading}]
  /\ UNCHANGED <<world, browser, events, peer, wire, session, faults>>

-----------------------------------------------------------------------------
(* The hub and the pumps of its clients.                                   *)

\* serveWs hands the client over and then starts its pumps; the hub starts the
\* goroutine that reads its first snapshot.
Register(s) ==
  /\ peer[s] = "validated"
  /\ peer' = [peer EXCEPT ![s] = "registered"]
  /\ fetch' = [fetch EXCEPT ![s] = @ \cup {Reading}]
  /\ UNCHANGED <<world, browser, events, wire, session, faults>>

\* Mistake: the loop does not look whether the channel has room.
BroadcastBlind ==
  /\ events # <<>>
  /\ events' = Tail(events)
  /\ wire' = [s \in Sockets |->
                IF peer[s] = "registered" /\ Live(s)
                THEN Append(wire[s], Head(events)) ELSE wire[s]]
  /\ UNCHANGED <<world, browser, peer, fetch, session, faults>>

\* A full channel drops the message for this client only; so does a channel
\* that is closed while its client is still on the map.
Broadcast ==
  /\ events # <<>>
  /\ events' = Tail(events)
  /\ wire' = [s \in Sockets |->
                IF peer[s] = "registered" /\ Live(s) /\ Len(wire[s]) < SendCap
                THEN Append(wire[s], Head(events)) ELSE wire[s]]
  /\ UNCHANGED <<world, browser, peer, fetch, session, faults>>

\* ListWorkersTasks of a SendInitialState: the torrents now, or, when the
\* workers cannot be listed, an empty list sent all the same.
Fetched(s, read) == fetch' = [fetch EXCEPT ![s] = (@ \ {Reading}) \cup {[rows |-> read]}]

ReadTasks(s) ==
  /\ Reading \in fetch[s]
  /\ \/ Fetched(s, torrents) /\ UNCHANGED faults
     \/ Fetched(s, Empty) /\ Fault
  /\ UNCHANGED <<world, browser, events, peer, wire, session>>

\* sendToClient: waits for room for five seconds, then gives up; a closed channel
\* panics, and the panic is recovered. A dead connection is sent to in vain.
SendSnapshot(s) ==
  \E m \in fetch[s] \ {Reading} :
    /\ fetch' = [fetch EXCEPT ![s] = @ \ {m}]
    /\ IF ~Live(s) \/ peer[s] # "registered"
       THEN UNCHANGED <<wire, faults>>
       ELSE IF Len(wire[s]) < SendCap
       THEN wire' = [wire EXCEPT ![s] = Append(@, m)] /\ UNCHANGED faults
       ELSE Fault /\ UNCHANGED wire
    /\ UNCHANGED <<world, browser, events, peer, session>>

\* readPump meets a connection that is gone: Close() closes the channel, and
\* hands the client to the hub. Nothing more can be delivered.
PumpEnds(s) ==
  /\ ~Live(s) /\ peer[s] = "registered"
  /\ peer' = [peer EXCEPT ![s] = "closing"]
  /\ UNCHANGED <<world, browser, events, wire, fetch, session, faults>>

Unregister(s) ==
  /\ peer[s] = "closing"
  /\ peer' = [peer EXCEPT ![s] = None]
  /\ UNCHANGED <<world, browser, events, wire, fetch, session, faults>>

-----------------------------------------------------------------------------
(* The session ends, beside all of this.                                   *)

\* logout (or an expiry nobody is told of): the session is deleted ...
EndSession ==
  /\ session
  /\ session' = FALSE
  /\ UNCHANGED <<world, browser, hub, faults>>

\* ... then the clients of the session that are on the map are closed. One that
\* passed the middleware and waits to register is not among them.
DropSession ==
  /\ ~session
  /\ peer' = [s \in Sockets |-> IF peer[s] = "registered" THEN "closing" ELSE peer[s]]
  /\ UNCHANGED <<world, browser, events, wire, fetch, session, faults>>

\* Mistake: only the logout closes sockets, and nobody looks again.
MonitorNever(s) == FALSE /\ UNCHANGED vars

\* monitorSession looks at the session every minute, and closes the connection
\* when it is no longer valid.
MonitorSession(s) ==
  /\ ~session /\ peer[s] = "registered"
  /\ peer' = [peer EXCEPT ![s] = "closing"]
  /\ wire' = [wire EXCEPT ![s] = <<>>]
  /\ UNCHANGED <<world, browser, events, fetch, session, faults>>

-----------------------------------------------------------------------------
HubLoop == Broadcast \/ \E s \in Sockets : Register(s) \/ Unregister(s)

SendInitialState(s) == ReadTasks(s) \/ SendSnapshot(s)

EventLoop(s) == Accept(s) \/ CloseArrives(s) \/ Receive(s)

Next ==
  \/ HubLoop \/ Mount \/ Unmount \/ Reconnect
  \/ EndSession \/ DropSession
  \/ \E s \in Sockets :
       \/ SendInitialState(s) \/ PumpEnds(s) \/ MonitorSession(s)
       \/ EventLoop(s) \/ Refuse(s) \/ Break(s) \/ RequestSync(s)
  \/ \E h \in Hashes, s \in States \cup {Gone} : Change(h, s)

\* The hub's loop, its goroutines and its pumps run, and so do the timers of the
\* page; the browser delivers what arrives. Nobody has to mount the page, change a
\* torrent or end a session.
Fairness ==
  /\ WF_vars(HubLoop) /\ WF_vars(Reconnect)
  /\ \A s \in Sockets :
       /\ WF_vars(ReadTasks(s)) /\ WF_vars(SendSnapshot(s)) /\ WF_vars(PumpEnds(s))
       /\ WF_vars(MonitorSession(s))
       /\ WF_vars(EventLoop(s)) /\ WF_vars(RequestSync(s))

Spec == Init /\ [][Next]_vars /\ Fairness

-----------------------------------------------------------------------------
\* The page never holds two live sockets (their messages would interleave in one
\* list), never gives up while it is mounted (a live socket or an armed timer),
\* and leaves neither behind when it is unmounted: connect() looks only at OPEN,
\* so this rests on who may call it and on the handlers taken off at the end.
SocketDiscipline ==
  /\ Cardinality({s \in Sockets : Live(s)}) <= 1
  /\ mounted <=> (timer \/ \E s \in Sockets : Live(s))
  /\ \A s \in Sockets : Live(s) => ~timer /\ s = current /\ s \in attached

\* Once a session ends, the hub lets go of every connection it was used for: also
\* of the one that had passed the middleware when the session ended and registered
\* after DropSession had looked.
SessionEndsSockets == ~session ~> \A s \in Sockets : peer[s] = None

\* The page waits for its first snapshot over a connection that lives, and none is
\* on its way: sendToClient gave it up, and only a loaded page asks for another.
Starved ==
  /\ ~loaded
  /\ \E s \in Sockets :
       /\ s = current /\ sock[s] = "open" /\ peer[s] = "registered"
       /\ fetch[s] = {} /\ \A n \in DOMAIN wire[s] : "rows" \notin DOMAIN wire[s][n]

View == INSTANCE FeedView WITH
          watching <- mounted /\ session /\ ~Starved

\* The feed implements the view: with all its snapshots out of order, dropped
\* messages, broken sockets and failed reads, a row shows only what its torrent
\* really was, and a list that is watched catches up, unless it is starved.
ImplementsView == View!Spec

=============================================================================
