-------------------------- MODULE TaskEventsProofs --------------------------
(***************************************************************************)
(* Proofs about TaskEvents: the type invariant, what is saved, that an     *)
(* outage removes nothing, and the story that the events of a torrent      *)
(* tell, for any torrents, appearances and bounds.                         *)
(***************************************************************************)
EXTENDS TaskEvents, TLAPS

-----------------------------------------------------------------------------
(* Types. *)

\* The events of a poll are events, at most one of a torrent.
LEMMA ChangesType ==
  ASSUME TypeOK, NEW tasks \in [Hashes -> Torrents \cup {Nil}]
  PROVE  /\ ChangesIn(tasks) \subseteq Event
         /\ \A e, f \in ChangesIn(tasks) : e.hash = f.hash => e = f
         /\ \A e \in ChangesIn(tasks) : e.type # "removed"
  BY TaskAssumption, SMTT(60) DEF TypeOK, ChangesIn, Event, States, Tracked

\* The events of a detection are events, at most one of a torrent.
LEMMA RemovalsType ==
  ASSUME TypeOK
  PROVE  LET gone_ == {[hash |-> h, type |-> "removed", old |-> memory[h].state,
                        new |-> "removed"] : h \in Vanished}
         IN gone_ \subseteq Event /\ \A e, f \in gone_ : e.hash = f.hash => e = f
  BY TaskAssumption, SMTT(60) DEF TypeOK, Event, States, Tracked, Vanished

\* Initially every variable has its type.
LEMMA InitTypeOK == Init => TypeOK
  BY TaskAssumption, SMTT(60) DEF Init, TypeOK, Nowhere, Unknown

\* A mishap and its absence keep the bounds.
LEMMA MishapType ==
  ASSUME count \in [changes : 0 .. MaxChanges, mishaps : 0 .. MaxMishaps, purges : 0 .. MaxPurges],
         Mishap \/ Works
  PROVE  count' \in [changes : 0 .. MaxChanges, mishaps : 0 .. MaxMishaps, purges : 0 .. MaxPurges]
  BY TaskAssumption DEF Mishap, Works

\* Every step keeps the types.
LEMMA TypeStep == TypeOK /\ [Next]_vars => TypeOK'
<1> SUFFICES ASSUME TypeOK, [Next]_vars PROVE TypeOK'
  OBVIOUS
<1>1. CASE Poll
  <2>1. PICK failed \in BOOLEAN :
          LET tasks == IF failed THEN Nowhere ELSE world
              now   == {h \in Hashes : tasks[h] # Nil}
          IN /\ Usable(failed) /\ listing' = tasks
             /\ memory' = [h \in Hashes |-> IF h \in now THEN Remembered(memory[h], tasks[h])
                                            ELSE memory[h]]
             /\ batch' = {h \in now : memory[h] # tasks[h]}
             /\ pending' = ChangesIn(tasks) /\ checks' = CompletionsIn(tasks)
    BY <1>1, Zenon DEF Poll
  <2>2. listing' = world /\ world \in [Hashes -> Torrents \cup {Nil}]
    BY <2>1 DEF TypeOK, Usable
  <2>3. memory' \in [Hashes -> Torrents \cup {Nil}]
    BY <2>1 DEF TypeOK, Usable, Remembered
  <2>4. pending' = ChangesIn(world) /\ batch' \subseteq Hashes /\ checks' \subseteq Hashes
    BY <2>1 DEF TypeOK, Usable, CompletionsIn, Tracked
  <2>5. /\ pending' \subseteq Event
        /\ \A e, f \in pending' : e.hash = f.hash => e = f
    BY <2>2, <2>4, ChangesType
  <2>6. /\ UNCHANGED <<world, rows, completed, told, lost, behind, count>>
        /\ pc' = "save" /\ gone' = {h \in Hashes : world[h] = Nil}
    BY <1>1 DEF Poll
  <2> QED BY <2>2, <2>3, <2>4, <2>5, <2>6 DEF TypeOK
<1>2. CASE Save
  <2>1. count' \in [changes : 0 .. MaxChanges, mishaps : 0 .. MaxMishaps, purges : 0 .. MaxPurges]
    BY <1>2, MishapType DEF Save, TypeOK
  <2>2. rows' \in [Hashes -> Torrents \cup {Nil}] /\ memory' \in [Hashes -> Torrents \cup {Nil}]
    BY <1>2 DEF Save, TypeOK
  <2>3. behind' \subseteq Hashes
    BY <1>2 DEF Save, TypeOK
  <2> QED BY <1>2, <2>1, <2>2, <2>3 DEF Save, TypeOK
<1>3. ASSUME NEW e \in pending, Store(e) PROVE TypeOK'
  <2>1. count' \in [changes : 0 .. MaxChanges, mishaps : 0 .. MaxMishaps, purges : 0 .. MaxPurges]
    BY <1>3, MishapType DEF Store, TypeOK
  <2>2. e.hash \in Hashes /\ e.new \in States \cup Unknown
    BY DEF TypeOK, Event, Unknown
  <2>3. told' \in [Hashes -> States \cup Unknown] /\ lost' \subseteq Hashes
    BY <1>3, <2>2 DEF Store, TypeOK
  <2> QED BY <1>3, <2>1, <2>3 DEF Store, TypeOK
<1>4. ASSUME NEW h \in Hashes, Complete(h) PROVE TypeOK'
  <2>1. count' \in [changes : 0 .. MaxChanges, mishaps : 0 .. MaxMishaps, purges : 0 .. MaxPurges]
    BY <1>4, MishapType DEF Complete, TypeOK
  <2>2. completed' \in [Hashes -> Nat]
    BY <1>4 DEF Complete, TypeOK
  <2> QED BY <1>4, <2>1, <2>2 DEF Complete, TypeOK
<1>5. CASE Detect
  <2>1. /\ pending' \subseteq Event
        /\ \A e, f \in pending' : e.hash = f.hash => e = f
    BY <1>5, RemovalsType, Zenon DEF Detect
  <2>2. memory' \in [Hashes -> Torrents \cup {Nil}] /\ listing' \in [Hashes -> Torrents \cup {Nil}]
    BY <1>5 DEF Detect, TypeOK, Nowhere
  <2>3. batch' \subseteq Hashes /\ gone' \subseteq Hashes
    BY <1>5 DEF Detect, TypeOK, Vanished, Tracked
  <2> QED BY <1>5, <2>1, <2>2, <2>3 DEF Detect, TypeOK
<1>6. CASE DeleteRows
  <2>1. count' \in [changes : 0 .. MaxChanges, mishaps : 0 .. MaxMishaps, purges : 0 .. MaxPurges]
    BY <1>6, MishapType DEF DeleteRows, TypeOK
  <2>2. rows' \in [Hashes -> Torrents \cup {Nil}] /\ behind' \subseteq Hashes
    BY <1>6 DEF DeleteRows, TypeOK
  <2> QED BY <1>6, <2>1, <2>2 DEF DeleteRows, TypeOK
<1>7. ASSUME NEW h \in Hashes, Change(h) PROVE TypeOK'
  <2>1. count' \in [changes : 0 .. MaxChanges, mishaps : 0 .. MaxMishaps, purges : 0 .. MaxPurges]
    BY <1>7, TaskAssumption DEF Change, TypeOK
  <2>2. world' \in [Hashes -> Torrents \cup {Nil}]
    BY <1>7 DEF Change, TypeOK
  <2> QED BY <1>7, <2>1, <2>2 DEF Change, TypeOK
<1>8. ASSUME NEW h \in Hashes, Purge(h) PROVE TypeOK'
  <2>1. count' \in [changes : 0 .. MaxChanges, mishaps : 0 .. MaxMishaps, purges : 0 .. MaxPurges]
    BY <1>8, TaskAssumption DEF Purge, TypeOK
  <2>2. completed' \in [Hashes -> Nat]
    BY <1>8 DEF Purge, TypeOK
  <2> QED BY <1>8, <2>1, <2>2 DEF Purge, TypeOK
<1>9. CASE Restart
  <2>1. count' \in [changes : 0 .. MaxChanges, mishaps : 0 .. MaxMishaps, purges : 0 .. MaxPurges]
    BY <1>9, MishapType DEF Restart, TypeOK
  <2>2. \A e \in pending : e.hash \in Hashes
    BY DEF TypeOK, Event
  <2>3. lost' \subseteq Hashes
    BY <1>9, <2>2 DEF Restart, Forgotten, TypeOK
  <2>4. listing' \in [Hashes -> Torrents \cup {Nil}] /\ memory' \in [Hashes -> Torrents \cup {Nil}]
    BY <1>9 DEF Restart, Reloaded, Nowhere, TypeOK
  <2> QED BY <1>9, <2>1, <2>3, <2>4 DEF Restart, TypeOK
<1>10. CASE UNCHANGED vars
  BY <1>10 DEF vars, TypeOK
<1> QED BY <1>1, <1>2, <1>3, <1>4, <1>5, <1>6, <1>7, <1>8, <1>9, <1>10 DEF Next, Step

\* Every variable keeps its type, however polls, failures and restarts
\* interleave.
THEOREM TypeCorrect == Spec => []TypeOK
<1>1. Init => TypeOK
  BY InitTypeOK
<1>2. TypeOK /\ [Next]_vars => TypeOK'
  BY TypeStep
<1> QED BY <1>1, <1>2, PTL DEF Spec

-----------------------------------------------------------------------------
(* What a poll does, spelled out for the torrents of the server. *)

\* A poll works on the server's list, since it gives up when there is none.
LEMMA PollActs ==
  ASSUME Poll
  PROVE  /\ pc = "idle" /\ pc' = "save" /\ listing' = world
         /\ memory' = [h \in Hashes |-> IF world[h] # Nil THEN Remembered(memory[h], world[h])
                                        ELSE memory[h]]
         /\ batch' = {h \in Hashes : world[h] # Nil /\ memory[h] # world[h]}
         /\ pending' = ChangesIn(world)
         /\ gone' = {h \in Hashes : world[h] = Nil}
         /\ UNCHANGED <<world, rows, completed, told, lost, behind, count>>
  BY DEF Poll, Usable

\* The events of a poll, one kind after the other.
LEMMA ChangesAre ==
  ASSUME NEW e \in ChangesIn(world)
  PROVE  /\ e.hash \in Hashes /\ world[e.hash] # Nil /\ e.new = world[e.hash].state
         /\ \/ e.type = "added" /\ memory[e.hash] = Nil
            \/ /\ e.type = "state_change" /\ memory[e.hash] # Nil
               /\ e.old = memory[e.hash].state
               /\ Significant(memory[e.hash].state, world[e.hash].state)
  BY SMTT(60) DEF ChangesIn, Tracked

\* A torrent without an event is not there, or is tracked in a similar state.
LEMMA NoChange ==
  ASSUME NEW h \in Hashes, \A e \in ChangesIn(world) : e.hash # h
  PROVE  world[h] = Nil \/ (memory[h] # Nil /\ Alike(memory[h].state, world[h].state))
<1>1. CASE world[h] # Nil /\ memory[h] = Nil
  <2>1. [hash |-> h, type |-> "added", old |-> "unheard", new |-> world[h].state] \in ChangesIn(world)
    BY <1>1 DEF ChangesIn
  <2> QED BY <2>1
<1>2. CASE world[h] # Nil /\ memory[h] # Nil /\ ~Alike(memory[h].state, world[h].state)
  <2>1. [hash |-> h, type |-> "state_change", old |-> memory[h].state, new |-> world[h].state]
          \in ChangesIn(world)
    BY <1>2 DEF ChangesIn, Tracked, Significant
  <2> QED BY <2>1
<1> QED BY <1>1, <1>2

-----------------------------------------------------------------------------
(* An outage removes nothing. *)

\* What a poll does not list was not there when it began.
GoneInv ==
  /\ pc \in {"save", "store"} => \A h \in Hashes : listing[h] = Nil => h \in gone
  /\ RemovalsConfirmed

\* Every step keeps it.
LEMMA GoneStep == TypeOK /\ GoneInv /\ [Next]_vars => GoneInv'
<1> SUFFICES ASSUME TypeOK, GoneInv, [Next]_vars PROVE GoneInv'
  OBVIOUS
<1>1. CASE Poll
  <2>1. \A e \in pending' : e.type # "removed"
    BY <1>1, PollActs, ChangesAre
  <2> QED BY <1>1, <2>1, PollActs DEF GoneInv, RemovalsConfirmed
<1>2. CASE Save
  BY <1>2 DEF Save, GoneInv, RemovalsConfirmed
<1>3. ASSUME NEW e \in pending, Store(e) PROVE GoneInv'
  BY <1>3 DEF Store, GoneInv, RemovalsConfirmed
<1>4. ASSUME NEW h \in Hashes, Complete(h) PROVE GoneInv'
  BY <1>4 DEF Complete, GoneInv, RemovalsConfirmed
<1>5. CASE Detect
  <2>1. \A e \in pending' : e.hash \in Vanished
    BY <1>5 DEF Detect
  <2>2. Vanished # {} => \A h \in Vanished : h \in gone'
    BY <1>5 DEF Detect, Vanished, Tracked, GoneInv
  <2>3. pc' \notin {"save", "store"}
    BY <1>5 DEF Detect
  <2> QED BY <2>1, <2>2, <2>3 DEF GoneInv, RemovalsConfirmed
<1>6. CASE DeleteRows
  BY <1>6 DEF DeleteRows, GoneInv, RemovalsConfirmed
<1>7. ASSUME NEW h \in Hashes, Change(h) \/ Purge(h) PROVE GoneInv'
  BY <1>7 DEF Change, Purge, GoneInv, RemovalsConfirmed
<1>8. CASE Restart
  BY <1>8 DEF Restart, GoneInv, RemovalsConfirmed
<1>9. CASE UNCHANGED vars
  BY <1>9 DEF vars, GoneInv, RemovalsConfirmed
<1> QED BY <1>1, <1>2, <1>3, <1>4, <1>5, <1>6, <1>7, <1>8, <1>9 DEF Next, Step

\* A torrent is announced as removed only after a poll that began when the
\* server did not have it, whatever listings fail.
THEOREM RemovalsConfirmedCorrect == Spec => []RemovalsConfirmed
<1>1. Init => GoneInv
  BY DEF Init, GoneInv, RemovalsConfirmed
<1>2. TypeOK /\ GoneInv /\ [Next]_vars => GoneInv'
  BY GoneStep
<1>3. GoneInv => RemovalsConfirmed
  BY DEF GoneInv
<1> QED BY <1>1, <1>2, <1>3, TypeCorrect, PTL DEF Spec

-----------------------------------------------------------------------------
(* What is saved. *)

\* How rows and memory differ during a poll, for torrents whose changes could
\* all be saved so far.
SavedAt(h) ==
  /\ pc = "remove" /\ h \in batch => memory[h] = Nil
  /\ h \notin behind =>
       /\ pc \in {"idle", "store"} => memory[h] = rows[h]
       /\ pc = "save" /\ h \in batch
            => listing[h] # Nil /\ memory[h] = Remembered(rows[h], listing[h])
       /\ pc \in {"save", "remove"} /\ h \notin batch => memory[h] = rows[h]

SavedInv == \A h \in Hashes : SavedAt(h)

\* Every step keeps it.
LEMMA SavedStep == TypeOK /\ SavedInv /\ [Next]_vars => SavedInv'
<1> SUFFICES ASSUME TypeOK, SavedInv, [Next]_vars, NEW k \in Hashes PROVE SavedAt(k)'
  BY DEF SavedInv
<1>0. SavedAt(k)
  BY DEF SavedInv
<1>1. CASE Poll
  BY <1>0, <1>1, PollActs DEF SavedAt, Remembered, MetaOnly, TypeOK
<1>2. CASE Save
  BY <1>0, <1>2 DEF Save, SavedAt, Remembered, TypeOK
<1>3. ASSUME NEW e \in pending, Store(e) PROVE SavedAt(k)'
  BY <1>0, <1>3 DEF Store, SavedAt
<1>4. ASSUME NEW h \in Hashes, Complete(h) PROVE SavedAt(k)'
  BY <1>0, <1>4 DEF Complete, SavedAt
<1>5. CASE Detect
  BY <1>0, <1>5 DEF Detect, SavedAt, Vanished, TypeOK
<1>6. CASE DeleteRows
  BY <1>0, <1>6 DEF DeleteRows, SavedAt, TypeOK
<1>7. ASSUME NEW h \in Hashes, Change(h) \/ Purge(h) PROVE SavedAt(k)'
  BY <1>0, <1>7 DEF Change, Purge, SavedAt
<1>8. CASE Restart
  BY <1>8 DEF Restart, Reloaded, SavedAt
<1>9. CASE UNCHANGED vars
  BY <1>0, <1>9 DEF vars, SavedAt
<1> QED BY <1>1, <1>2, <1>3, <1>4, <1>5, <1>6, <1>7, <1>8, <1>9 DEF Next, Step

\* Between polls the saved states are the tracked ones, except where the latest
\* change failed to be saved.
THEOREM SavedIsTrackedCorrect == Spec => []SavedIsTracked
<1>1. Init => SavedInv
  BY DEF Init, SavedInv, SavedAt, Nowhere
<1>2. TypeOK /\ SavedInv /\ [Next]_vars => SavedInv'
  BY SavedStep
<1>3. SavedInv => SavedIsTracked
  BY DEF SavedInv, SavedAt, SavedIsTracked
<1> QED BY <1>1, <1>2, <1>3, TypeCorrect, PTL DEF Spec

-----------------------------------------------------------------------------
(* Completions. *)

\* Every step keeps it: a completion is stored only where there is none.
LEMMA CompletionStep == TypeOK /\ OneCompletion /\ [Next]_vars => OneCompletion'
<1> SUFFICES ASSUME TypeOK, OneCompletion, [Next]_vars PROVE OneCompletion'
  OBVIOUS
<1>1. ASSUME NEW h \in Hashes, Complete(h) PROVE OneCompletion'
  BY <1>1 DEF Complete, OneCompletion, TypeOK
<1>2. ASSUME NEW h \in Hashes, Purge(h) PROVE OneCompletion'
  BY <1>2 DEF Purge, OneCompletion, TypeOK
<1>3. ASSUME completed' = completed PROVE OneCompletion'
  BY <1>3 DEF OneCompletion
<1>4. CASE Poll \/ Save \/ (\E e \in pending : Store(e)) \/ Detect \/ DeleteRows
           \/ (\E h \in Hashes : Change(h)) \/ Restart \/ UNCHANGED vars
  BY <1>3, <1>4, Zenon DEF Poll, Save, Store, Detect, DeleteRows, Change, Restart, vars
<1> QED BY <1>1, <1>2, <1>4 DEF Next, Step

\* A torrent has at most one stored completion, however often its progress
\* falls back and returns, a poll is cut short or the event is purged.
THEOREM OneCompletionCorrect == Spec => []OneCompletion
<1>1. Init => OneCompletion
  BY DEF Init, OneCompletion
<1>2. TypeOK /\ OneCompletion /\ [Next]_vars => OneCompletion'
  BY CompletionStep
<1> QED BY <1>1, <1>2, TypeCorrect, PTL DEF Spec

-----------------------------------------------------------------------------
(* The story. *)

\* Being alike is an equivalence: no state is one of an upload and of a download.
LEMMA AlikeTransitive ==
  ASSUME NEW s, NEW t, NEW u, Alike(s, t), Alike(t, u)
  PROVE  Alike(s, u) /\ Alike(t, s) /\ Alike(s, s)
  BY DEF Alike, UploadStates, DownloadStates

\* What subscribers were told last of torrent h is what record r says.
Agrees(r, h) ==
  /\ r = Nil => told[h] \in Unknown
  /\ r # Nil => told[h] \in States /\ Alike(told[h], r.state)

Announcing == {e.hash : e \in pending}

\* A torrent whose events all arrived so far: its story has arrived at the
\* tracked state, or is about to, and at the saved state, unless a restart
\* would lose something of it.
StoryAt(h) ==
  h \notin lost =>
    /\ h \notin Announcing => Agrees(memory[h], h)
    /\ h \notin Forgotten => Agrees(rows[h], h)

\* What is known of an event on its way.
EventAt(e) ==
  /\ e.hash \in batch
  /\ pc \in {"save", "store"} => /\ e.type # "removed" /\ memory[e.hash] # Nil
                                 /\ memory[e.hash].state = e.new
  /\ pc = "store" /\ e.hash \notin behind => rows[e.hash] # Nil /\ rows[e.hash].state = e.new
  /\ pc = "remove" => e.new = "removed"
  /\ e.hash \notin lost => Follows(e, told[e.hash])

\* What is known of the torrents whose rows are to change.
BatchAt(h) ==
  /\ pc = "save" => /\ listing[h] # Nil /\ memory[h] # Nil
                    /\ memory[h].state = listing[h].state
  /\ pc = "remove" => memory[h] = Nil

StoryInv ==
  /\ TypeOK
  /\ pc = "idle" => pending = {}
  /\ \A h \in Hashes : StoryAt(h)
  /\ \A e \in pending : EventAt(e)
  /\ \A h \in batch : BatchAt(h)

\* The properties follow.
LEMMA StoryImplies == StoryInv => StoryContinues /\ StoryIsCurrent
<1> SUFFICES ASSUME StoryInv PROVE StoryContinues /\ StoryIsCurrent
  OBVIOUS
<1>1. StoryContinues
  BY DEF StoryInv, EventAt, StoryContinues
<1>2. StoryIsCurrent
  BY DEF StoryInv, StoryAt, Announcing, Agrees, StoryIsCurrent
<1> QED BY <1>1, <1>2

\* It holds initially.
LEMMA StoryInit == Init => StoryInv
<1> SUFFICES ASSUME Init PROVE StoryInv
  OBVIOUS
<1>1. TypeOK
  BY InitTypeOK
<1>2. \A h \in Hashes : StoryAt(h)
  BY DEF Init, Nowhere, StoryAt, Agrees, Unknown
<1> QED BY <1>1, <1>2 DEF Init, StoryInv

\* A poll: each change of a torrent follows what was told of it.
LEMMA StoryPoll == ASSUME StoryInv, TypeOK', Poll PROVE StoryInv'
<1> USE PollActs
<1>1. ASSUME NEW h \in batch' PROVE BatchAt(h)'
  BY <1>1 DEF BatchAt, Remembered, MetaOnly, StoryInv, TypeOK
<1>2. ASSUME NEW e \in pending' PROVE EventAt(e)'
  <2>1. e \in ChangesIn(world)
    OBVIOUS
  <2>2. e.hash \in batch' /\ memory'[e.hash] # Nil /\ memory'[e.hash].state = e.new /\ e.type # "removed"
    BY <2>1, ChangesAre DEF Remembered, MetaOnly, StoryInv, TypeOK, Significant, Alike
  <2>3. e.hash \notin lost => Agrees(memory[e.hash], e.hash)
    BY <2>1, ChangesAre DEF StoryInv, StoryAt, Announcing
  <2>4. e.hash \notin lost => Follows(e, told[e.hash])
    BY <2>1, <2>3, ChangesAre DEF Agrees, Follows
  <2> QED BY <2>2, <2>4 DEF EventAt
<1>3. ASSUME NEW h \in Hashes PROVE StoryAt(h)'
  <2>1. h \notin lost /\ h \notin Announcing' => Agrees(memory[h], h) /\ \A e \in ChangesIn(world) : e.hash # h
    BY DEF StoryInv, StoryAt, Announcing
  <2>2. h \notin lost /\ h \notin Announcing' => Agrees(memory'[h], h)
    BY <2>1, NoChange, AlikeTransitive DEF Agrees, Remembered, MetaOnly, StoryInv, TypeOK
  <2>3. h \notin lost /\ h \notin Forgotten' => Agrees(rows[h], h)
    BY DEF StoryInv, StoryAt, Forgotten
  <2> QED BY <2>2, <2>3 DEF StoryAt, Agrees
<1> QED BY <1>1, <1>2, <1>3 DEF StoryInv

\* A save: the saved states are those the pending events lead to.
LEMMA StorySave == ASSUME StoryInv, TypeOK', Save PROVE StoryInv'
<1>0. /\ pc = "save" /\ pc' = "store"
      /\ UNCHANGED <<world, listing, batch, pending, checks, completed, told, lost, gone>>
      /\ \A h \in batch : BatchAt(h)
      /\ \A e \in pending : EventAt(e) /\ e.hash \in Hashes
  BY DEF Save, StoryInv, TypeOK, Event
<1>1. /\ \A h \in Hashes : h \notin batch => memory'[h] = memory[h] /\ rows'[h] = rows[h]
      /\ \A h \in batch : memory'[h] # Nil /\ memory'[h].state = listing[h].state
      /\ \A h \in batch : h \notin behind' => rows'[h] # Nil /\ rows'[h].state = listing[h].state
      /\ \A h \in Hashes : h \notin behind' => h \notin behind \/ (h \in batch /\ rows'[h] = listing[h])
      /\ \A h \in Hashes : rows'[h] = rows[h] \/ (h \in batch /\ rows'[h] = listing[h])
  BY <1>0 DEF Save, StoryInv, TypeOK, BatchAt, MetaOnly
<1>2. ASSUME NEW e \in pending' PROVE EventAt(e)'
  BY <1>0, <1>1 DEF EventAt, BatchAt, Follows
<1>3. ASSUME NEW h \in Hashes PROVE StoryAt(h)'
  <2>1. StoryAt(h) /\ Announcing' = Announcing
    BY <1>0 DEF StoryInv, Announcing
  <2>2. h \notin lost /\ h \notin Announcing => Agrees(memory[h], h)'
    BY <1>0, <1>1, <2>1 DEF StoryAt, Agrees, BatchAt
  <2>3. h \notin lost /\ h \notin Forgotten' => Agrees(rows[h], h)'
    <3>1. h \notin Forgotten' => h \notin behind' /\ h \notin Announcing
      BY <1>0 DEF Forgotten, Announcing
    <3>2. h \notin behind => h \notin Forgotten
      BY <1>0 DEF Forgotten
    <3> QED BY <1>0, <1>1, <2>1, <2>2, <3>1, <3>2 DEF StoryAt, Agrees, BatchAt
  <2> QED BY <1>0, <2>1, <2>2, <2>3 DEF StoryAt, Agrees
<1> QED BY <1>0, <1>2, <1>3 DEF StoryInv, BatchAt

\* An event is stored or lost: the story moves on for its torrent alone.
LEMMA StoryStore ==
  ASSUME StoryInv, TypeOK', NEW e \in pending, Store(e)
  PROVE  StoryInv'
<1>0. /\ pc \in {"store", "remove"} /\ pending' = pending \ {e}
      /\ UNCHANGED <<world, memory, rows, pc, listing, batch, checks, completed, behind,
                     gone>>
      /\ EventAt(e) /\ e.hash \in batch /\ e.hash \in Hashes /\ e \in Event
      /\ \A f \in pending : EventAt(f) /\ f.hash \in Hashes
      /\ \A f \in pending' : f.hash # e.hash
  BY DEF Store, StoryInv, TypeOK, Event, EventAt
<1>1. /\ \A h \in Hashes : h # e.hash => told'[h] = told[h] /\ (h \in lost' <=> h \in lost)
      /\ e.hash \in lost' \/ told'[e.hash] = e.new
  BY <1>0 DEF Store, StoryInv, TypeOK
<1>2. /\ e.hash \notin Announcing' /\ e.hash \in Announcing
      /\ \A h \in Hashes : h # e.hash => /\ h \in Announcing' <=> h \in Announcing
                                         /\ h \in Forgotten' <=> h \in Forgotten
  BY <1>0 DEF Announcing, Forgotten
<1>3. ASSUME NEW f \in pending' PROVE EventAt(f)'
  BY <1>0, <1>1 DEF EventAt, Follows
<1>4. ASSUME NEW h \in Hashes, h # e.hash PROVE StoryAt(h)'
  <2>1. StoryAt(h)
    BY DEF StoryInv
  <2> QED BY <1>0, <1>1, <1>2, <1>4, <2>1 DEF StoryAt, Agrees
<1>5. StoryAt(e.hash)'
  <2>1. CASE pc = "store"
    <3>1. e.new \in States
      BY <1>0, <2>1 DEF EventAt, StoryInv, TypeOK, States
    <3>2. e.hash \notin lost' => Agrees(memory[e.hash], e.hash)'
      BY <1>0, <1>1, <2>1, <3>1 DEF EventAt, Agrees, Alike
    <3>3. e.hash \notin Forgotten' => e.hash \notin behind
      BY <1>0 DEF Forgotten
    <3>4. e.hash \notin lost' /\ e.hash \notin Forgotten' => Agrees(rows[e.hash], e.hash)'
      BY <1>0, <1>1, <2>1, <3>1, <3>3 DEF EventAt, Agrees, Alike
    <3> QED BY <1>0, <3>2, <3>4 DEF StoryAt
  <2>2. CASE pc = "remove"
    <3>1. e.new = "removed" /\ memory[e.hash] = Nil
      BY <1>0, <2>2 DEF EventAt, BatchAt, StoryInv
    <3>2. e.hash \notin lost' => Agrees(memory[e.hash], e.hash)'
      BY <1>0, <1>1, <3>1 DEF Agrees, Unknown
    <3>3. e.hash \in Forgotten'
      BY <1>0, <1>2, <2>2 DEF Forgotten, Announcing
    <3> QED BY <1>0, <3>2, <3>3 DEF StoryAt
  <2> QED BY <1>0, <2>1, <2>2
<1>6. \A h \in batch' : BatchAt(h)'
  BY <1>0 DEF StoryInv, BatchAt
<1> QED BY <1>0, <1>3, <1>4, <1>5, <1>6 DEF StoryInv

\* Torrents that vanish were tracked, so their removal follows what was told.
LEMMA StoryDetect == ASSUME StoryInv, TypeOK', Detect PROVE StoryInv'
<1>0. /\ pc = "store" /\ pending = {} /\ batch' = Vanished /\ Vanished \subseteq Hashes
      /\ pc' = IF Vanished = {} THEN "idle" ELSE "remove"
      /\ UNCHANGED <<world, rows, checks, completed, told, lost, behind>>
      /\ \A h \in Hashes : memory'[h] = IF h \in Vanished THEN Nil ELSE memory[h]
      /\ \A h \in Vanished : memory[h] # Nil
  BY DEF Detect, Vanished, Tracked, StoryInv, TypeOK
<1>1. /\ \A e \in pending' : /\ e.hash \in Vanished /\ e.type = "removed" /\ e.new = "removed"
                             /\ e.old = memory[e.hash].state
      /\ \A h \in Vanished : h \in Announcing'
  <2>1. pending' = {[hash |-> h, type |-> "removed", old |-> memory[h].state, new |-> "removed"] :
                      h \in Vanished}
    BY DEF Detect
  <2>2. ASSUME NEW h \in Vanished PROVE h \in Announcing'
    <3> DEFINE e == [hash |-> h, type |-> "removed", old |-> memory[h].state, new |-> "removed"]
    <3>1. e \in pending'
      BY <2>1, <2>2, Zenon
    <3>2. e.hash = h
      OBVIOUS
    <3> HIDE DEF e
    <3> QED BY <3>1, <3>2, Zenon DEF Announcing
  <2> QED BY <2>1, <2>2
<1>2. \A h \in Hashes \ lost : Agrees(memory[h], h)
  BY <1>0 DEF StoryInv, StoryAt, Announcing
<1>3. ASSUME NEW e \in pending' PROVE EventAt(e)'
  <2>1. e.hash \notin lost => Follows(e, told[e.hash])
    BY <1>0, <1>1, <1>2, Zenon DEF Agrees, Follows
  <2> QED BY <1>0, <1>1, <2>1 DEF EventAt, Follows
<1>4. ASSUME NEW h \in Hashes PROVE StoryAt(h)'
  <2>1. StoryAt(h)
    BY DEF StoryInv
  <2>2. h \in Forgotten => h \in Forgotten'
    BY <1>0 DEF Forgotten
  <2>3. h \notin lost /\ h \notin Announcing' => Agrees(memory'[h], h)
    BY <1>0, <1>1, <1>2
  <2> QED BY <1>0, <2>1, <2>2, <2>3 DEF StoryAt, Agrees
<1>5. \A h \in batch' : BatchAt(h)'
  BY <1>0 DEF BatchAt
<1>6. pc' = "idle" => pending' = {}
  BY <1>0, <1>1
<1> QED BY <1>3, <1>4, <1>5, <1>6 DEF StoryInv

\* Rows of removed torrents go, or stay behind.
LEMMA StoryDelete == ASSUME StoryInv, TypeOK', DeleteRows PROVE StoryInv'
<1>0. /\ pc = "remove" /\ pc' = "idle" /\ pending = {} /\ batch' = {}
      /\ UNCHANGED <<memory, pending, told, lost>>
      /\ \A h \in batch : memory[h] = Nil
      /\ \A h \in Hashes : h \notin behind' =>
           \/ h \notin behind /\ h \notin batch /\ rows'[h] = rows[h]
           \/ h \in batch /\ rows'[h] = Nil
  BY DEF DeleteRows, StoryInv, TypeOK, BatchAt
<1>1. ASSUME NEW h \in Hashes PROVE StoryAt(h)'
  <2>1. StoryAt(h) /\ h \notin Announcing
    BY <1>0 DEF StoryInv, Announcing
  <2>2. h \notin Forgotten' => h \notin behind'
    BY DEF Forgotten
  <2>3. h \notin behind /\ h \notin batch => h \notin Forgotten
    BY <1>0 DEF Forgotten
  <2> QED BY <1>0, <2>1, <2>2, <2>3 DEF StoryAt, Agrees
<1> QED BY <1>0, <1>1 DEF StoryInv

\* A restart starts from the saved states, and marks what it loses.
LEMMA StoryRestart == ASSUME StoryInv, TypeOK', Restart PROVE StoryInv'
<1>0. /\ pc' = "idle" /\ pending' = {} /\ batch' = {} /\ memory' = rows /\ behind' = {}
      /\ lost' = lost \cup Forgotten
      /\ UNCHANGED <<rows, told>>
  BY DEF Restart, Reloaded
<1>1. ASSUME NEW h \in Hashes PROVE StoryAt(h)'
  BY <1>0 DEF StoryInv, StoryAt, Agrees
<1> QED BY <1>0, <1>1 DEF StoryInv

\* The other steps change nothing the story is about.
LEMMA StoryFrame ==
  ASSUME StoryInv, TypeOK',
         UNCHANGED <<memory, rows, pc, listing, batch, pending, told, lost, behind>>
  PROVE  StoryInv'
  BY DEF StoryInv, StoryAt, Agrees, Announcing, Forgotten, EventAt, Follows, BatchAt

\* Every step keeps the story.
LEMMA StoryStep == StoryInv /\ [Next]_vars => StoryInv'
<1> SUFFICES ASSUME StoryInv, [Next]_vars PROVE StoryInv'
  OBVIOUS
<1>0. TypeOK'
  BY TypeStep DEF StoryInv
<1>1. CASE Poll
  BY <1>0, <1>1, StoryPoll
<1>2. CASE Save
  BY <1>0, <1>2, StorySave
<1>3. CASE \E e \in pending : Store(e)
  BY <1>0, <1>3, StoryStore
<1>4. CASE \E h \in Hashes : Complete(h)
  BY <1>0, <1>4, StoryFrame DEF Complete
<1>5. CASE Detect
  BY <1>0, <1>5, StoryDetect
<1>6. CASE DeleteRows
  BY <1>0, <1>6, StoryDelete
<1>7. CASE \E h \in Hashes : Change(h) \/ Purge(h)
  BY <1>0, <1>7, StoryFrame DEF Change, Purge
<1>8. CASE Restart
  BY <1>0, <1>8, StoryRestart
<1>9. CASE UNCHANGED vars
  BY <1>0, <1>9, StoryFrame DEF vars
<1> QED BY <1>1, <1>2, <1>3, <1>4, <1>5, <1>6, <1>7, <1>8, <1>9 DEF Next, Step

\* The story invariant holds throughout.
LEMMA StoryInvariant == Spec => []StoryInv
<1>1. Init => StoryInv
  BY StoryInit
<1>2. StoryInv /\ [Next]_vars => StoryInv'
  BY StoryStep
<1> QED BY <1>1, <1>2, PTL DEF Spec

\* Every event about to be stored follows from the one stored before it, over
\* any polls, failures and restarts, unless the code lost one in between.
THEOREM StoryContinuesCorrect == Spec => []StoryContinues
<1>1. StoryInv => StoryContinues
  BY StoryImplies
<1> QED BY <1>1, StoryInvariant, PTL

\* Between polls the story of each torrent has arrived at its tracked state.
THEOREM StoryIsCurrentCorrect == Spec => []StoryIsCurrent
<1>1. StoryInv => StoryIsCurrent
  BY StoryImplies
<1> QED BY <1>1, StoryInvariant, PTL
=============================================================================
