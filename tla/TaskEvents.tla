----------------------------- MODULE TaskEvents -----------------------------
(***************************************************************************)
(* services/eventpoller and services/events for one worker: each poll      *)
(* compares the worker's torrents with the tracked states, commits the     *)
(* changes to memory, saves them in one batch, stores an event for each,   *)
(* then looks for torrents that are gone.  Any write may fail and the      *)
(* process may die between any two of them; it then starts from the saved  *)
(* states.                                                                 *)
(***************************************************************************)
EXTENDS Integers, FiniteSets

CONSTANTS
  Hashes,      \* torrents
  Torrents,    \* what the worker may say of one: state, progress, metadata
  Full,        \* progress of a complete torrent
  Nil,         \* no torrent
  MaxChanges,  \* bound: changes of torrents on the server
  MaxMishaps,  \* bound: failing writes and restarts
  MaxPurges    \* bound: completion events that grow too old

UploadStates   == {"UPLOADING", "STALLED_UPLOAD"}
DownloadStates == {"DOWNLOADING", "STALLED_DOWNLOAD"}
ErrorStates    == {"ERROR", "MISSING_FILES"}

States == {t.state : t \in Torrents}

\* What subscribers were told last of a torrent: its state, or not to be there.
Unknown == {"unheard", "removed"}

Event == [hash : Hashes, type : {"added", "state_change", "removed"},
          old : States \cup {"unheard"}, new : States \cup {"removed"}]

ASSUME TaskAssumption ==
  /\ \A t \in Torrents : t = [state |-> t.state, progress |-> t.progress, meta |-> t.meta]
  /\ Nil \notin Torrents /\ Unknown \cap States = {}
  /\ MaxChanges \in Nat /\ MaxMishaps \in Nat /\ MaxPurges \in Nat

VARIABLES
  world,      \* the torrents of the qBittorrent server
  memory,     \* taskStates
  rows,       \* the task_states table
  pc,         \* where the worker's poll is
  listing,    \* the torrents it works on
  batch,      \* the torrents whose rows it is to save or delete
  pending,    \* the events it is to store
  checks,     \* the completions it is to verify and store
  completed,  \* completion events stored, per torrent
  told,       \* history: the latest event stored of each torrent
  lost,       \* history: torrents of which an event or a state was lost since
  behind,     \* history: torrents whose latest change could not be saved
  gone,       \* history: torrents the server did not have when the poll began
  count       \* what the bounds limit

vars == <<world, memory, rows, pc, listing, batch, pending, checks, completed,
          told, lost, behind, gone, count>>

Tracked == {h \in Hashes : memory[h] # Nil}
Nowhere == [h \in Hashes |-> Nil]

\* Every variable holds a value of its kind, and a poll has at most one event
\* of a torrent to store.
TypeOK ==
  /\ world \in [Hashes -> Torrents \cup {Nil}]
  /\ memory \in [Hashes -> Torrents \cup {Nil}] /\ rows \in [Hashes -> Torrents \cup {Nil}]
  /\ pc \in {"idle", "save", "store", "remove"}
  /\ listing \in [Hashes -> Torrents \cup {Nil}]
  /\ batch \subseteq Hashes /\ checks \subseteq Hashes
  /\ pending \subseteq Event /\ \A e, f \in pending : e.hash = f.hash => e = f
  /\ completed \in [Hashes -> Nat]
  /\ told \in [Hashes -> States \cup Unknown]
  /\ lost \subseteq Hashes /\ behind \subseteq Hashes
  /\ gone \subseteq Hashes
  /\ count \in [changes : 0 .. MaxChanges, mishaps : 0 .. MaxMishaps, purges : 0 .. MaxPurges]

-----------------------------------------------------------------------------
Init ==
  /\ world = Nowhere /\ memory = Nowhere /\ rows = Nowhere
  /\ pc = "idle" /\ listing = Nowhere
  /\ batch = {} /\ pending = {} /\ checks = {}
  /\ completed = [h \in Hashes |-> 0] /\ told = [h \in Hashes |-> "unheard"]
  /\ lost = {} /\ behind = {} /\ gone = {}
  /\ count = [changes |-> 0, mishaps |-> 0, purges |-> 0]

Mishap == count.mishaps < MaxMishaps /\ count' = [count EXCEPT !.mishaps = @ + 1]
Works  == UNCHANGED count

(* TrackTasks. *)

\* States isSignificantStateChange does not tell apart.
Alike(s, t) == s = t \/ {s, t} \subseteq UploadStates \/ {s, t} \subseteq DownloadStates

\* Mistake: a download that fails is not told apart from one that goes on.
SignificantNotInError(s, t) == ~Alike(s, t) /\ ~({s, t} \subseteq DownloadStates \cup ErrorStates)

\* The events of a poll: one for a new torrent, one for a change of state that
\* is significant.
Significant(s, t) == ~Alike(s, t)

ChangesIn(tasks) ==
  {[hash |-> h, type |-> "added", old |-> "unheard", new |-> tasks[h].state] :
     h \in {h \in Hashes : tasks[h] # Nil /\ memory[h] = Nil}}
  \cup
  {[hash |-> h, type |-> "state_change", old |-> memory[h].state, new |-> tasks[h].state] :
     h \in {h \in Tracked : tasks[h] # Nil /\ Significant(memory[h].state, tasks[h].state)}}

\* A tracked torrent is seen complete; an insignificant change of state ends
\* the comparison early.
CompletionsIn(tasks) ==
  {h \in Tracked : /\ tasks[h] # Nil /\ tasks[h].progress = Full /\ memory[h].progress # Full
                   /\ tasks[h].state \notin ErrorStates
                   /\ memory[h].state # tasks[h].state
                        => Significant(memory[h].state, tasks[h].state)}

\* Mistake: a change of state forgets the progress.
RememberedStateOnly(old, new) == IF old = Nil THEN new ELSE [old EXCEPT !.state = new.state]

\* Mistake: a changed name is remembered before it is saved.
RememberedAtOnce(old, new) == new

\* A change of metadata alone is remembered only once it is saved.
MetaOnly(old, new) ==
  old # Nil /\ new # Nil /\ old.state = new.state /\ old.progress = new.progress

Remembered(old, new) == IF MetaOnly(old, new) THEN old ELSE new

\* Mistake: the error of a worker that could not be listed is overlooked.
UsableAnyway(failed) == TRUE

\* pollWorker gives up when the listing failed.
Usable(failed) == ~failed

\* ListTasks returns the worker's torrents, or none and an error; TrackTasks
\* compares them with the tracked states and updates these.
Poll ==
  /\ pc = "idle"
  /\ \E failed \in BOOLEAN :
       LET tasks == IF failed THEN Nowhere ELSE world
           now   == {h \in Hashes : tasks[h] # Nil}
       IN /\ Usable(failed)
          /\ listing' = tasks
          /\ memory' = [h \in Hashes |-> IF h \in now THEN Remembered(memory[h], tasks[h])
                                         ELSE memory[h]]
          /\ batch' = {h \in now : memory[h] # tasks[h]}
          /\ pending' = ChangesIn(tasks) /\ checks' = CompletionsIn(tasks)
  /\ pc' = "save"
  /\ gone' = {h \in Hashes : world[h] = Nil}
  /\ UNCHANGED <<world, rows, completed, told, lost, behind, count>>

\* SaveTaskStates: one batch, saved or not; nothing to save cannot fail.
Save ==
  /\ pc = "save" /\ pc' = "store"
  /\ \/ /\ Works
        /\ rows' = [h \in Hashes |-> IF h \in batch THEN listing[h] ELSE rows[h]]
        /\ memory' = [h \in Hashes |-> IF h \in batch THEN listing[h] ELSE memory[h]]
        /\ behind' = behind \ batch
     \/ /\ batch # {} /\ Mishap
        /\ behind' = behind \cup {h \in batch : ~MetaOnly(rows[h], listing[h])}
        /\ UNCHANGED <<rows, memory>>
  /\ UNCHANGED <<world, listing, batch, pending, checks, completed, told, lost,
                 gone>>

\* processEvents: an event is stored, then broadcast, or dropped.
Store(e) ==
  /\ e \in pending /\ pc \in {"store", "remove"}
  /\ pending' = pending \ {e}
  /\ \/ Works /\ told' = [told EXCEPT ![e.hash] = e.new] /\ lost' = lost \ {e.hash}
     \/ Mishap /\ lost' = lost \cup {e.hash} /\ UNCHANGED told
  /\ UNCHANGED <<world, memory, rows, pc, listing, batch, checks, completed,
                 behind, gone>>

\* Mistake: the events stored already are not consulted.
CompleteUnchecked(h) ==
  /\ pc = "store" /\ pending = {} /\ h \in checks
  /\ checks' = checks \ {h}
  /\ \/ Works /\ completed' = [completed EXCEPT ![h] = @ + 1]
     \/ Mishap /\ UNCHANGED completed
  /\ UNCHANGED <<world, memory, rows, pc, listing, batch, pending, told, lost,
                 behind, gone>>

\* processCompletionEvents: stored unless there is one, or either call fails.
Complete(h) ==
  /\ pc = "store" /\ pending = {} /\ h \in checks
  /\ checks' = checks \ {h}
  /\ \/ Works /\ completed' = [completed EXCEPT ![h] = IF @ = 0 THEN 1 ELSE @]
     \/ Mishap /\ UNCHANGED completed
  /\ UNCHANGED <<world, memory, rows, pc, listing, batch, pending, told, lost,
                 behind, gone>>

-----------------------------------------------------------------------------
(* DetectRemovedTasks. *)

\* Mistake: an empty list is taken for a worker that did not answer.
VanishedUnlessEmpty == IF listing = Nowhere THEN {} ELSE {h \in Tracked : listing[h] = Nil}

\* The tracked torrents that were not listed.
Vanished == {h \in Tracked : listing[h] = Nil}

\* They leave the memory, and their removal is announced first ...
Detect ==
  /\ pc = "store" /\ pending = {} /\ checks = {}
  /\ pending' = {[hash |-> h, type |-> "removed", old |-> memory[h].state, new |-> "removed"] :
                   h \in Vanished}
  /\ memory' = [h \in Hashes |-> IF h \in Vanished THEN Nil ELSE memory[h]]
  /\ batch' = Vanished
  /\ pc' = IF Vanished = {} THEN "idle" ELSE "remove"
  /\ listing' = Nowhere /\ gone' = IF Vanished = {} THEN {} ELSE gone
  /\ UNCHANGED <<world, rows, checks, completed, told, lost, behind, count>>

\* ... then their rows are deleted, in one statement.
DeleteRows ==
  /\ pc = "remove" /\ pending = {}
  /\ pc' = "idle" /\ batch' = {} /\ gone' = {}
  /\ \/ /\ Works /\ behind' = behind \ batch
        /\ rows' = [h \in Hashes |-> IF h \in batch THEN Nil ELSE rows[h]]
     \/ Mishap /\ behind' = behind \cup batch /\ UNCHANGED rows
  /\ UNCHANGED <<world, memory, listing, pending, checks, completed, told, lost>>

-----------------------------------------------------------------------------
(* The world. *)

\* A torrent is added, changes or is deleted in qBittorrent.
Change(h) ==
  /\ count.changes < MaxChanges /\ count' = [count EXCEPT !.changes = @ + 1]
  /\ \E t \in (Torrents \cup {Nil}) \ {world[h]} : world' = [world EXCEPT ![h] = t]
  /\ UNCHANGED <<memory, rows, pc, listing, batch, pending, checks, completed,
                 told, lost, behind, gone>>

\* PurgeOldEvents deletes the completion event of a torrent.
Purge(h) ==
  /\ completed[h] # 0
  /\ count.purges < MaxPurges /\ count' = [count EXCEPT !.purges = @ + 1]
  /\ completed' = [completed EXCEPT ![h] = 0]
  /\ UNCHANGED <<world, memory, rows, pc, listing, batch, pending, checks, told,
                 lost, behind, gone>>

\* Mistake: the saved states are not loaded.
ReloadedNothing == Nowhere

\* LoadStates.
Reloaded == rows

\* Torrents of which a restart forgets something: what could not be saved, an
\* event whose state was saved, a removal that was announced.
Forgotten ==
  behind \cup (IF pc = "store" THEN {e.hash : e \in pending} ELSE {})
         \cup (IF pc = "remove" THEN batch \ {e.hash : e \in pending} ELSE {})

\* The process dies and starts again.
Restart ==
  /\ Mishap /\ memory' = Reloaded
  /\ pc' = "idle" /\ listing' = Nowhere /\ batch' = {} /\ pending' = {} /\ checks' = {}
  /\ lost' = lost \cup Forgotten /\ behind' = {} /\ gone' = {}
  /\ UNCHANGED <<world, rows, completed, told>>

-----------------------------------------------------------------------------
Step == Poll \/ Save \/ (\E e \in pending : Store(e)) \/ (\E h \in Hashes : Complete(h))
          \/ Detect \/ DeleteRows

Next == Step \/ (\E h \in Hashes : Change(h) \/ Purge(h)) \/ Restart

\* The ticker ticks, the poll goes on, and some listings succeed.
Spec     == Init /\ [][Next]_vars
FairSpec == Spec /\ WF_vars(Step)

-----------------------------------------------------------------------------
(* Properties. *)

\* What an event claims to follow.
Follows(e, last) ==
  CASE e.type = "added"        -> last \in Unknown
    [] e.type = "state_change" -> last \in States /\ Alike(last, e.old)
    [] e.type = "removed"      -> last \in States /\ Alike(last, e.old)

\* The events of a torrent tell one story: none is repeated and none contradicts
\* the one before, over any polls and restarts, unless one was lost on the way.
StoryContinues == \A e \in pending : e.hash \notin lost => Follows(e, told[e.hash])

\* Between polls the story has arrived at the state that is tracked.
StoryIsCurrent ==
  pc = "idle" => \A h \in Hashes \ lost :
    IF memory[h] = Nil THEN told[h] \in Unknown
    ELSE told[h] \in States /\ Alike(told[h], memory[h].state)

\* A torrent is announced as removed only when the worker was listed without it:
\* an outage empties no list.
RemovalsConfirmed == \A e \in pending : e.type = "removed" => e.hash \in gone

\* Between polls the saved states are the tracked ones, a failed save of a
\* changed name included: it stays dirty and is tried again.
SavedIsTracked == pc = "idle" => \A h \in Hashes \ behind : rows[h] = memory[h]

\* A torrent's completion is stored once, whatever its progress was saved as.
OneCompletion == \A h \in Hashes : completed[h] <= 1

\* What is tracked ends up being what the server has, names included.
TrackingConverges == <>[](memory = world)
=============================================================================
