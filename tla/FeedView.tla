------------------------------ MODULE FeedView ------------------------------
(***************************************************************************)
(* What the list of torrents promises its reader, whatever sockets, hubs   *)
(* and snapshots stand behind it: every row shows a state its torrent      *)
(* really had, and a list that is watched catches up with the torrents.    *)
(***************************************************************************)
CONSTANTS Hashes,    \* the torrents of the workers
          States,    \* what a torrent can be seen doing
          Gone       \* not there (any more)

VARIABLES torrents,  \* what each torrent is doing
          had,       \* everything it has been doing so far
          rows,      \* what the list shows of it
          watching   \* is somebody looking at a list that refreshes itself?

vars == <<torrents, had, rows, watching>>

Init ==
  /\ torrents \in [Hashes -> States \cup {Gone}]
  /\ had = [h \in Hashes |-> {Gone, torrents[h]}]
  /\ rows = [h \in Hashes |-> Gone]
  /\ watching \in BOOLEAN

Change(h) ==
  /\ \E s \in States \cup {Gone} : torrents' = [torrents EXCEPT ![h] = s]
  /\ had' = [had EXCEPT ![h] = @ \cup {torrents'[h]}]
  /\ UNCHANGED <<rows, watching>>

\* The list may be late, but it invents nothing.
Show ==
  /\ rows' \in [Hashes -> States \cup {Gone}]
  /\ \A h \in Hashes : rows'[h] \in had[h]
  /\ UNCHANGED <<torrents, had>>
  /\ watching' \in BOOLEAN

CatchUp ==
  /\ watching
  /\ rows # torrents
  /\ rows' = torrents
  /\ UNCHANGED <<torrents, had, watching>>

Next == Show \/ CatchUp \/ \E h \in Hashes : Change(h)

Spec == Init /\ [][Next]_vars /\ WF_vars(CatchUp)

=============================================================================
