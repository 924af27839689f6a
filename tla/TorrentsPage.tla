---------------------------- MODULE TorrentsPage ----------------------------
(***************************************************************************)
(* Torrents.tsx: what its user does to torrents, one at a time, in bulk,   *)
(* and through its dialogs.  A torrent is its worker and its hash; the     *)
(* page knows it by an id that is its hash alone (mappers/task.go), and    *)
(* finds the worker by looking the id up.  How rows reach the list is      *)
(* TorrentsFeed; here one row at a time catches up.                        *)
(***************************************************************************)
EXTENDS WebPage

CONSTANTS Torrents,   \* pairs of a worker and a hash
          Nobody

Worker(t) == t[1]
Id(t) == t[2]
Ids == {Id(t) : t \in Torrents}

States == {"plain", "changed"}

\* view: [loading: the workers, fed: was there a snapshot?, selecting, selected:
\* ids, refreshing]
Init ==
  /\ server = [torrents |-> [t \in Torrents |-> "plain"], workers |-> "listed"]
  /\ shown = [torrents |-> [t \in Torrents |-> Gone], workers |-> Gone]
  /\ view = [loading |-> TRUE, fed |-> FALSE, selecting |-> FALSE, selected |-> {}, refreshing |-> FALSE]
  /\ Mounted("workers")

-----------------------------------------------------------------------------
WorkersLoaded == Loaded("workers", "loading")

\* A snapshot, an event, or a torrent another client has removed.
Snapshot ==
  /\ shown' = [shown EXCEPT !.torrents = server.torrents]
  /\ view' = [view EXCEPT !.fed = TRUE]
  /\ UNCHANGED <<server, asked, dialog, apart, sent>>

Rows == {t \in Torrents : shown.torrents[t] # Gone}

\* Rows are shown, and joined with their workers, once both are there.
Visible == ~view.loading /\ view.fed /\ shown.workers # Gone /\ Rows # {}
Inert == dialog # Closed \/ ~Visible

\* The list is searched by id: the first row that has it.
Find(id) == {t \in Rows : Id(t) = id}

ToggleSelect(id) ==
  /\ ~Inert /\ view.selecting /\ Find(id) # {}
  /\ view' = [view EXCEPT !.selected = IF id \in @ THEN @ \ {id} ELSE @ \cup {id}]
  /\ UNCHANGED <<server, shown, asked, dialog, apart, sent>>

\* Off, on with nothing selected, everything in sight selected, off again.
ToggleSelectAll ==
  /\ ~Inert
  /\ LET seen == {Id(t) : t \in Rows} IN
     view' = CASE ~view.selecting -> [view EXCEPT !.selecting = TRUE, !.selected = {}]
               [] view.selecting /\ ~(seen \subseteq view.selected) -> [view EXCEPT !.selected = seen]
               [] OTHER -> [view EXCEPT !.selecting = FALSE, !.selected = {}]
  /\ UNCHANGED <<server, shown, asked, dialog, apart, sent>>

-----------------------------------------------------------------------------
\* Start, stop, force, reannounce, recheck, queue, location: the worker of the
\* row that is found is asked, and the list learns of it from the feed.
Act(id) ==
  /\ \/ ~Inert
     \/ Visible /\ Top.is = "details" /\ Id(Top.on) = id
  /\ \E t \in Find(id) : Ask("act", "torrents", {t}, "changed")
  /\ UNCHANGED <<server, shown, dialog, view>>

Acted ==
  /\ \E r \in Answers("act", "done") \cup Answers("bulk", "done") : Land(r)
  /\ UNCHANGED <<server, shown, dialog, view>>

\* The selected ids that are still found; the others are dropped silently.
BulkAction ==
  /\ Visible /\ dialog = Closed /\ view.selecting
  /\ \E items \in SUBSET Rows :
       /\ items # {}
       /\ {Id(t) : t \in items} = view.selected \cap {Id(t) : t \in Rows}
       /\ \A t \in items, u \in items : Id(t) = Id(u) => t = u
       /\ Ask("bulk", "torrents", items, "changed")
  /\ UNCHANGED <<server, shown, dialog, view>>

\* The dialog of the details keeps the row as it was when it was opened.
ShowDetails(id) ==
  /\ ~Inert
  /\ \E t \in Find(id) : dialog' = Over(Dialog("details", t))
  /\ UNCHANGED <<server, shown, asked, view, apart, sent>>

\* The limits of all that is selected go to the worker of one torrent.
ShowLimits(t) ==
  /\ ~Inert /\ t \in Rows
  /\ LET ids == IF view.selecting /\ Cardinality(view.selected) > 1 THEN view.selected ELSE {Id(t)} IN
     dialog' = Over(Dialog("limits", {<<Worker(t), id>> : id \in ids}))
  /\ UNCHANGED <<server, shown, asked, view, apart, sent>>

SaveLimits ==
  /\ Top.is = "limits"
  /\ Ask("limits", "torrents", Top.on, "changed")
  /\ UNCHANGED <<server, shown, dialog, view>>

\* A new category or new tags are written into the first row with the id.
SaveCategory ==
  /\ Visible /\ Top.is = "details"
  /\ Ask("category", "torrents", {Top.on}, "changed")
  /\ UNCHANGED <<server, shown, dialog, view>>

CategorySaved ==
  /\ \E r \in Answers("category", "done") :
       /\ \/ \E t \in r.on : \E u \in Find(Id(t)) : shown' = [shown EXCEPT !.torrents[u] = r.to]
          \/ (\A t \in r.on : Find(Id(t)) = {}) /\ UNCHANGED shown
       /\ Land(r)
  /\ UNCHANGED <<server, dialog, view>>

LimitsSaved ==
  /\ \E r \in Answers("limits", "done") : Land(r)
  /\ dialog' = Without({"limits"})
  /\ UNCHANGED <<server, shown, view>>

CloseDialog ==
  /\ dialog # Closed
  /\ dialog' = CloseTop
  /\ UNCHANGED <<server, shown, asked, view, apart, sent>>

-----------------------------------------------------------------------------
\* removeTasksLocally: every row with the id goes.
Removed(ids) == [t \in Torrents |-> IF Id(t) \in ids THEN Gone ELSE shown.torrents[t]]

\* From the details: their dialog closes, whichever torrent it is about by now.
DeleteTorrent ==
  /\ Visible /\ Top.is = "details"
  /\ \E t \in Find(Id(Top.on)) : Ask("remove", "torrents", {t}, {Top.on})
  /\ UNCHANGED <<server, shown, dialog, view>>

TorrentDeleted ==
  /\ \E r \in Answers("remove", "done") :
       /\ shown' = [shown EXCEPT !.torrents = Removed({Id(t) : t \in r.on})]
       /\ Land(r)
  /\ dialog' = Without({"details"})
  /\ UNCHANGED <<server, view>>

\* What the user means are rows; what the dialog keeps are their ids.
OpenDelete(rows) ==
  /\ ~Inert /\ rows # {}
  /\ dialog' = Over(Dialog("delete", rows))
  /\ UNCHANGED <<server, shown, asked, view, apart, sent>>

DeleteRow(t) == t \in Rows /\ OpenDelete({t})
DeleteSelected == view.selecting /\ OpenDelete({t \in Rows : Id(t) \in view.selected})

\* Every id is looked up again, and the answers are awaited together.
ConfirmDelete ==
  /\ Top.is = "delete"
  /\ \E found \in SUBSET Rows :
       /\ {Id(t) : t \in found} = {Id(t) : t \in Top.on} \cap {Id(t) : t \in Rows}
       /\ \A t \in found, u \in found : Id(t) = Id(u) => t = u
       /\ Ask("deletions", "torrents", found, Top.on)
  /\ view' = [view EXCEPT !.refreshing = TRUE]
  /\ UNCHANGED <<server, shown, dialog>>

\* Some of the workers may fail; allSettled lets nothing be thrown.
ServeDelete ==
  /\ \E r \in asked, gone \in SUBSET Torrents :
       /\ r.op = "deletions" /\ r.state = "asked" /\ gone \subseteq r.on
       /\ server' = [server EXCEPT !.torrents = [t \in Torrents |-> IF t \in gone THEN Gone ELSE @[t]]]
       /\ asked' = (asked \ {r}) \cup {[r EXCEPT !.state = "done", !.on = gone]}
  /\ UNCHANGED <<shown, dialog, view, apart, sent>>

\* Mistake: all that were to go leave the list.
ConfirmedAll ==
  /\ \E r \in Answers("deletions", "done") \cup Answers("deletions", "refused") :
       /\ shown' = [shown EXCEPT !.torrents = Removed({Id(t) : t \in r.to})]
       /\ view' = [view EXCEPT !.refreshing = FALSE]
       /\ Land(r)
  /\ dialog' = Without({"delete"})
  /\ UNCHANGED server

\* The dialog and the selection go, even if nothing could be deleted.
ConfirmedGone ==
  /\ \E r \in Answers("deletions", "done") \cup Answers("deletions", "refused") :
       /\ shown' = [shown EXCEPT !.torrents =
                      Removed(IF r.state = "done" THEN {Id(t) : t \in r.on} ELSE {})]
       /\ view' = IF Cardinality({Id(t) : t \in r.to}) > 1
                  THEN [view EXCEPT !.refreshing = FALSE, !.selecting = FALSE, !.selected = {}]
                  ELSE [view EXCEPT !.refreshing = FALSE]
       /\ Land(r)
  /\ dialog' = Without({"delete"})
  /\ UNCHANGED server

-----------------------------------------------------------------------------
Effect(r) ==
  CASE r.op \in {"act", "bulk", "category"} ->
         [server EXCEPT !.torrents = [t \in Torrents |-> IF t \in r.on /\ @[t] # Gone THEN r.to ELSE @[t]]]
    [] r.op = "remove" -> [server EXCEPT !.torrents = [t \in Torrents |-> IF t \in r.on THEN Gone ELSE @[t]]]
    [] OTHER -> server
Accepts(r) ==
  CASE r.op = "deletions" -> FALSE
    [] r.op = "load" -> TRUE
    [] OTHER -> \A t \in r.on : t \in Torrents /\ server.torrents[t] # Gone

Next ==
  \/ WorkersLoaded \/ Snapshot \/ ToggleSelectAll \/ BulkAction \/ Acted
  \/ \E id \in Ids : ToggleSelect(id) \/ Act(id) \/ ShowDetails(id)
  \/ \E t \in Torrents : ShowLimits(t) \/ DeleteRow(t)
  \/ SaveLimits \/ LimitsSaved \/ SaveCategory \/ CategorySaved \/ CloseDialog
  \/ DeleteTorrent \/ TorrentDeleted
  \/ DeleteSelected \/ ConfirmDelete \/ ServeDelete \/ ConfirmedGone
  \/ Refused({"act", "bulk", "category", "limits", "remove"})
  \/ Serve(Effect, Accepts)

-----------------------------------------------------------------------------
TypeOK ==
  /\ server.torrents \in [Torrents -> States \cup {Gone}] /\ shown.torrents \in [Torrents -> States \cup {Gone}]
  /\ view \in [loading : BOOLEAN, fed : BOOLEAN, selecting : BOOLEAN, selected : SUBSET Ids, refreshing : BOOLEAN]

SpinnersHaveRequests ==
  /\ view.loading => Waiting("load")
  /\ view.refreshing => Waiting("deletions")
Work == <<dialog, view.selected>>
\* A deletion ends its dialog and the selection even if it failed.
FailuresKeepWork == (\E r \in asked \ asked' : r.op = "deletions") \/ Keeps(Work, Work')

\* A row leaves the list only if the backend no longer has the torrent.
RowLeavesForAReason ==
  \A t \in Torrents : shown.torrents[t] # Gone /\ shown'.torrents[t] = Gone => server.torrents[t] = Gone

\* What is asked to be deleted is what the user pointed at.
DeletesWhatWasMeant == \A r \in asked : r.op \in {"deletions", "remove"} => r.on \subseteq r.to

=============================================================================
