--------------------------- MODULE TorrentLimits ---------------------------
(***************************************************************************)
(* TorrentLimitModal.tsx: the limits of one torrent or of all selected     *)
(* ones.  A load asks for every torrent's limits and shows the first's; a  *)
(* save sends the download limit, then the upload limit, then the share    *)
(* limits, each to all torrents at once, and stops where one is refused.   *)
(* A speed limit of zero ("Unlimited" on the slider) is not sent.          *)
(***************************************************************************)
EXTENDS WebPage, Integers

CONSTANTS Torrents, MaxLimit

Limits == [down : 0..MaxLimit, up : 0..MaxLimit, share : {-2} \cup 0..MaxLimit]
Zero == [down |-> 0, up |-> 0, share |-> 0]
Phases == <<"down", "up", "share">>

Fresh == [limits |-> Zero, loading |-> FALSE, saving |-> FALSE, error |-> FALSE, mixed |-> FALSE]

Init ==
  /\ \E limited \in SUBSET Torrents :
       server = [limits |-> [t \in Torrents |-> IF t \in limited THEN [Zero EXCEPT !.down = 1] ELSE Zero]]
  /\ shown = <<>>
  /\ view = Fresh
  /\ asked = {} /\ dialog = Closed /\ apart = {} /\ sent = 0

-----------------------------------------------------------------------------
\* A call to every torrent at once; "to" tells the calls of one batch apart
\* and keeps the limits its handler closed over.
Batch(op, to) == {Request(op, "limits", t, to, Gone) : t \in to.tasks}
AskAll(others, op, to) ==
  /\ sent < MaxSent /\ sent' = sent + 1
  /\ asked' = others \cup Batch(op, to)
  /\ UNCHANGED apart

Batches(op) == {r.to : r \in {q \in asked : q.op = op}}
CallsOf(op, to) == {r \in asked : r.op = op /\ r.to = to}
AllAnswered(calls) == \A r \in calls : r.state # "asked"
OneRefused(calls) == \E r \in calls : r.state = "refused"
Here(calls) == \A r \in calls : r.heard

HandleShowLimits(tasks) ==
  /\ dialog = Closed
  /\ AskAll(asked, "load", [n |-> sent, tasks |-> tasks, wish |-> Zero])
  /\ dialog' = Over(Dialog("limits", tasks))
  /\ view' = [Fresh EXCEPT !.loading = TRUE]
  /\ UNCHANGED <<server, shown>>

\* The modal is unmounted when it closes; the save it has begun goes on.
Unmounted(others) ==
  /\ dialog' = Closed
  /\ view' = Fresh
  /\ asked' = {[r EXCEPT !.heard = FALSE] : r \in {q \in others : q.op # "load"}}
  /\ UNCHANGED <<server, shown, apart, sent>>

\* Escape and a click beside the modal close it even while it saves.
Close == Top.is = "limits" /\ Unmounted(asked)

LimitsLoaded ==
  /\ \E to \in Batches("load") :
       LET calls == CallsOf("load", to) IN
       /\ AllAnswered(calls)
       /\ asked' = asked \ calls
       /\ \E first \in calls :
            view' = IF OneRefused(calls) THEN [view EXCEPT !.loading = FALSE, !.error = TRUE]
                    ELSE [view EXCEPT !.loading = FALSE, !.limits = first.saw[first.on],
                                      !.mixed = \E r \in calls : r.saw[r.on] # first.saw[first.on]]
  /\ UNCHANGED <<server, shown, dialog, apart, sent>>

Enter(field, limit) ==
  /\ Top.is = "limits" /\ ~view.loading /\ limit # view.limits[field]
  /\ view' = [view EXCEPT !.limits[field] = limit]
  /\ UNCHANGED <<server, shown, asked, dialog, apart, sent>>

\* Sliders and number fields.
HandleInputChange == \E field \in {"down", "up"}, limit \in 0..MaxLimit : Enter(field, limit)

\* A mode and a number field (global is -2, unlimited -1 alike).
HandleLimitModeChange == \E limit \in {-2} \cup 0..MaxLimit : Enter("share", limit)

\* The phases from the i-th on that have something to send.
First(i, limits) == CHOOSE k \in i..3 : /\ k = 3 \/ limits[Phases[k]] > 0
                                        /\ \A j \in i..(k - 1) : limits[Phases[j]] = 0

HandleSave ==
  /\ Top.is = "limits" /\ ~view.loading /\ ~view.saving
  /\ AskAll(asked, Phases[First(1, view.limits)], [n |-> sent, tasks |-> Top.on, wish |-> view.limits])
  /\ view' = [view EXCEPT !.saving = TRUE, !.error = FALSE]
  /\ UNCHANGED <<server, shown, dialog>>

NextPhase ==
  /\ \E i \in 1..2 : \E to \in Batches(Phases[i]) :
       LET calls == CallsOf(Phases[i], to) IN
       /\ AllAnswered(calls) /\ ~OneRefused(calls)
       /\ asked' = (asked \ calls) \cup {[r EXCEPT !.heard = Here(calls)] :
                                           r \in Batch(Phases[First(i + 1, to.wish)], to)}
  /\ UNCHANGED <<server, shown, dialog, view, apart, sent>>

SaveStops ==
  /\ \E i \in 1..3 : \E to \in Batches(Phases[i]) :
       LET calls == CallsOf(Phases[i], to) IN
       /\ AllAnswered(calls) /\ OneRefused(calls)
       /\ asked' = asked \ calls
       /\ view' = IF Here(calls) THEN [view EXCEPT !.saving = FALSE, !.error = TRUE] ELSE view
  /\ UNCHANGED <<server, shown, dialog, apart, sent>>

\* A save that ends closes the modal, were it another one by now.
Saved ==
  \E to \in Batches("share") :
    LET calls == CallsOf("share", to) IN
    /\ AllAnswered(calls) /\ ~OneRefused(calls)
    /\ Unmounted(asked \ calls)

Effect(r) == IF r.op = "load" THEN server ELSE [server EXCEPT !.limits[r.on][r.op] = r.to.wish[r.op]]
Accepts(r) == TRUE

Next ==
  \/ \E tasks \in (SUBSET Torrents) \ {{}} : HandleShowLimits(tasks)
  \/ Close \/ LimitsLoaded \/ HandleInputChange \/ HandleLimitModeChange \/ HandleSave \/ NextPhase \/ SaveStops \/ Saved
  \/ Serve(Effect, Accepts)

-----------------------------------------------------------------------------
TypeOK ==
  /\ server.limits \in [Torrents -> Limits]
  /\ view \in [limits : Limits, loading : BOOLEAN, saving : BOOLEAN, error : BOOLEAN, mixed : BOOLEAN]

SpinnersHaveRequests ==
  /\ view.loading => Waiting("load")
  /\ view.saving => \E i \in 1..3 : \E r \in asked : r.op = Phases[i] /\ r.heard
Work == <<dialog, view.limits>>

=============================================================================
