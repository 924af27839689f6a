----------------------------- MODULE WorkerTabs -----------------------------
(***************************************************************************)
(* The tabs of WorkerDetailsModal.tsx for one worker: its limits           *)
(* (WorkerLimits.tsx), its speed schedules (BandwidthSchedules.tsx) and    *)
(* its log (WorkerLogsTab.tsx).  Schedules are a list whose order is their *)
(* priority; a new order is shown before the backend has agreed to it.     *)
(***************************************************************************)
EXTENDS WebPage

CONSTANTS Schedules, MaxSchedules, MaxLogs

Tabs == {"prefs", "schedules", "logs"}
Rests == {"plain", "typed"}      \* limits: 0, unlimited, and a limit
Forms == {"speed", "active"}
Levels == {"info", "warning"}
Level(line) == IF line % 2 = 0 THEN "info" ELSE "warning"
Defaults == [speed |-> "plain", active |-> "plain"]

\* view: the tab and its load; the forms of the limits; the dialogs and
\* spinners of the schedules; the filter of the log and the last line known.
Fresh(tab) ==
  [tab |-> tab, loading |-> TRUE, form |-> Defaults, saving |-> {},
   rest |-> "plain", savingSchedule |-> FALSE, deleting |-> FALSE, reordering |-> FALSE,
   filter |-> Levels, lastKnown |-> 0]

\* The worker has all schedules but one, in some order.
Stored == CHOOSE order \in [1..(Cardinality(Schedules) - 1) -> Schedules] :
            \A i, j \in DOMAIN order : i # j => order[i] # order[j]

Init ==
  /\ server = [prefs |-> [form \in Forms |-> "typed"], schedules |-> Stored, logs |-> 1]
  /\ shown = [prefs |-> Gone, schedules |-> <<>>, logs |-> <<>>]
  /\ \E tab \in Tabs : view = Fresh(tab) /\ Mounted(tab)

-----------------------------------------------------------------------------
On(tab) == view.tab = tab /\ dialog = Closed
Members(order) == {order[i] : i \in DOMAIN order}
Items == Members(shown.schedules)

ActiveTab(tab) ==
  /\ dialog = Closed /\ tab # view.tab /\ sent < MaxSent
  /\ LET going == {r \in Unheard : r.op # "load"} IN
       /\ Cardinality(going) < MaxAsked
       /\ asked' = Add(going, Request("load", tab, Gone, Gone, Gone))
  /\ sent' = sent + 1
  /\ shown' = [shown EXCEPT ![tab] = IF tab = "prefs" THEN Gone ELSE <<>>]
  /\ view' = Fresh(tab)
  /\ apart' = DOMAIN shown
  /\ UNCHANGED <<server, dialog>>

-----------------------------------------------------------------------------
\* Limits: a load that fails leaves the defaults in the forms.
PrefsLoaded ==
  /\ \E r \in Answers("load", "done") \cup Answers("load", "refused") :
       /\ r.list = "prefs" /\ Land(r)
       /\ shown' = IF r.state = "done" THEN [shown EXCEPT !.prefs = r.saw] ELSE shown
       /\ view' = [view EXCEPT !.loading = FALSE, !.form = IF r.state = "done" THEN r.saw ELSE @]
  /\ UNCHANGED <<server, dialog>>

SetLimit(form) ==
  /\ On("prefs") /\ ~view.loading
  /\ \E limit \in Rests : view' = [view EXCEPT !.form[form] = limit]
  /\ UNCHANGED <<server, shown, asked, dialog, apart, sent>>

HandleSaveLimits(form) ==
  /\ On("prefs") /\ ~view.loading /\ form \notin view.saving
  /\ Ask("limits", "prefs", form, view.form[form])
  /\ view' = [view EXCEPT !.saving = @ \cup {form}]
  /\ UNCHANGED <<server, shown, dialog>>

\* The forms are all there is to show: a saved one agrees with the worker.
LimitsSaved ==
  /\ \E r \in Answers("limits", "done") \cup Answers("limits", "refused") :
       /\ view' = [view EXCEPT !.saving = @ \ {r.on}]
       /\ shown' = IF r.state = "done" /\ shown.prefs # Gone THEN [shown EXCEPT !.prefs[r.on] = r.to] ELSE shown
       /\ Land(r)
  /\ UNCHANGED <<server, dialog>>

-----------------------------------------------------------------------------
\* Schedules.
Idle == view.tab = "schedules" /\ ~view.loading
Reload(others) ==
  /\ sent < MaxSent /\ sent' = sent + 1
  /\ asked' = Add(others, Request("load", "schedules", Gone, Gone, Gone))

SchedulesLoaded == Loaded("schedules", "loading")

OpenForm(s) ==
  /\ Idle /\ dialog = Closed
  /\ IF s = Gone THEN Len(shown.schedules) < MaxSchedules ELSE s \in Items
  /\ dialog' = Over(Dialog("schedule", s))
  /\ view' = [view EXCEPT !.rest = "plain"]
  /\ UNCHANGED <<server, shown, asked, apart, sent>>

OpenDelete(s) ==
  /\ Idle /\ dialog = Closed /\ s \in Items
  /\ dialog' = Over(Dialog("delete", s))
  /\ UNCHANGED <<server, shown, asked, view, apart, sent>>

CloseDialog ==
  /\ Idle /\ dialog # Closed /\ ~view.savingSchedule /\ ~view.deleting
  /\ dialog' = CloseTop
  /\ UNCHANGED <<server, shown, asked, view, apart, sent>>

TypeForm ==
  /\ Idle /\ Top.is = "schedule"
  /\ \E rest \in Rests : view' = [view EXCEPT !.rest = rest]
  /\ UNCHANGED <<server, shown, asked, dialog, apart, sent>>

\* A form without a name or a day is not sent ("plain").
Save ==
  /\ Idle /\ Top.is = "schedule" /\ ~view.savingSchedule /\ view.rest = "typed"
  /\ IF Top.on # Gone THEN Ask("update", "schedules", Top.on, Gone)
     ELSE /\ Len(shown.schedules) < MaxSchedules
          /\ \E s \in Schedules \ Items : Ask("create", "schedules", s, Gone)
  /\ view' = [view EXCEPT !.savingSchedule = TRUE]
  /\ UNCHANGED <<server, shown, dialog>>

RemoveSchedule ==
  /\ Idle /\ Top.is = "delete" /\ ~view.deleting
  /\ Ask("delete", "schedules", Top.on, Gone)
  /\ view' = [view EXCEPT !.deleting = TRUE]
  /\ UNCHANGED <<server, shown, dialog>>

ScheduleChanged ==
  /\ \E r \in Answers("create", "done") \cup Answers("update", "done") \cup Answers("delete", "done") :
       /\ Reload(asked \ {r})
       /\ view' = IF r.op = "delete" THEN [view EXCEPT !.deleting = FALSE, !.loading = TRUE]
                  ELSE [view EXCEPT !.savingSchedule = FALSE, !.loading = TRUE]
       /\ apart' = apart \cup {"schedules"}
  /\ dialog' = Closed
  /\ UNCHANGED <<server, shown>>

ScheduleRefused ==
  /\ \E r \in Answers("create", "refused") \cup Answers("update", "refused") \cup Answers("delete", "refused") :
       /\ view' = IF r.op = "delete" THEN [view EXCEPT !.deleting = FALSE]
                  ELSE [view EXCEPT !.savingSchedule = FALSE]
       /\ Land(r)
  /\ UNCHANGED <<server, shown, dialog>>

\* One is taken out of an order and put back at the j-th place.
Moved(order, i, j) ==
  LET rest == Only(order, DOMAIN order \ {i})
  IN  SubSeq(rest, 1, j - 1) \o <<order[i]>> \o SubSeq(rest, j, Len(rest))

\* By keyboard one place up or down, by dragging to any other place.
Reorder ==
  /\ Idle /\ dialog = Closed /\ ~view.reordering
  /\ \E i, j \in DOMAIN shown.schedules :
       /\ i # j
       /\ LET moved == Moved(shown.schedules, i, j) IN
            /\ shown' = [shown EXCEPT !.schedules = moved]
            /\ Ask("reorder", "schedules", Gone, moved)
  /\ view' = [view EXCEPT !.reordering = TRUE]
  /\ UNCHANGED <<server, dialog>>

Reordered ==
  /\ \E r \in Answers("reorder", "done") :
       shown' = [shown EXCEPT !.schedules = r.saw] /\ Land(r)
  /\ view' = [view EXCEPT !.reordering = FALSE]
  /\ UNCHANGED <<server, dialog>>

\* A refused order is undone by asking for the list again.
ReorderRefused ==
  /\ \E r \in Answers("reorder", "refused") : Reload(asked \ {r})
  /\ apart' = apart \cup {"schedules"}
  /\ view' = [view EXCEPT !.reordering = FALSE, !.loading = TRUE]
  /\ UNCHANGED <<server, shown, dialog>>

-----------------------------------------------------------------------------
\* The log: "to" keeps whether lines are to be added to those that are shown,
\* and the filter of the request, "on" the last line it was told to skip.
LogWritten ==
  /\ view.tab = "logs" /\ server.logs < MaxLogs
  /\ server' = [server EXCEPT !.logs = @ + 1]
  /\ apart' = apart \cup {"logs"}
  /\ UNCHANGED <<shown, asked, dialog, view, sent>>

Fetch(refresh, filter) ==
  /\ Ask("fetch", "logs", IF refresh THEN view.lastKnown ELSE 0, <<refresh, filter>>)
  /\ view' = [view EXCEPT !.loading = TRUE, !.filter = filter, !.lastKnown = IF refresh THEN @ ELSE 0]
  /\ UNCHANGED <<server, shown, dialog>>

Refresh == On("logs") /\ ~view.loading /\ Fetch(TRUE, view.filter)
ToggleLevel(level) ==
  On("logs") /\ Fetch(FALSE, IF level \in view.filter THEN view.filter \ {level} ELSE view.filter \cup {level})

Last(lines) == lines[Len(lines)]
Lines(n, after, filter) == Only([i \in 1..n |-> i], {i \in 1..n : i > after /\ Level(i) \in filter})

\* The lines are those of the moment the answer is taken over or, for a load,
\* of the moment it was served: an answer that waits is one served later.
LogsFetched ==
  /\ \E r \in Answers("fetch", "done") \cup Answers("load", "done") :
       LET first == r.op = "load"
           lines == IF first THEN Lines(r.saw, 0, Levels) ELSE Lines(server.logs, r.on, r.to[2])
       IN /\ r.list = "logs" /\ Land(r)
          /\ shown' = [shown EXCEPT !.logs = IF first \/ ~r.to[1] THEN lines ELSE @ \o lines]
          /\ view' = [view EXCEPT !.loading = FALSE,
                        !.lastKnown = IF lines # <<>> /\ Last(lines) > @ THEN Last(lines) ELSE @]
  /\ UNCHANGED <<server, dialog>>

LogsRefused ==
  /\ \E r \in Answers("fetch", "refused") \cup Answers("load", "refused") : r.list = "logs" /\ Land(r)
  /\ view' = [view EXCEPT !.loading = FALSE]
  /\ UNCHANGED <<server, shown, dialog>>

-----------------------------------------------------------------------------
\* A new schedule comes last; an order counts only if it names every schedule.
Effect(r) ==
  CASE r.op = "limits" -> [server EXCEPT !.prefs[r.on] = r.to]
    [] r.op = "create" -> [server EXCEPT !.schedules = Append(@, r.on)]
    [] r.op = "delete" -> [server EXCEPT !.schedules = Only(@, {i \in DOMAIN @ : @[i] # r.on})]
    [] r.op = "reorder" -> [server EXCEPT !.schedules = r.to]
    [] OTHER -> server
Accepts(r) ==
  CASE r.op = "create" -> r.on \notin Members(server.schedules) /\ Len(server.schedules) < MaxSchedules
    [] r.op \in {"update", "delete"} -> r.on \in Members(server.schedules)
    [] r.op = "reorder" -> Members(r.to) = Members(server.schedules) /\ Len(r.to) = Len(server.schedules)
    [] OTHER -> TRUE

Next ==
  \/ \E tab \in Tabs : ActiveTab(tab)
  \/ PrefsLoaded \/ LimitsSaved
  \/ \E form \in Forms : SetLimit(form) \/ HandleSaveLimits(form)
  \/ SchedulesLoaded \/ OpenForm(Gone) \/ \E s \in Schedules : OpenForm(s) \/ OpenDelete(s)
  \/ CloseDialog \/ TypeForm \/ Save \/ RemoveSchedule \/ ScheduleChanged \/ ScheduleRefused
  \/ Reorder \/ Reordered \/ ReorderRefused
  \/ LogWritten \/ Refresh \/ \E level \in Levels : ToggleLevel(level)
  \/ LogsFetched \/ LogsRefused
  \/ NobodyHears({"limits", "update", "create", "delete", "reorder", "fetch"})
  \/ Serve(Effect, Accepts)

-----------------------------------------------------------------------------
TypeOK ==
  /\ server.prefs \in [Forms -> Rests] /\ shown.prefs \in [Forms -> Rests] \cup {Gone}
  /\ Members(server.schedules) \cup Items \subseteq Schedules /\ Len(server.schedules) \in 0..MaxSchedules
  /\ view \in [tab : Tabs, loading : BOOLEAN, form : [Forms -> Rests], saving : SUBSET Forms, rest : Rests,
               savingSchedule : BOOLEAN, deleting : BOOLEAN, reordering : BOOLEAN, filter : SUBSET Levels,
               lastKnown : 0..MaxLogs]

ListsShowServer == ShowsServer({"prefs", "schedules"})
SpinnersHaveRequests ==
  /\ view.loading => Waiting("load") \/ Waiting("fetch")
  /\ view.saving # {} => Waiting("limits")
  /\ view.savingSchedule => Waiting("create") \/ Waiting("update")
  /\ view.deleting => Waiting("delete")
  /\ view.reordering => Waiting("reorder")
Work == <<dialog, view.rest, view.form>>

=============================================================================
