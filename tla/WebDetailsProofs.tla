-------------------------- MODULE WebDetailsProofs --------------------------
(***************************************************************************)
(* The tabs of a worker's details, the overviews of the workers, the       *)
(* limits of a selection and the edits of one torrent, for any lists and   *)
(* any number of requests; then what holds of the client whatever page is  *)
(* on screen: its types, its lists, its spinners, and that a refused       *)
(* request costs the user nothing.                                         *)
(***************************************************************************)
EXTENDS WebAdminProofs

-----------------------------------------------------------------------------
(* The tabs of WorkerDetailsModal.tsx: limits, schedules and the log. *)

Prefs == [Worker!Forms -> Worker!Rests]
Orders == Seq(Schedules)
ModalServers == [prefs : Prefs, schedules : Orders, logs : 1..MaxLogs]
ModalLists == [prefs : Prefs \cup {Gone}, schedules : Orders, logs : Seq(1..MaxLogs)]
ModalCopies(list) == IF list = "prefs" THEN Prefs
                     ELSE IF list = "schedules" THEN Orders ELSE 1..MaxLogs
ModalViews ==
  [tab : Worker!Tabs, loading : BOOLEAN, form : Prefs, saving : SUBSET Worker!Forms, rest : Worker!Rests,
   savingSchedule : BOOLEAN, deleting : BOOLEAN, reordering : BOOLEAN, filter : SUBSET Worker!Levels,
   lastKnown : 0..MaxLogs]
ModalDialogs == [is : {"schedule"}, on : Schedules \cup {Gone}] \cup [is : {"delete"}, on : Schedules]
ScheduleOps == {"create", "update", "delete"}

ModalAsks(r) ==
  /\ Asks(r)
  /\ r.op \in ScheduleOps \cup {"load", "limits", "reorder", "fetch"} /\ r.list \in Worker!Tabs
  /\ r.op = "limits" => r.list = "prefs" /\ r.on \in Worker!Forms /\ r.to \in Worker!Rests
  /\ r.op \in ScheduleOps => r.list = "schedules" /\ r.on \in Schedules
  /\ r.op = "reorder" => r.list = "schedules" /\ r.to \in Orders
  /\ r.op = "fetch" => r.list = "logs"
  /\ r.op = "load" => r.heard
  /\ r.op \in {"load", "reorder"} /\ r.state = "done" => r.saw \in ModalCopies(r.list)
  /\ r.alone => r.heard

\* The limits are patched into the forms; schedules are loaded again, or shown
\* in their new order before the backend has agreed to it.
PrefsAgree ==
  /\ shown.prefs # Gone
  /\ \A r \in asked : r.op = "limits" /\ r.state = "done" =>
       server.prefs = [shown.prefs EXCEPT ![r.on] = r.to]
  /\ (\A r \in asked : r.op = "limits" => r.state # "done") => shown.prefs = server.prefs
OrderAgrees ==
  \/ shown.schedules = server.schedules
  \/ \E r \in asked : (r.op \in ScheduleOps /\ r.state = "done") \/ r.op = "reorder"
ModalAgrees ==
  /\ Solo
  /\ \A r \in asked : /\ r.op \in {"load", "reorder"} /\ r.list # "logs" /\ r.state = "done" /\ r.alone
                      => r.saw = server[r.list]
  /\ "prefs" \notin apart => PrefsAgree
  /\ "schedules" \notin apart => OrderAgrees
Heard(ops) == \E r \in asked : r.op \in ops /\ r.heard
ModalWaits ==
  /\ view.loading => Heard({"load", "fetch"})
  /\ \A f \in view.saving : \E r \in asked : r.op = "limits" /\ r.on = f /\ r.heard
  /\ view.savingSchedule => Heard({"create", "update"})
  /\ view.deleting => Heard({"delete"})
  /\ view.reordering => Heard({"reorder"})
ModalTyped ==
  /\ server \in ModalServers /\ Len(server.schedules) <= MaxSchedules
  /\ shown \in ModalLists
  /\ sent \in 0..Sends.worker /\ apart \subseteq Worker!Tabs
  /\ view \in ModalViews /\ dialog \in Seq(ModalDialogs)
ModalInv ==
  /\ ModalTyped
  /\ \A r \in asked : ModalAsks(r)
  /\ ModalAgrees /\ ModalWaits

LEMMA ModalPlain ==
  ASSUME ModalInv
  PROVE  /\ server \in ModalServers /\ shown \in ModalLists
         /\ Len(server.schedules) \in 0..MaxSchedules /\ MaxSchedules \in Nat
         /\ MaxLogs \in Nat /\ 0 \in 0..MaxLogs /\ 1 \in 1..MaxLogs
         /\ Gone \notin Prefs
         /\ DOMAIN shown = Worker!Tabs /\ Worker!Tabs = {"prefs", "schedules", "logs"}
         /\ sent \in 0..Sends.worker /\ Sends.worker \in Nat /\ apart \subseteq Worker!Tabs
         /\ view \in ModalViews /\ dialog \in Seq(ModalDialogs)
         /\ \A r \in asked : ModalAsks(r) /\ Asks(r)
         /\ Worker!Top = TopOf(dialog)
         /\ Worker!Top.is = "schedule" => Worker!Top.on \in Schedules \cup {Gone}
         /\ Worker!Top.is = "delete" => Worker!Top.on \in Schedules
<1>1. Worker!Top = TopOf(dialog)
  BY DEF Worker!Top, Worker!Closed, TopOf
<1>2. /\ Sends.worker \in Nat /\ Gone \notin Prefs
      /\ MaxSchedules \in Nat /\ MaxLogs \in Nat \ {0}
  BY ClientAssumption DEF ClientAssumption, Prefs
<1>3. dialog \in Seq(ModalDialogs)
  BY DEF ModalInv, ModalTyped
<1>4. ASSUME TopOf(dialog).is \in {"schedule", "delete"} PROVE TopOf(dialog) \in ModalDialogs
  <2>1. TopOf(dialog).is # "none"
    BY <1>4
  <2> QED BY <1>3, <2>1, TopTyped
<1>5. Len(server.schedules) \in 0..MaxSchedules
  <2>1. server.schedules \in Seq(Schedules) /\ Len(server.schedules) <= MaxSchedules
    BY DEF ModalInv, ModalTyped, ModalServers, Orders
  <2> DEFINE n == Len(server.schedules)
  <2>2. n \in Nat /\ n <= MaxSchedules
    BY <2>1
  <2> HIDE DEF n
  <2>3. n \in 0..MaxSchedules
    BY <1>2, <2>2
  <2> QED BY <2>3 DEF n
<1>6. 0 \in 0..MaxLogs /\ 1 \in 1..MaxLogs
  BY <1>2
<1>7. DOMAIN shown = Worker!Tabs /\ Worker!Tabs = {"prefs", "schedules", "logs"}
  BY DEF ModalInv, ModalTyped, ModalLists, Worker!Tabs
<1>8. /\ Worker!Top.is = "schedule" => Worker!Top.on \in Schedules \cup {Gone}
      /\ Worker!Top.is = "delete" => Worker!Top.on \in Schedules
  BY <1>1, <1>4 DEF ModalDialogs
<1> QED BY <1>1, <1>2, <1>5, <1>6, <1>7, <1>8 DEF ModalInv, ModalTyped, ModalAsks

\* Nothing happens to the requests and the lists.
LEMMA ModalIdle ==
  ASSUME ModalInv, UNCHANGED <<server, shown, asked, apart, sent>>,
         view' \in ModalViews, dialog' \in Seq(ModalDialogs),
         view'.loading = view.loading, view'.saving = view.saving,
         view'.savingSchedule = view.savingSchedule, view'.deleting = view.deleting,
         view'.reordering = view.reordering
  PROVE  ModalInv'
<1>1. ModalTyped'
  BY DEF ModalInv, ModalTyped
<1>2. ModalAgrees'
  BY DEF ModalInv, ModalAgrees, Solo, PrefsAgree, OrderAgrees
<1>3. ModalWaits'
  BY DEF ModalInv, ModalWaits, Heard
<1> QED BY <1>1, <1>2, <1>3 DEF ModalInv

\* The user types, and opens and closes dialogs.
LEMMA ModalLook ==
  ASSUME ModalInv,
         \/ \E form \in Worker!Forms : Worker!SetLimit(form)
         \/ Worker!OpenForm(Gone) \/ \E s \in Schedules : Worker!OpenForm(s) \/ Worker!OpenDelete(s)
         \/ Worker!CloseDialog \/ Worker!TypeForm
  PROVE  ModalInv'
<1>1. view \in ModalViews /\ dialog \in Seq(ModalDialogs)
  BY ModalPlain
<1>2. ASSUME NEW form \in Worker!Forms, Worker!SetLimit(form) PROVE ModalInv'
  <2>1. PICK limit \in Worker!Rests : view' = [view EXCEPT !.form[form] = limit]
    BY <1>2 DEF Worker!SetLimit
  <2> DEFINE typed == [view.form EXCEPT ![form] = limit]
  <2>2. view' = [view EXCEPT !.form = typed]
    BY <2>1
  <2>3. typed \in Prefs
    BY <1>1, <2>1 DEF ModalViews, Prefs
  <2> HIDE DEF typed
  <2>4. /\ view' \in ModalViews
        /\ view'.loading = view.loading /\ view'.saving = view.saving
        /\ view'.savingSchedule = view.savingSchedule /\ view'.deleting = view.deleting
        /\ view'.reordering = view.reordering
    BY <1>1, <2>2, <2>3 DEF ModalViews
  <2> QED BY <1>1, <1>2, <2>4, ModalIdle DEF Worker!SetLimit
<1>3. ASSUME NEW rest \in Worker!Rests, view' = [view EXCEPT !.rest = rest]
      PROVE  /\ view' \in ModalViews
             /\ view'.loading = view.loading /\ view'.saving = view.saving
             /\ view'.savingSchedule = view.savingSchedule /\ view'.deleting = view.deleting
             /\ view'.reordering = view.reordering
  BY <1>1, <1>3 DEF ModalViews
<1>4. ASSUME NEW s \in Schedules \cup {Gone}, Worker!OpenForm(s) PROVE ModalInv'
  <2> DEFINE rest == "plain"
             d == [is |-> "schedule", on |-> s]
  <2>1. /\ UNCHANGED <<server, shown, asked, apart, sent>>
        /\ dialog' = Append(dialog, d) /\ view' = [view EXCEPT !.rest = rest]
    BY <1>4 DEF Worker!OpenForm, Worker!Over, Worker!Dialog
  <2>2. d \in ModalDialogs /\ rest \in Worker!Rests
    BY DEF ModalDialogs, Worker!Rests
  <2> HIDE DEF rest, d
  <2>3. dialog' \in Seq(ModalDialogs)
    BY <1>1, <2>1, <2>2, OverTop
  <2> QED BY <1>3, <2>1, <2>2, <2>3, ModalIdle
<1>5. ASSUME NEW s \in Schedules, Worker!OpenDelete(s) PROVE ModalInv'
  <2> DEFINE d == [is |-> "delete", on |-> s]
  <2>1. UNCHANGED <<server, shown, asked, view, apart, sent>> /\ dialog' = Append(dialog, d)
    BY <1>5 DEF Worker!OpenDelete, Worker!Over, Worker!Dialog
  <2>2. d \in ModalDialogs
    BY DEF ModalDialogs
  <2> HIDE DEF d
  <2>3. dialog' \in Seq(ModalDialogs)
    BY <1>1, <2>1, <2>2, OverTop
  <2> QED BY <1>1, <2>1, <2>3, ModalIdle
<1>6. CASE Worker!CloseDialog
  <2>1. /\ UNCHANGED <<server, shown, asked, view, apart, sent>>
        /\ dialog' = SubSeq(dialog, 1, Len(dialog) - 1)
    BY <1>6 DEF Worker!CloseDialog, Worker!CloseTop
  <2>2. dialog' \in Seq(ModalDialogs)
    BY <1>1, <2>1, CloseShortens
  <2> QED BY <1>1, <2>1, <2>2, ModalIdle
<1>7. CASE Worker!TypeForm
  <2>1. PICK rest \in Worker!Rests : view' = [view EXCEPT !.rest = rest]
    BY <1>7 DEF Worker!TypeForm
  <2>2. UNCHANGED <<server, shown, asked, dialog, apart, sent>>
    BY <1>7 DEF Worker!TypeForm
  <2> QED BY <1>1, <1>3, <2>1, <2>2, ModalIdle
<1> QED BY <1>2, <1>4, <1>5, <1>6, <1>7

\* What was waited for still is.
LEMMA ModalCarries ==
  ASSUME ModalInv, \A p \in asked : \E r \in asked' : Twin(r, p)
  PROVE  /\ view.loading => Heard({"load", "fetch"})'
         /\ \A f \in view.saving : \E r \in asked' : r.op = "limits" /\ r.on = f /\ r.heard
         /\ view.savingSchedule => Heard({"create", "update"})'
         /\ view.deleting => Heard({"delete"})'
         /\ view.reordering => Heard({"reorder"})'
<1>1. \A p \in asked : \E r \in asked' : r.op = p.op /\ r.on = p.on /\ r.heard = p.heard
  BY DEF Twin
<1> QED BY <1>1 DEF ModalInv, ModalWaits, Heard

\* One more request; a new order is shown at once.
LEMMA ModalJoin ==
  ASSUME ModalInv, NEW op, NEW list \in Worker!Tabs, NEW on, NEW to,
         Worker!Ask(op, list, on, to), server' = server,
         op \in ScheduleOps \cup {"load", "limits", "reorder", "fetch"},
         op = "limits" => list = "prefs" /\ on \in Worker!Forms /\ to \in Worker!Rests,
         op \in ScheduleOps => list = "schedules" /\ on \in Schedules,
         op = "reorder" => list = "schedules" /\ to \in Orders,
         op = "fetch" => list = "logs",
         \/ shown' = shown
         \/ op = "reorder" /\ shown' = [shown EXCEPT !.schedules = to]
  PROVE  /\ ModalAgrees' /\ \A r \in asked' : ModalAsks(r)
         /\ sent' \in 0..Sends.worker /\ apart' \subseteq Worker!Tabs /\ shown' \in ModalLists
         /\ \A p \in asked : \E r \in asked' : Twin(r, p)
         /\ \E r \in asked' : r.op = op /\ r.on = on /\ r.heard
<1> DEFINE q == Request(op, list, on, to, Gone)
<1>1. /\ asked' = Add(asked, q) /\ sent < Sends.worker /\ sent' = sent + 1
      /\ apart' = IF asked = {} THEN apart ELSE DOMAIN shown
  BY DEF Worker!Ask, Worker!AskSeeing, Worker!Add, Worker!Request, Add, Request
<1>2. /\ Asks(q) /\ q.op = op /\ q.list = list /\ q.on = on /\ q.to = to
      /\ q.state = "asked" /\ q.heard
  BY RequestAsks DEF Request
<1> HIDE DEF q
<1>3. /\ \A r \in asked : ModalAsks(r) /\ Asks(r)
      /\ DOMAIN shown = Worker!Tabs /\ Worker!Tabs = {"prefs", "schedules", "logs"}
      /\ apart \subseteq Worker!Tabs /\ shown \in ModalLists
      /\ sent \in 0..Sends.worker /\ Sends.worker \in Nat
  BY ModalPlain
<1>4. ModalAsks(q)
  BY <1>2 DEF ModalAsks
<1>5. /\ \A r \in asked' : Asks(r) /\ \E p \in asked \cup {q} : Same(r, p)
      /\ \A p \in asked \cup {q} : \E r \in asked' : Same(r, p)
      /\ asked = {} => \A r \in asked' : asked' = {r} /\ r.alone
      /\ asked # {} => \A r \in asked' : ~r.alone
  <2> DEFINE others == asked
  <2>1. asked' = Add(others, q) /\ \A r \in others : Asks(r)
    BY <1>1, <1>3
  <2>2. /\ \A r \in asked' : Asks(r) /\ \E p \in others \cup {q} : Same(r, p)
        /\ \A p \in others \cup {q} : \E r \in asked' : Same(r, p)
        /\ others = {} => \A r \in asked' : asked' = {r} /\ r.alone
        /\ others # {} => \A r \in asked' : ~r.alone
    <3> HIDE DEF others
    <3> QED BY <1>2, <2>1, JoinAsks
  <2> QED BY <2>2
<1>6. asked = {} => \A r \in asked' : r.op = op /\ r.state = "asked" /\ r.heard
  BY <1>2, <1>5 DEF Same
<1>7. \A r \in asked' : ModalAsks(r)
  <2>1. ASSUME NEW r \in asked' PROVE r.alone => r.heard
    BY <1>5, <1>6, <2>1
  <2> QED BY <1>3, <1>4, <1>5, <2>1 DEF ModalAsks, Same
<1>8. shown' \in ModalLists
  <2>1. ASSUME op = "reorder", shown' = [shown EXCEPT !.schedules = to] PROVE shown' \in ModalLists
    BY <1>3, <2>1 DEF ModalLists
  <2> QED BY <1>3, <2>1
<1>9. /\ shown'.prefs = shown.prefs
      /\ op # "reorder" => shown'.schedules = shown.schedules
      /\ DOMAIN shown' = Worker!Tabs
  <2>1. DOMAIN shown' = Worker!Tabs
    BY <1>3, <1>8 DEF ModalLists
  <2> QED BY <1>3, <2>1 DEF ModalLists
<1>10. ModalAgrees'
  <2>1. Solo'
    BY <1>1, <1>3, <1>5, <1>9 DEF Solo
  <2>2. \A r \in asked' : r.alone => r.state = "asked"
    BY <1>5, <1>6
  <2>3. ASSUME "prefs" \notin apart' PROVE PrefsAgree'
    <3>1. asked = {} /\ "prefs" \notin apart
      BY <1>1, <1>3, <2>3
    <3>2. shown.prefs # Gone /\ shown.prefs = server.prefs
      BY <3>1 DEF ModalInv, ModalAgrees, PrefsAgree
    <3> QED BY <1>6, <1>9, <3>1, <3>2 DEF PrefsAgree
  <2>4. ASSUME "schedules" \notin apart' PROVE OrderAgrees'
    <3>1. asked = {} /\ "schedules" \notin apart
      BY <1>1, <1>3, <2>4
    <3>2. shown.schedules = server.schedules
      BY <3>1 DEF ModalInv, ModalAgrees, OrderAgrees
    <3>3. \E r \in asked' : r.op = op
      BY <1>2, <1>5 DEF Same
    <3> QED BY <1>9, <3>2, <3>3 DEF OrderAgrees
  <2> QED BY <2>1, <2>2, <2>3, <2>4 DEF ModalAgrees
<1>11. /\ \A p \in asked : \E r \in asked' : Twin(r, p)
       /\ \E r \in asked' : r.op = op /\ r.on = on /\ r.heard
  BY <1>2, <1>5 DEF Same, Twin
<1>12. sent' \in 0..Sends.worker /\ apart' \subseteq Worker!Tabs
  BY <1>1, <1>3
<1> QED BY <1>7, <1>8, <1>10, <1>11, <1>12

LEMMA ModalAsk ==
  ASSUME ModalInv,
         \/ \E form \in Worker!Forms : Worker!HandleSaveLimits(form)
         \/ Worker!Save \/ Worker!RemoveSchedule \/ Worker!Reorder
         \/ Worker!Refresh \/ \E level \in Worker!Levels : Worker!ToggleLevel(level)
  PROVE  ModalInv'
<1>1. /\ server \in ModalServers /\ shown \in ModalLists
      /\ Len(server.schedules) \in 0..MaxSchedules /\ MaxSchedules \in Nat
      /\ MaxLogs \in Nat /\ 0 \in 0..MaxLogs
      /\ view \in ModalViews /\ dialog \in Seq(ModalDialogs)
      /\ Worker!Tabs = {"prefs", "schedules", "logs"}
      /\ Worker!Top.is = "schedule" => Worker!Top.on \in Schedules \cup {Gone}
      /\ Worker!Top.is = "delete" => Worker!Top.on \in Schedules
  BY ModalPlain
<1>2. ASSUME ModalAgrees', \A r \in asked' : ModalAsks(r),
             sent' \in 0..Sends.worker, apart' \subseteq Worker!Tabs, shown' \in ModalLists,
             server' = server, dialog' = dialog, view' \in ModalViews, ModalWaits'
      PROVE  ModalInv'
  <2>1. Len(server'.schedules) <= MaxSchedules
    <3> DEFINE n == Len(server.schedules)
    <3>1. n <= MaxSchedules
      <4>1. n \in 0..MaxSchedules
        BY <1>1
      <4> HIDE DEF n
      <4> QED BY <1>1, <4>1
    <3> QED BY <1>2, <3>1
  <2>2. ModalTyped'
    BY <1>1, <1>2, <2>1 DEF ModalTyped
  <2> QED BY <1>2, <2>2 DEF ModalInv
<1>3. ASSUME NEW form \in Worker!Forms, Worker!HandleSaveLimits(form) PROVE ModalInv'
  <2> DEFINE to == view.form[form]
             saving == view.saving \cup {form}
             op == "limits"
             list == "prefs"
  <2>1. /\ Worker!Ask(op, list, form, to) /\ view' = [view EXCEPT !.saving = saving]
        /\ UNCHANGED <<server, shown, dialog>>
    BY <1>3 DEF Worker!HandleSaveLimits
  <2>2. to \in Worker!Rests /\ saving \in SUBSET Worker!Forms /\ list \in Worker!Tabs
    BY <1>1, <1>3 DEF ModalViews, Prefs
  <2>3. op = "limits" /\ list = "prefs" /\ op \notin ScheduleOps
    BY DEF ScheduleOps
  <2> HIDE DEF to, op, list
  <2>4. /\ ModalAgrees' /\ \A r \in asked' : ModalAsks(r)
        /\ sent' \in 0..Sends.worker /\ apart' \subseteq Worker!Tabs /\ shown' \in ModalLists
        /\ \A p \in asked : \E r \in asked' : Twin(r, p)
        /\ \E r \in asked' : r.op = op /\ r.on = form /\ r.heard
    BY <2>1, <2>2, <2>3, ModalJoin
  <2> HIDE DEF saving
  <2>5. /\ view' \in ModalViews /\ view'.saving = saving /\ view'.loading = view.loading
        /\ view'.savingSchedule = view.savingSchedule /\ view'.deleting = view.deleting
        /\ view'.reordering = view.reordering
    BY <1>1, <2>1, <2>2 DEF ModalViews
  <2>6. \A f \in view'.saving : \E r \in asked' : r.op = "limits" /\ r.on = f /\ r.heard
    BY <2>3, <2>4, <2>5, ModalCarries DEF saving
  <2>7. ModalWaits'
    BY <2>4, <2>5, <2>6, ModalCarries DEF ModalWaits
  <2> QED BY <1>2, <2>1, <2>4, <2>5, <2>7
<1>4. ASSUME NEW op \in ScheduleOps, NEW on \in Schedules, Worker!Ask(op, "schedules", on, Gone),
             UNCHANGED <<server, shown, dialog>>,
             \/ op \in {"create", "update"} /\ view' = [view EXCEPT !.savingSchedule = TRUE]
             \/ op = "delete" /\ view' = [view EXCEPT !.deleting = TRUE]
      PROVE  ModalInv'
  <2> DEFINE list == "schedules"
             yes == TRUE
  <2>1. /\ Worker!Ask(op, list, on, Gone)
        /\ \/ op \in {"create", "update"} /\ view' = [view EXCEPT !.savingSchedule = yes]
           \/ op = "delete" /\ view' = [view EXCEPT !.deleting = yes]
        /\ yes \in BOOLEAN
    BY <1>4
  <2>2. list \in Worker!Tabs /\ list = "schedules" /\ op \notin {"limits", "reorder", "fetch"}
    BY <1>1, <1>4 DEF ScheduleOps
  <2> HIDE DEF list, yes
  <2>3. /\ ModalAgrees' /\ \A r \in asked' : ModalAsks(r)
        /\ sent' \in 0..Sends.worker /\ apart' \subseteq Worker!Tabs /\ shown' \in ModalLists
        /\ \A p \in asked : \E r \in asked' : Twin(r, p)
        /\ \E r \in asked' : r.op = op /\ r.on = on /\ r.heard
    BY <1>4, <2>1, <2>2, ModalJoin
  <2>4. /\ view' \in ModalViews /\ view'.saving = view.saving /\ view'.loading = view.loading
        /\ view'.reordering = view.reordering
        /\ view'.deleting = view.deleting \/ op = "delete"
        /\ view'.savingSchedule = view.savingSchedule \/ op \in {"create", "update"}
    BY <1>1, <2>1 DEF ModalViews
  <2>5. ModalWaits'
    BY <2>3, <2>4, ModalCarries DEF ModalWaits, Heard
  <2> QED BY <1>2, <1>4, <2>3, <2>4, <2>5
<1>5. CASE Worker!Save
  <2>1. /\ Worker!Top.is = "schedule" /\ UNCHANGED <<server, shown, dialog>>
        /\ view' = [view EXCEPT !.savingSchedule = TRUE]
        /\ \/ Worker!Top.on # Gone /\ Worker!Ask("update", "schedules", Worker!Top.on, Gone)
           \/ \E s \in Schedules : Worker!Ask("create", "schedules", s, Gone)
    BY <1>5 DEF Worker!Save
  <2>2. "update" \in ScheduleOps /\ "create" \in ScheduleOps
    BY DEF ScheduleOps
  <2>3. Worker!Top.on # Gone => Worker!Top.on \in Schedules
    BY <1>1, <2>1
  <2> QED BY <1>4, <2>1, <2>2, <2>3
<1>6. CASE Worker!RemoveSchedule
  <2>1. /\ Worker!Top.is = "delete" /\ UNCHANGED <<server, shown, dialog>>
        /\ view' = [view EXCEPT !.deleting = TRUE]
        /\ Worker!Ask("delete", "schedules", Worker!Top.on, Gone)
    BY <1>6 DEF Worker!RemoveSchedule
  <2>2. "delete" \in ScheduleOps
    BY DEF ScheduleOps
  <2> QED BY <1>1, <1>4, <2>1, <2>2
<1>7. CASE Worker!Reorder
  <2>1. PICK i, j :
          /\ i \in DOMAIN shown.schedules /\ j \in DOMAIN shown.schedules
          /\ shown' = [shown EXCEPT !.schedules = Worker!Moved(shown.schedules, i, j)]
          /\ Worker!Ask("reorder", "schedules", Gone, Worker!Moved(shown.schedules, i, j))
    BY <1>7 DEF Worker!Reorder
  <2> DEFINE order == shown.schedules
             rest == Only(order, DOMAIN order \ {i})
             moved == Worker!Moved(order, i, j)
             op == "reorder"
             list == "schedules"
             yes == TRUE
  <2>2. /\ shown' = [shown EXCEPT !.schedules = moved] /\ Worker!Ask(op, list, Gone, moved)
        /\ view' = [view EXCEPT !.reordering = yes] /\ UNCHANGED <<server, dialog>>
    BY <1>7, <2>1 DEF Worker!Reorder
  <2>3. moved \in Orders
    <3>1. order \in Seq(Schedules) /\ order[i] \in Schedules
      BY <1>1, <2>1 DEF ModalLists, Orders
    <3>2. Len(order) \in Nat /\ i \in 1..Len(order) /\ j \in 1..Len(order)
      BY <2>1, <3>1
    <3>3. moved = SubSeq(rest, 1, j - 1) \o <<order[i]>> \o SubSeq(rest, j, Len(rest))
      BY DEF Worker!Moved, Worker!Only, Worker!Cardinality, Only, Cardinality
    <3> HIDE DEF order, moved
    <3>4. rest \in Seq(Schedules) /\ Len(rest) = Len(order) - 1
      <4>1. DOMAIN order = 1..Len(order) /\ IsFiniteSet(1..Len(order))
            /\ Cardinality(1..Len(order)) = Len(order)
        <5>1. DOMAIN order = 1..Len(order)
          BY <3>1
        <5>2. ASSUME NEW m \in Nat PROVE IsFiniteSet(1..m) /\ Cardinality(1..m) = m
          BY FS_Interval
        <5> QED BY <3>2, <5>1, <5>2
      <4>2. Cardinality(DOMAIN order \ {i}) = Len(order) - 1
        <5> DEFINE all == 1..Len(order)
        <5>1. i \in all /\ IsFiniteSet(all) /\ Cardinality(all) = Len(order) /\ DOMAIN order = all
          BY <3>2, <4>1
        <5> HIDE DEF all
        <5> QED BY <5>1, FS_RemoveElement
      <4>3. DOMAIN order \ {i} \in SUBSET DOMAIN order
        OBVIOUS
      <4> QED BY <3>1, <4>2, <4>3, OnlyTakes
    <3> HIDE DEF rest
    <3>5. SubSeq(rest, 1, j - 1) \in Seq(Schedules)
      BY <3>2, <3>3, <3>4
    <3>6. SubSeq(rest, j, Len(rest)) \in Seq(Schedules)
      BY <3>2, <3>3, <3>4
    <3>7. <<order[i]>> \in Seq(Schedules)
      BY <3>1
    <3> QED BY <3>3, <3>5, <3>6, <3>7 DEF Orders
  <2>4. op = "reorder" /\ list = "schedules" /\ list \in Worker!Tabs /\ op \notin ScheduleOps /\ yes \in BOOLEAN
    BY <1>1 DEF ScheduleOps
  <2> HIDE DEF moved, op, list, yes
  <2>5. /\ ModalAgrees' /\ \A r \in asked' : ModalAsks(r)
        /\ sent' \in 0..Sends.worker /\ apart' \subseteq Worker!Tabs /\ shown' \in ModalLists
        /\ \A p \in asked : \E r \in asked' : Twin(r, p)
        /\ \E r \in asked' : r.op = op /\ r.on = Gone /\ r.heard
    BY <2>2, <2>3, <2>4, ModalJoin
  <2>6. /\ view' \in ModalViews /\ view'.saving = view.saving /\ view'.loading = view.loading
        /\ view'.savingSchedule = view.savingSchedule /\ view'.deleting = view.deleting
    BY <1>1, <2>2, <2>4 DEF ModalViews
  <2>7. ModalWaits'
    BY <2>4, <2>5, <2>6, ModalCarries DEF ModalWaits, Heard
  <2> QED BY <1>2, <2>2, <2>5, <2>6, <2>7
<1>8. ASSUME NEW refresh \in BOOLEAN, NEW filter \in SUBSET Worker!Levels, Worker!Fetch(refresh, filter)
      PROVE  ModalInv'
  <2> DEFINE on == IF refresh THEN view.lastKnown ELSE 0
             to == <<refresh, filter>>
             op == "fetch"
             list == "logs"
             yes == TRUE
  <2>1. /\ Worker!Ask(op, list, on, to) /\ UNCHANGED <<server, shown, dialog>>
        /\ view' = [view EXCEPT !.loading = yes, !.filter = filter, !.lastKnown = on]
    BY <1>8 DEF Worker!Fetch
  <2>2. on \in 0..MaxLogs /\ list \in Worker!Tabs /\ yes \in BOOLEAN
    BY <1>1 DEF ModalViews
  <2>3. op = "fetch" /\ list = "logs" /\ op \notin ScheduleOps
    BY DEF ScheduleOps
  <2> HIDE DEF on, to, op, list, yes
  <2>4. /\ ModalAgrees' /\ \A r \in asked' : ModalAsks(r)
        /\ sent' \in 0..Sends.worker /\ apart' \subseteq Worker!Tabs /\ shown' \in ModalLists
        /\ \A p \in asked : \E r \in asked' : Twin(r, p)
        /\ \E r \in asked' : r.op = op /\ r.on = on /\ r.heard
    BY <2>1, <2>2, <2>3, ModalJoin
  <2>5. /\ view' \in ModalViews /\ view'.saving = view.saving
        /\ view'.savingSchedule = view.savingSchedule /\ view'.deleting = view.deleting
        /\ view'.reordering = view.reordering
    BY <1>1, <1>8, <2>1, <2>2 DEF ModalViews
  <2>6. ModalWaits'
    BY <2>3, <2>4, <2>5, ModalCarries DEF ModalWaits, Heard
  <2> QED BY <1>2, <2>1, <2>4, <2>5, <2>6
<1>9. CASE Worker!Refresh \/ \E level \in Worker!Levels : Worker!ToggleLevel(level)
  <2>1. view.filter \in SUBSET Worker!Levels
    BY <1>1 DEF ModalViews
  <2>2. CASE Worker!Refresh
    BY <1>8, <2>1, <2>2 DEF Worker!Refresh
  <2>3. ASSUME NEW level \in Worker!Levels, Worker!ToggleLevel(level) PROVE ModalInv'
    <3> DEFINE filter == IF level \in view.filter THEN view.filter \ {level} ELSE view.filter \cup {level}
    <3>1. Worker!Fetch(FALSE, filter)
      BY <2>3 DEF Worker!ToggleLevel
    <3>2. filter \in SUBSET Worker!Levels
      BY <2>1, <2>3
    <3> HIDE DEF filter
    <3> QED BY <1>8, <3>1, <3>2
  <2> QED BY <1>9, <2>2, <2>3
<1> QED BY <1>3, <1>5, <1>6, <1>7, <1>9

\* A request is taken, and what it brought or did is shown.
LEMMA ModalTaken ==
  ASSUME ModalInv, NEW r \in asked, Worker!Land(r), server' = server, shown' \in ModalLists,
         \/ /\ shown'.prefs = shown.prefs /\ shown'.schedules = shown.schedules
            /\ \/ ~r.heard
               \/ r.state = "refused" /\ r.op # "reorder"
               \/ r.list = "logs"
         \/ /\ r.op \in {"load", "reorder"} /\ r.state = "done" /\ r.list # "logs"
            /\ shown' = [shown EXCEPT ![r.list] = r.saw]
         \/ /\ r.op = "limits" /\ r.state = "done"
            /\ shown' = IF shown.prefs # Gone
                        THEN [shown EXCEPT !.prefs = [shown.prefs EXCEPT ![r.on] = r.to]] ELSE shown
  PROVE  /\ ModalAgrees' /\ \A q \in asked' : ModalAsks(q)
         /\ sent' \in 0..Sends.worker /\ apart' \subseteq Worker!Tabs
<1>1. /\ asked' = asked \ {r} /\ sent' = sent
      /\ apart' = IF r.op = "load" /\ r.state = "done" /\ r.alone THEN apart \ {r.list} ELSE apart
  BY DEF Worker!Land
<1>2. /\ \A q \in asked : ModalAsks(q)
      /\ ModalAsks(r) /\ r.list \in Worker!Tabs /\ Worker!Tabs = {"prefs", "schedules", "logs"}
      /\ DOMAIN shown = Worker!Tabs /\ apart \subseteq Worker!Tabs /\ shown \in ModalLists
      /\ sent \in 0..Sends.worker /\ server.prefs # Gone
  BY ModalPlain DEF ModalAsks, ModalServers
<1>3. /\ Solo
      /\ \A q \in asked : /\ q.op \in {"load", "reorder"} /\ q.list # "logs" /\ q.state = "done" /\ q.alone
                          => q.saw = server[q.list]
      /\ "prefs" \notin apart => PrefsAgree
      /\ "schedules" \notin apart => OrderAgrees
  BY DEF ModalInv, ModalAgrees
<1>4. DOMAIN shown' = Worker!Tabs
  BY <1>2 DEF ModalLists
<1>5. r.alone \/ Worker!Tabs \subseteq apart'
  BY <1>1, <1>2, <1>3 DEF Solo
<1>6. r.alone => asked = {r} /\ asked' = {} /\ r.heard
  BY <1>1, <1>2, <1>3 DEF Solo, ModalAsks
<1>7. Solo'
  BY <1>1, <1>2, <1>3, <1>4 DEF Solo
<1>8. ASSUME "prefs" \notin apart' PROVE shown'.prefs = server.prefs
  <2>1. r.alone /\ asked = {r} /\ r.heard
    BY <1>2, <1>5, <1>6, <1>8
  <2>2. CASE /\ shown'.prefs = shown.prefs
             /\ (r.state = "refused" /\ r.op # "reorder") \/ r.list = "logs"
    <3>1. "prefs" \notin apart /\ r.op = "limits" => r.state # "done"
      BY <1>1, <1>2, <1>8, <2>2 DEF ModalAsks
    <3>2. "prefs" \notin apart
      BY <1>1, <1>8, <2>2
    <3> QED BY <1>3, <2>1, <2>2, <3>1, <3>2 DEF PrefsAgree
  <2>3. CASE /\ r.op \in {"load", "reorder"} /\ r.state = "done" /\ r.list # "logs"
             /\ shown' = [shown EXCEPT ![r.list] = r.saw]
    <3>1. CASE r.list = "prefs"
      BY <1>2, <1>3, <2>1, <2>3, <3>1
    <3>2. CASE r.list # "prefs"
      <4>1. "prefs" \notin apart /\ shown'.prefs = shown.prefs
        BY <1>1, <1>2, <1>8, <2>3, <3>2
      <4> QED BY <1>3, <2>1, <2>3, <4>1 DEF PrefsAgree
    <3> QED BY <3>1, <3>2
  <2>4. CASE /\ r.op = "limits" /\ r.state = "done"
             /\ shown' = IF shown.prefs # Gone
                         THEN [shown EXCEPT !.prefs = [shown.prefs EXCEPT ![r.on] = r.to]] ELSE shown
    <3>1. "prefs" \notin apart /\ PrefsAgree
      BY <1>1, <1>3, <1>8, <2>4
    <3>2. shown'.prefs = [shown.prefs EXCEPT ![r.on] = r.to]
      BY <1>2, <2>4, <3>1 DEF PrefsAgree
    <3> QED BY <2>4, <3>1, <3>2 DEF PrefsAgree
  <2> QED BY <2>1, <2>2, <2>3, <2>4
<1>9. ASSUME "schedules" \notin apart' PROVE shown'.schedules = server.schedules
  <2>1. r.alone /\ asked = {r} /\ r.heard
    BY <1>2, <1>5, <1>6, <1>9
  <2>2. CASE /\ shown'.schedules = shown.schedules
             /\ (r.state = "refused" /\ r.op # "reorder") \/ r.list = "logs"
    <3>1. ~(r.op \in ScheduleOps /\ r.state = "done") /\ r.op # "reorder"
      BY <1>2, <2>2 DEF ModalAsks
    <3>2. "schedules" \notin apart
      BY <1>1, <1>9, <2>2
    <3> QED BY <1>3, <2>1, <2>2, <3>1, <3>2 DEF OrderAgrees
  <2>3. CASE /\ r.op \in {"load", "reorder"} /\ r.state = "done" /\ r.list # "logs"
             /\ shown' = [shown EXCEPT ![r.list] = r.saw]
    <3>1. CASE r.list = "schedules"
      BY <1>2, <1>3, <2>1, <2>3, <3>1
    <3>2. CASE r.list # "schedules"
      <4>1. "schedules" \notin apart /\ shown'.schedules = shown.schedules
        BY <1>1, <1>2, <1>9, <2>3, <3>2
      <4>2. r.op \notin ScheduleOps /\ r.op # "reorder"
        BY <1>2, <2>3, <3>2 DEF ModalAsks, ScheduleOps
      <4> QED BY <1>3, <2>1, <4>1, <4>2 DEF OrderAgrees
    <3> QED BY <3>1, <3>2
  <2>4. CASE /\ r.op = "limits" /\ r.state = "done"
             /\ shown' = IF shown.prefs # Gone
                         THEN [shown EXCEPT !.prefs = [shown.prefs EXCEPT ![r.on] = r.to]] ELSE shown
    <3>1. "schedules" \notin apart /\ OrderAgrees
      BY <1>1, <1>3, <1>9, <2>4
    <3>2. shown'.schedules = shown.schedules
      BY <1>2, <2>4
    <3>3. r.op \notin ScheduleOps /\ r.op # "reorder"
      BY <2>4 DEF ScheduleOps
    <3> QED BY <2>1, <3>1, <3>2, <3>3 DEF OrderAgrees
  <2> QED BY <2>1, <2>2, <2>3, <2>4
<1>10. ModalAgrees'
  <2>1. \A q \in asked' : ~q.alone
    BY <1>1, <1>3 DEF Solo
  <2>2. "prefs" \notin apart' => PrefsAgree'
    BY <1>2, <1>5, <1>6, <1>8 DEF PrefsAgree
  <2>3. "schedules" \notin apart' => OrderAgrees'
    BY <1>9 DEF OrderAgrees
  <2> QED BY <1>7, <2>1, <2>2, <2>3 DEF ModalAgrees
<1> QED BY <1>1, <1>2, <1>10

\* What is still waited for when a request is taken.
LEMMA ModalEnds ==
  ASSUME ModalInv, NEW r \in asked, asked' = asked \ {r}
  PROVE  /\ view.loading /\ (r.op \in {"load", "fetch"} => ~r.heard) => Heard({"load", "fetch"})'
         /\ \A f \in view.saving : (r.op = "limits" => ~r.heard \/ r.on # f) =>
              \E q \in asked' : q.op = "limits" /\ q.on = f /\ q.heard
         /\ view.savingSchedule /\ (r.op \in {"create", "update"} => ~r.heard) =>
              Heard({"create", "update"})'
         /\ view.deleting /\ (r.op = "delete" => ~r.heard) => Heard({"delete"})'
         /\ view.reordering /\ (r.op = "reorder" => ~r.heard) => Heard({"reorder"})'
  BY DEF ModalInv, ModalWaits, Heard

\* The lines of the log.
LEMMA LinesTyped ==
  ASSUME NEW n \in 1..MaxLogs, NEW after, NEW filter
  PROVE  LET lines == Worker!Lines(n, after, filter) IN
         /\ lines \in Seq(1..MaxLogs)
         /\ lines # <<>> => Worker!Last(lines) \in 1..MaxLogs
<1> DEFINE all == [i \in 1..n |-> i]
           places == {i \in 1..n : i > after /\ Worker!Level(i) \in filter}
           taken == Only(all, places)
           lines == Worker!Lines(n, after, filter)
<1>1. lines = taken
  BY DEF Worker!Lines, Worker!Only, Worker!Cardinality, Only, Cardinality
<1>2. MaxLogs \in Nat /\ n \in Nat
  BY ClientAssumption DEF ClientAssumption
<1>3. all \in Seq(1..MaxLogs) /\ DOMAIN all = 1..n
  BY <1>2
<1>4. places \in SUBSET DOMAIN all
  BY <1>3
<1> HIDE DEF lines, all, places
<1>5. taken \in Seq(1..MaxLogs)
  BY <1>3, <1>4, OnlyTakes
<1> HIDE DEF taken
<1>6. ASSUME lines # <<>> PROVE Worker!Last(lines) \in 1..MaxLogs
  <2> DEFINE numbers == 1..MaxLogs
  <2>1. lines \in Seq(numbers)
    BY <1>1, <1>5
  <2> HIDE DEF numbers
  <2>2. Len(lines) \in 1..Len(lines)
    BY <1>6, <2>1
  <2>3. lines[Len(lines)] \in numbers
    BY <2>1, <2>2
  <2>4. Worker!Last(lines) = lines[Len(lines)]
    BY DEF Worker!Last
  <2> QED BY <2>3, <2>4 DEF numbers
<1> QED BY <1>1, <1>5, <1>6 DEF lines

LEMMA ModalLandKeeps ==
  ASSUME ModalInv,
         \/ Worker!PrefsLoaded \/ Worker!LimitsSaved \/ Worker!SchedulesLoaded
         \/ Worker!ScheduleRefused \/ Worker!Reordered
         \/ Worker!LogsFetched \/ Worker!LogsRefused
         \/ Worker!NobodyHears({"limits", "update", "create", "delete", "reorder", "fetch"})
  PROVE  ModalInv'
<1>1. /\ server \in ModalServers /\ shown \in ModalLists /\ view \in ModalViews
      /\ dialog \in Seq(ModalDialogs)
      /\ Len(server.schedules) \in 0..MaxSchedules /\ MaxSchedules \in Nat
      /\ \A r \in asked : ModalAsks(r)
  BY ModalPlain
<1>2. /\ server' = server /\ dialog' = dialog
  BY DEF Worker!PrefsLoaded, Worker!LimitsSaved, Worker!SchedulesLoaded, Worker!Loaded,
         Worker!ScheduleRefused, Worker!Reordered, Worker!LogsFetched, Worker!LogsRefused,
         Worker!NobodyHears
<1>3. ASSUME NEW r \in asked, Worker!Land(r), shown' \in ModalLists,
             \/ /\ shown'.prefs = shown.prefs /\ shown'.schedules = shown.schedules
                /\ \/ ~r.heard
                   \/ r.state = "refused" /\ r.op # "reorder"
                   \/ r.list = "logs"
             \/ /\ r.op \in {"load", "reorder"} /\ r.state = "done" /\ r.list # "logs"
                /\ shown' = [shown EXCEPT ![r.list] = r.saw]
             \/ /\ r.op = "limits" /\ r.state = "done"
                /\ shown' = IF shown.prefs # Gone
                            THEN [shown EXCEPT !.prefs = [shown.prefs EXCEPT ![r.on] = r.to]] ELSE shown,
             view' \in ModalViews, ModalWaits'
      PROVE  ModalInv'
  <2>1. /\ ModalAgrees' /\ \A q \in asked' : ModalAsks(q)
        /\ sent' \in 0..Sends.worker /\ apart' \subseteq Worker!Tabs
    BY <1>2, <1>3, ModalTaken
  <2>2. Len(server.schedules) <= MaxSchedules
    BY DEF ModalInv, ModalTyped
  <2>3. ModalTyped'
    BY <1>1, <1>2, <1>3, <2>1, <2>2 DEF ModalTyped
  <2> QED BY <1>3, <2>1, <2>3 DEF ModalInv
<1>4. ASSUME NEW r \in asked, Worker!Land(r) PROVE asked' = asked \ {r}
  BY <1>4 DEF Worker!Land
<1> DEFINE no == FALSE
<1>5. no = FALSE
  OBVIOUS
<1> HIDE DEF no
<1>6. CASE Worker!PrefsLoaded
  <2>1. PICK r \in asked :
          /\ r.op = "load" /\ r.state \in {"done", "refused"} /\ r.list = "prefs" /\ Worker!Land(r)
          /\ shown' = IF r.state = "done" THEN [shown EXCEPT !.prefs = r.saw] ELSE shown
          /\ view' = [view EXCEPT !.loading = no,
                                  !.form = IF r.state = "done" THEN r.saw ELSE view.form]
    BY <1>5, <1>6 DEF Worker!PrefsLoaded, Worker!Answers
  <2> DEFINE form == IF r.state = "done" THEN r.saw ELSE view.form
  <2>2. r.state = "done" => r.saw \in Prefs
    BY <1>1, <2>1 DEF ModalAsks, ModalCopies
  <2>3. form \in Prefs
    BY <1>1, <2>2 DEF ModalViews
  <2>4. view' = [view EXCEPT !.loading = no, !.form = form]
    BY <2>1
  <2> HIDE DEF form
  <2>5. /\ view' \in ModalViews /\ view'.loading = no /\ view'.saving = view.saving
        /\ view'.savingSchedule = view.savingSchedule /\ view'.deleting = view.deleting
        /\ view'.reordering = view.reordering
    BY <1>1, <1>5, <2>3, <2>4 DEF ModalViews
  <2>6. asked' = asked \ {r}
    BY <1>4, <2>1
  <2>7. ModalWaits'
    BY <1>5, <2>1, <2>5, <2>6, ModalEnds DEF ModalWaits
  <2>8. /\ shown' \in ModalLists
        /\ r.state = "done" => shown' = [shown EXCEPT ![r.list] = r.saw]
        /\ r.state = "refused" => shown' = shown
    BY <1>1, <2>1, <2>2 DEF ModalLists
  <2> QED BY <1>3, <2>1, <2>5, <2>7, <2>8
<1>7. CASE Worker!LimitsSaved
  <2>1. PICK r \in asked :
          /\ r.op = "limits" /\ r.state \in {"done", "refused"} /\ Worker!Land(r)
          /\ shown' = IF r.state = "done" /\ shown.prefs # Gone THEN [shown EXCEPT !.prefs[r.on] = r.to] ELSE shown
          /\ view' = [view EXCEPT !.saving = view.saving \ {r.on}]
    BY <1>7 DEF Worker!LimitsSaved, Worker!Answers
  <2> DEFINE saving == view.saving \ {r.on}
             prefs == [shown.prefs EXCEPT ![r.on] = r.to]
  <2>2. r.on \in Worker!Forms /\ r.to \in Worker!Rests
    BY <1>1, <2>1 DEF ModalAsks
  <2>3. shown.prefs # Gone => prefs \in Prefs
    BY <1>1, <2>2 DEF ModalLists, Prefs
  <2>4. shown' = IF r.state = "done" /\ shown.prefs # Gone THEN [shown EXCEPT !.prefs = prefs] ELSE shown
    BY <2>1
  <2>5. /\ view' \in ModalViews /\ view'.loading = view.loading /\ view'.saving = saving
        /\ view'.savingSchedule = view.savingSchedule /\ view'.deleting = view.deleting
        /\ view'.reordering = view.reordering
    BY <1>1, <2>1 DEF ModalViews
  <2>6. asked' = asked \ {r}
    BY <1>4, <2>1
  <2>7. \A f \in view'.saving : \E q \in asked' : q.op = "limits" /\ q.on = f /\ q.heard
    BY <2>5, <2>6, ModalEnds
  <2>8. ModalWaits'
    BY <2>1, <2>5, <2>6, <2>7, ModalEnds DEF ModalWaits
  <2>9. shown' \in ModalLists
    <3> HIDE DEF prefs
    <3> QED BY <1>1, <2>3, <2>4 DEF ModalLists
  <2>10. \/ r.state = "refused" /\ shown'.prefs = shown.prefs /\ shown'.schedules = shown.schedules
         \/ /\ r.state = "done"
            /\ shown' = IF shown.prefs # Gone THEN [shown EXCEPT !.prefs = prefs] ELSE shown
    BY <2>1, <2>4
  <2> QED BY <1>3, <2>1, <2>5, <2>8, <2>9, <2>10
<1>8. CASE Worker!SchedulesLoaded
  <2>1. PICK r \in asked :
          /\ r.op = "load" /\ r.state \in {"done", "refused"} /\ r.list = "schedules" /\ Worker!Land(r)
          /\ shown' = IF r.state = "done" THEN [shown EXCEPT !.schedules = r.saw] ELSE shown
    BY <1>8 DEF Worker!SchedulesLoaded, Worker!Loaded, Worker!Answers
  <2>2. view' = [view EXCEPT !.loading = no]
    BY <1>5, <1>8 DEF Worker!SchedulesLoaded, Worker!Loaded
  <2>3. r.state = "done" => r.saw \in Orders
    BY <1>1, <2>1 DEF ModalAsks, ModalCopies
  <2>4. /\ view' \in ModalViews /\ view'.loading = no /\ view'.saving = view.saving
        /\ view'.savingSchedule = view.savingSchedule /\ view'.deleting = view.deleting
        /\ view'.reordering = view.reordering
    BY <1>1, <1>5, <2>2 DEF ModalViews
  <2>5. asked' = asked \ {r}
    BY <1>4, <2>1
  <2>6. ModalWaits'
    BY <1>5, <2>1, <2>4, <2>5, ModalEnds DEF ModalWaits
  <2>7. /\ shown' \in ModalLists
        /\ r.state = "done" => shown' = [shown EXCEPT ![r.list] = r.saw]
        /\ r.state = "refused" => shown' = shown
    BY <1>1, <2>1, <2>3 DEF ModalLists
  <2> QED BY <1>3, <2>1, <2>4, <2>6, <2>7
<1>9. CASE Worker!ScheduleRefused
  <2>1. PICK r \in asked :
          /\ r.op \in {"create", "update", "delete"} /\ r.state = "refused" /\ Worker!Land(r)
          /\ view' = IF r.op = "delete" THEN [view EXCEPT !.deleting = no]
                     ELSE [view EXCEPT !.savingSchedule = no]
    BY <1>5, <1>9 DEF Worker!ScheduleRefused, Worker!Answers
  <2>2. shown' = shown
    BY <1>9 DEF Worker!ScheduleRefused
  <2>3. /\ view' \in ModalViews /\ view'.loading = view.loading /\ view'.saving = view.saving
        /\ view'.reordering = view.reordering
        /\ r.op = "delete" => view'.deleting = no /\ view'.savingSchedule = view.savingSchedule
        /\ r.op # "delete" => view'.deleting = view.deleting /\ view'.savingSchedule = no
    BY <1>1, <1>5, <2>1 DEF ModalViews
  <2>4. asked' = asked \ {r}
    BY <1>4, <2>1
  <2>5. ModalWaits'
    BY <1>5, <2>1, <2>3, <2>4, ModalEnds DEF ModalWaits
  <2> QED BY <1>1, <1>3, <2>1, <2>2, <2>3, <2>5
<1>10. CASE Worker!Reordered
  <2>1. PICK r \in asked :
          /\ r.op = "reorder" /\ r.state = "done" /\ Worker!Land(r)
          /\ shown' = [shown EXCEPT !.schedules = r.saw]
    BY <1>10 DEF Worker!Reordered, Worker!Answers
  <2>2. view' = [view EXCEPT !.reordering = no]
    BY <1>5, <1>10 DEF Worker!Reordered
  <2>3. r.saw \in Orders /\ r.list = "schedules"
    BY <1>1, <2>1 DEF ModalAsks, ModalCopies
  <2>4. /\ view' \in ModalViews /\ view'.loading = view.loading /\ view'.saving = view.saving
        /\ view'.savingSchedule = view.savingSchedule /\ view'.deleting = view.deleting
        /\ view'.reordering = no
    BY <1>1, <1>5, <2>2 DEF ModalViews
  <2>5. asked' = asked \ {r}
    BY <1>4, <2>1
  <2>6. ModalWaits'
    BY <1>5, <2>1, <2>4, <2>5, ModalEnds DEF ModalWaits
  <2>7. shown' \in ModalLists /\ shown' = [shown EXCEPT ![r.list] = r.saw]
    BY <1>1, <2>1, <2>3 DEF ModalLists
  <2> QED BY <1>3, <2>1, <2>3, <2>4, <2>6, <2>7
<1>11. ASSUME NEW r \in asked, r.op \in {"fetch", "load"}, r.list = "logs", Worker!Land(r),
              NEW known \in 0..MaxLogs, view' = [view EXCEPT !.loading = no, !.lastKnown = known],
              NEW logs \in Seq(1..MaxLogs), shown' = [shown EXCEPT !.logs = logs]
       PROVE  ModalInv'
  <2>1. /\ view' \in ModalViews /\ view'.loading = no /\ view'.saving = view.saving
        /\ view'.savingSchedule = view.savingSchedule /\ view'.deleting = view.deleting
        /\ view'.reordering = view.reordering
    BY <1>1, <1>5, <1>11 DEF ModalViews
  <2>2. asked' = asked \ {r}
    BY <1>4, <1>11
  <2>3. ModalWaits'
    BY <1>5, <1>11, <2>1, <2>2, ModalEnds DEF ModalWaits
  <2>4. shown' \in ModalLists /\ shown'.prefs = shown.prefs /\ shown'.schedules = shown.schedules
    BY <1>1, <1>11 DEF ModalLists
  <2> QED BY <1>3, <1>11, <2>1, <2>3, <2>4
<1>12. CASE Worker!LogsFetched
  <2>1. PICK r \in Worker!Answers("fetch", "done") \cup Worker!Answers("load", "done") :
          LET first == r.op = "load"
              lines == IF first THEN Worker!Lines(r.saw, 0, Worker!Levels)
                       ELSE Worker!Lines(server.logs, r.on, r.to[2])
          IN /\ r.list = "logs" /\ Worker!Land(r)
             /\ shown' = [shown EXCEPT !.logs = IF first \/ ~r.to[1] THEN lines ELSE @ \o lines]
             /\ view' = [view EXCEPT !.loading = FALSE,
                  !.lastKnown = IF lines # <<>> /\ Worker!Last(lines) > @ THEN Worker!Last(lines) ELSE @]
    BY <1>12 DEF Worker!LogsFetched
  <2> DEFINE first == r.op = "load"
             lines == IF first THEN Worker!Lines(r.saw, 0, Worker!Levels)
                      ELSE Worker!Lines(server.logs, r.on, r.to[2])
             logs == IF first \/ ~r.to[1] THEN lines ELSE shown.logs \o lines
             known == IF lines # <<>> /\ Worker!Last(lines) > view.lastKnown
                      THEN Worker!Last(lines) ELSE view.lastKnown
  <2>2. r \in asked /\ r.op \in {"fetch", "load"} /\ r.state = "done"
    BY DEF Worker!Answers
  <2>3. /\ r.list = "logs" /\ Worker!Land(r)
        /\ shown' = [shown EXCEPT !.logs = logs]
        /\ view' = [view EXCEPT !.loading = no, !.lastKnown = known]
    BY <1>5, <2>1
  <2>4. first => r.saw \in 1..MaxLogs
    BY <1>1, <2>2, <2>3 DEF ModalAsks, ModalCopies
  <2>5. server.logs \in 1..MaxLogs /\ shown.logs \in Seq(1..MaxLogs) /\ view.lastKnown \in 0..MaxLogs
        /\ MaxLogs \in Nat
    BY <1>1, ModalPlain DEF ModalServers, ModalLists, ModalViews
  <2>6. lines \in Seq(1..MaxLogs) /\ (lines # <<>> => Worker!Last(lines) \in 1..MaxLogs)
    <3>1. CASE first
      BY <2>4, <3>1, LinesTyped
    <3>2. CASE ~first
      BY <2>5, <3>2, LinesTyped
    <3> QED BY <3>1, <3>2
  <2> HIDE DEF lines, first
  <2>7. logs \in Seq(1..MaxLogs)
    <3> DEFINE numbers == 1..MaxLogs
               before == shown.logs
    <3>1. before \in Seq(numbers) /\ lines \in Seq(numbers)
      BY <2>5, <2>6
    <3>2. before \o lines \in Seq(numbers)
      <4> HIDE DEF numbers, before
      <4> QED BY <3>1
    <3>3. logs = lines \/ logs = before \o lines
      OBVIOUS
    <3> QED BY <3>1, <3>2, <3>3
  <2>8. known \in 0..MaxLogs
    BY <2>5, <2>6
  <2> HIDE DEF logs, known
  <2> QED BY <1>11, <2>2, <2>3, <2>7, <2>8
<1>13. CASE Worker!LogsRefused
  <2>1. PICK r \in asked :
          /\ r.op \in {"fetch", "load"} /\ r.state = "refused" /\ r.list = "logs" /\ Worker!Land(r)
    BY <1>13 DEF Worker!LogsRefused, Worker!Answers
  <2>2. shown' = shown /\ view' = [view EXCEPT !.loading = no]
    BY <1>5, <1>13 DEF Worker!LogsRefused
  <2>3. /\ view' \in ModalViews /\ view'.loading = no /\ view'.saving = view.saving
        /\ view'.savingSchedule = view.savingSchedule /\ view'.deleting = view.deleting
        /\ view'.reordering = view.reordering
    BY <1>1, <1>5, <2>2 DEF ModalViews
  <2>4. asked' = asked \ {r}
    BY <1>4, <2>1
  <2>5. ModalWaits'
    BY <1>5, <2>1, <2>3, <2>4, ModalEnds DEF ModalWaits
  <2> QED BY <1>1, <1>3, <2>1, <2>2, <2>3, <2>5
<1>14. CASE Worker!NobodyHears({"limits", "update", "create", "delete", "reorder", "fetch"})
  <2>1. PICK r \in asked : ~r.heard /\ Worker!Land(r)
    BY <1>14 DEF Worker!NobodyHears
  <2>2. shown' = shown /\ view' = view
    BY <1>14 DEF Worker!NobodyHears
  <2>3. asked' = asked \ {r}
    BY <1>4, <2>1
  <2>4. ModalWaits'
    BY <2>1, <2>2, <2>3, ModalEnds DEF ModalWaits
  <2> QED BY <1>1, <1>3, <2>1, <2>2, <2>4
<1> QED BY <1>6, <1>7, <1>8, <1>9, <1>10, <1>12, <1>13, <1>14

\* One that asks for the same and has come as far, heard of or not.
Like(p, r) ==
  /\ p.op = r.op /\ p.list = r.list /\ p.on = r.on /\ p.to = r.to
  /\ p.state = r.state /\ p.saw = r.saw /\ (p.op = "load" => p.heard)

\* Some requests are left, and one more list is asked for.
LEMMA ModalFollow ==
  ASSUME ModalInv, NEW others, \A p \in others : Asks(p) /\ \E r \in asked : Like(p, r),
         NEW list \in Worker!Tabs, asked' = Add(others, Request("load", list, Gone, Gone, Gone))
  PROVE  /\ \A r \in asked' : ModalAsks(r)
         /\ \A p \in others : \E r \in asked' : Twin(r, p)
         /\ \E r \in asked' : r.op = "load" /\ r.heard
         /\ others = {} => \A r \in asked' : asked' = {r} /\ r.alone /\ r.op = "load" /\ r.state = "asked"
         /\ others # {} => \A r \in asked' : ~r.alone
<1> DEFINE q == Request("load", list, Gone, Gone, Gone)
<1>1. /\ Asks(q) /\ q.op = "load" /\ q.list = list /\ q.state = "asked" /\ q.heard
  BY RequestAsks DEF Request
<1>2. asked' = Add(others, q)
  OBVIOUS
<1> HIDE DEF q
<1>3. ModalAsks(q)
  BY <1>1 DEF ModalAsks, ScheduleOps
<1>4. /\ \A r \in asked' : Asks(r) /\ \E p \in others \cup {q} : Same(r, p)
      /\ \A p \in others \cup {q} : \E r \in asked' : Same(r, p)
      /\ others = {} => \A r \in asked' : asked' = {r} /\ r.alone
      /\ others # {} => \A r \in asked' : ~r.alone
  BY <1>1, <1>2, JoinAsks
<1>5. others = {} => \A r \in asked' :
        asked' = {r} /\ r.alone /\ r.op = "load" /\ r.state = "asked" /\ r.heard
  BY <1>1, <1>4 DEF Same
<1>6. ASSUME NEW r \in asked' PROVE ModalAsks(r)
  <2>1. r.alone => r.heard
    BY <1>4, <1>5
  <2>2. CASE Same(r, q)
    BY <1>3, <1>4, <2>1, <2>2 DEF ModalAsks, Same
  <2>3. ASSUME NEW p \in others, Same(r, p) PROVE ModalAsks(r)
    <3>1. PICK s \in asked : Like(p, s)
      OBVIOUS
    <3>2. ModalAsks(s)
      BY DEF ModalInv
    <3> QED BY <1>4, <2>1, <2>3, <3>1, <3>2 DEF ModalAsks, Same, Like
  <2> QED BY <1>4, <2>2, <2>3
<1>7. /\ \A p \in others : \E r \in asked' : Twin(r, p)
      /\ \E r \in asked' : r.op = "load" /\ r.heard
  BY <1>1, <1>4 DEF Same, Twin
<1> QED BY <1>4, <1>5, <1>6, <1>7

LEMMA ModalOpen ==
  ASSUME ModalInv, NEW tab \in Worker!Tabs, Worker!ActiveTab(tab) PROVE ModalInv'
<1> DEFINE going == {r \in Worker!Unheard : r.op # "load"}
           nothing == IF tab = "prefs" THEN Gone ELSE <<>>
<1>1. /\ asked' = Add(going, Request("load", tab, Gone, Gone, Gone))
      /\ sent < Sends.worker /\ sent' = sent + 1
      /\ shown' = [shown EXCEPT ![tab] = nothing] /\ view' = Worker!Fresh(tab)
      /\ apart' = DOMAIN shown /\ server' = server /\ dialog' = dialog
  BY DEF Worker!ActiveTab, Worker!Add, Worker!Request, Add, Request
<1>2. /\ server \in ModalServers /\ shown \in ModalLists /\ DOMAIN shown = Worker!Tabs
      /\ Worker!Tabs = {"prefs", "schedules", "logs"}
      /\ sent \in 0..Sends.worker /\ Sends.worker \in Nat /\ dialog \in Seq(ModalDialogs)
      /\ \A r \in asked : ModalAsks(r) /\ Asks(r)
      /\ 0 \in 0..MaxLogs
  BY ModalPlain
<1>3. ASSUME NEW p \in going PROVE Asks(p) /\ \E r \in asked : Like(p, r)
  <2>1. PICK r \in asked : p = [r EXCEPT !.heard = FALSE]
    BY DEF Worker!Unheard
  <2> DEFINE s == [r EXCEPT !.heard = FALSE]
  <2>2. /\ Asks(s) /\ s.op = r.op /\ s.list = r.list /\ s.on = r.on /\ s.to = r.to
        /\ s.state = r.state /\ s.alone = r.alone /\ s.heard = FALSE /\ s.saw = r.saw
    BY <1>2, UnheardAsks
  <2> HIDE DEF s
  <2>3. s.op # "load" /\ s = p
    BY <2>1 DEF s
  <2>4. Like(s, r)
    BY <2>2, <2>3 DEF Like
  <2> QED BY <2>2, <2>3, <2>4
<1>4. /\ \A r \in asked' : ModalAsks(r)
      /\ \E r \in asked' : r.op = "load" /\ r.heard
      /\ going = {} => \A r \in asked' : asked' = {r} /\ r.alone /\ r.op = "load" /\ r.state = "asked"
      /\ going # {} => \A r \in asked' : ~r.alone
  <2> DEFINE others == going
  <2>1. /\ asked' = Add(others, Request("load", tab, Gone, Gone, Gone))
        /\ \A p \in others : Asks(p) /\ \E r \in asked : Like(p, r)
    BY <1>1, <1>3
  <2>2. /\ \A r \in asked' : ModalAsks(r)
        /\ \E r \in asked' : r.op = "load" /\ r.heard
        /\ others = {} => \A r \in asked' : asked' = {r} /\ r.alone /\ r.op = "load" /\ r.state = "asked"
        /\ others # {} => \A r \in asked' : ~r.alone
    <3> HIDE DEF others
    <3> QED BY <2>1, ModalFollow
  <2> QED BY <2>2
<1> HIDE DEF going
<1>5. view' \in ModalViews /\ view'.saving = {} /\ view'.savingSchedule = FALSE
      /\ view'.deleting = FALSE /\ view'.reordering = FALSE
  BY <1>1, <1>2 DEF Worker!Fresh, Worker!Defaults, Worker!Forms, Worker!Rests, Worker!Levels, Prefs, ModalViews
<1>6. shown' \in ModalLists
  <2>1. <<>> \in Orders /\ <<>> \in Seq(1..MaxLogs)
    BY DEF Orders
  <2> QED BY <1>1, <1>2, <2>1 DEF ModalLists
<1>7. ModalTyped'
  <2>1. sent' \in 0..Sends.worker
    BY <1>1, <1>2
  <2>2. Len(server.schedules) <= MaxSchedules
    BY DEF ModalInv, ModalTyped
  <2> QED BY <1>1, <1>2, <1>5, <1>6, <2>1, <2>2 DEF ModalTyped
<1>8. ModalAgrees'
  <2>1. DOMAIN shown' = Worker!Tabs
    BY <1>2, <1>6 DEF ModalLists
  <2>2. Solo'
    BY <1>1, <1>2, <1>4, <2>1 DEF Solo
  <2>3. \A r \in asked' : r.alone => r.state = "asked"
    BY <1>4
  <2> QED BY <1>1, <1>2, <2>2, <2>3 DEF ModalAgrees
<1>9. ModalWaits'
  BY <1>4, <1>5 DEF ModalWaits, Heard
<1> QED BY <1>4, <1>7, <1>8, <1>9 DEF ModalInv

\* A schedule was changed, or a new order refused: the schedules are asked for.
LEMMA ModalReload ==
  ASSUME ModalInv, NEW r \in asked, r.op # "load", Worker!Reload(asked \ {r}),
         apart' = apart \cup {"schedules"}, UNCHANGED <<server, shown>>, r.op # "limits"
  PROVE  /\ ModalAgrees' /\ \A q \in asked' : ModalAsks(q)
         /\ sent' \in 0..Sends.worker /\ apart' \subseteq Worker!Tabs
         /\ \A p \in asked \ {r} : \E q \in asked' : Twin(q, p)
         /\ \E q \in asked' : q.op = "load" /\ q.heard
<1> DEFINE others == asked \ {r}
           list == "schedules"
<1>1. /\ asked' = Add(others, Request("load", list, Gone, Gone, Gone))
      /\ sent < Sends.worker /\ sent' = sent + 1
  BY DEF Worker!Reload, Worker!Add, Worker!Request, Add, Request
<1>2. /\ \A p \in asked : ModalAsks(p) /\ Asks(p)
      /\ DOMAIN shown = Worker!Tabs /\ apart \subseteq Worker!Tabs
      /\ Worker!Tabs = {"prefs", "schedules", "logs"}
      /\ sent \in 0..Sends.worker /\ Sends.worker \in Nat
  BY ModalPlain
<1>3. Solo /\ ("prefs" \notin apart => PrefsAgree)
  BY DEF ModalInv, ModalAgrees
<1>4. others \subseteq asked /\ (r.alone => others = {}) /\ (~r.alone => Worker!Tabs \subseteq apart)
  BY <1>2, <1>3 DEF Solo
<1>5. \A p \in others : Asks(p) /\ \E s \in asked : Like(p, s)
  BY <1>2, <1>4 DEF Like, ModalAsks
<1>6. list \in Worker!Tabs /\ list = "schedules"
  BY <1>2
<1> HIDE DEF others, list
<1>7. /\ \A s \in asked' : ModalAsks(s)
      /\ \A p \in others : \E s \in asked' : Twin(s, p)
      /\ \E s \in asked' : s.op = "load" /\ s.heard
      /\ others = {} => \A s \in asked' : asked' = {s} /\ s.alone /\ s.op = "load" /\ s.state = "asked"
      /\ others # {} => \A s \in asked' : ~s.alone
  BY <1>1, <1>5, <1>6, ModalFollow
<1>8. ModalAgrees'
  <2>1. Solo'
    BY <1>2, <1>4, <1>7 DEF Solo
  <2>2. \A s \in asked' : s.alone => s.state = "asked"
    BY <1>7
  <2>3. ASSUME "prefs" \notin apart' PROVE PrefsAgree'
    <3>1. "prefs" \notin apart /\ PrefsAgree
      BY <1>3, <2>3
    <3>2. r.alone /\ asked = {r} /\ others = {}
      BY <1>2, <1>3, <1>4, <3>1 DEF Solo
    <3>3. shown.prefs = server.prefs /\ shown.prefs # Gone
      BY <3>1, <3>2 DEF PrefsAgree
    <3>4. \A s \in asked' : s.op = "load"
      BY <1>7, <3>2
    <3> QED BY <3>3, <3>4 DEF PrefsAgree
  <2>4. "schedules" \in apart'
    OBVIOUS
  <2> QED BY <2>1, <2>2, <2>3, <2>4 DEF ModalAgrees
<1>9. sent' \in 0..Sends.worker /\ apart' \subseteq Worker!Tabs
  BY <1>1, <1>2
<1> QED BY <1>7, <1>8, <1>9 DEF others

LEMMA ModalReloadKeeps ==
  ASSUME ModalInv, Worker!ScheduleChanged \/ Worker!ReorderRefused PROVE ModalInv'
<1>1. /\ server \in ModalServers /\ shown \in ModalLists /\ view \in ModalViews
      /\ dialog \in Seq(ModalDialogs)
      /\ \A r \in asked : ModalAsks(r)
  BY ModalPlain
<1> DEFINE yes == TRUE
           no == FALSE
<1>2. yes = TRUE /\ no = FALSE
  OBVIOUS
<1>3. PICK r \in asked :
        /\ r.heard /\ Worker!Reload(asked \ {r})
        /\ \/ r.op = "delete" /\ view' = [view EXCEPT !.deleting = no, !.loading = yes]
           \/ r.op \in {"create", "update"} /\ view' = [view EXCEPT !.savingSchedule = no, !.loading = yes]
           \/ r.op = "reorder" /\ view' = [view EXCEPT !.reordering = no, !.loading = yes]
  <2>1. CASE Worker!ScheduleChanged
    <3>1. PICK r \in Worker!Answers("create", "done") \cup Worker!Answers("update", "done")
                       \cup Worker!Answers("delete", "done") :
            /\ Worker!Reload(asked \ {r})
            /\ view' = IF r.op = "delete" THEN [view EXCEPT !.deleting = no, !.loading = yes]
                       ELSE [view EXCEPT !.savingSchedule = no, !.loading = yes]
      BY <2>1 DEF Worker!ScheduleChanged
    <3>2. r \in asked /\ r.op \in {"create", "update", "delete"} /\ r.heard
      BY DEF Worker!Answers
    <3> HIDE DEF yes, no
    <3> QED BY <3>1, <3>2
  <2>2. CASE Worker!ReorderRefused
    <3>1. PICK r \in Worker!Answers("reorder", "refused") : Worker!Reload(asked \ {r})
      BY <2>2 DEF Worker!ReorderRefused
    <3>2. r \in asked /\ r.op = "reorder" /\ r.heard
      BY DEF Worker!Answers
    <3>3. view' = [view EXCEPT !.reordering = no, !.loading = yes]
      BY <2>2 DEF Worker!ReorderRefused
    <3> HIDE DEF yes, no
    <3> QED BY <3>1, <3>2, <3>3
  <2> QED BY <2>1, <2>2
<1> HIDE DEF yes, no
<1>4. /\ UNCHANGED <<server, shown>> /\ apart' = apart \cup {"schedules"}
      /\ dialog' \in {dialog, <<>>}
  BY DEF Worker!ScheduleChanged, Worker!ReorderRefused, Worker!Closed
<1>5. /\ view' \in ModalViews /\ view'.saving = view.saving
      /\ view'.savingSchedule = (IF r.op \in {"create", "update"} THEN no ELSE view.savingSchedule)
      /\ view'.deleting = (IF r.op = "delete" THEN no ELSE view.deleting)
      /\ view'.reordering = (IF r.op = "reorder" THEN no ELSE view.reordering)
  BY <1>1, <1>2, <1>3 DEF ModalViews
<1>6. /\ ModalAgrees' /\ \A q \in asked' : ModalAsks(q)
      /\ sent' \in 0..Sends.worker /\ apart' \subseteq Worker!Tabs
      /\ \A p \in asked \ {r} : \E q \in asked' : Twin(q, p)
      /\ \E q \in asked' : q.op = "load" /\ q.heard
  BY <1>3, <1>4, ModalReload
<1>7. ModalWaits'
  <2>1. ASSUME NEW ops, Heard(ops), r.op \notin ops PROVE Heard(ops)'
    BY <1>6, <2>1 DEF Heard, Twin
  <2>2. \A f \in view.saving : \E q \in asked : q.op = "limits" /\ q.on = f /\ q.heard
    BY DEF ModalInv, ModalWaits
  <2>3. \A f \in view'.saving : \E q \in asked' : q.op = "limits" /\ q.on = f /\ q.heard
    BY <1>3, <1>5, <1>6, <2>2 DEF Twin
  <2>4. /\ view.savingSchedule => Heard({"create", "update"})
        /\ view.deleting => Heard({"delete"})
        /\ view.reordering => Heard({"reorder"})
    BY DEF ModalInv, ModalWaits
  <2>5. Heard({"load", "fetch"})'
    BY <1>6 DEF Heard
  <2>6. ASSUME view'.savingSchedule PROVE Heard({"create", "update"})'
    <3>1. view.savingSchedule /\ r.op \notin {"create", "update"}
      BY <1>2, <1>5, <2>6
    <3> QED BY <2>1, <2>4, <3>1
  <2>7. ASSUME view'.deleting PROVE Heard({"delete"})'
    <3>1. view.deleting /\ r.op \notin {"delete"}
      BY <1>2, <1>5, <2>7
    <3> QED BY <2>1, <2>4, <3>1
  <2>8. ASSUME view'.reordering PROVE Heard({"reorder"})'
    <3>1. view.reordering /\ r.op \notin {"reorder"}
      BY <1>2, <1>5, <2>8
    <3> QED BY <2>1, <2>4, <3>1
  <2> QED BY <2>3, <2>5, <2>6, <2>7, <2>8 DEF ModalWaits
<1>8. dialog' \in Seq(ModalDialogs)
  <2> DEFINE S == Seq(ModalDialogs)
  <2>1. dialog \in S /\ <<>> \in S
    BY <1>1
  <2> HIDE DEF S
  <2> QED BY <1>4, <2>1 DEF S
<1>9. ModalTyped'
  BY <1>1, <1>4, <1>5, <1>6, <1>8 DEF ModalInv, ModalTyped
<1> QED BY <1>6, <1>7, <1>9 DEF ModalInv

\* What the worker does for a request.
LEMMA ModalEffect ==
  ASSUME ModalInv, NEW r \in asked, Worker!Accepts(r)
  PROVE  /\ Worker!Effect(r) \in ModalServers /\ Len(Worker!Effect(r).schedules) <= MaxSchedules
         /\ r.op # "limits" => Worker!Effect(r).prefs = server.prefs
         /\ r.op = "limits" => Worker!Effect(r).prefs = [server.prefs EXCEPT ![r.on] = r.to]
         /\ r.op \notin ScheduleOps /\ r.op # "reorder" => Worker!Effect(r).schedules = server.schedules
<1>1. /\ server \in ModalServers /\ ModalAsks(r)
      /\ server.schedules \in Seq(Schedules)
      /\ Len(server.schedules) \in 0..MaxSchedules /\ MaxSchedules \in Nat
  BY ModalPlain DEF ModalServers, Orders
<1> DEFINE after == Worker!Effect(r)
           order == server.schedules
<1>2. ASSUME NEW new \in Orders, Len(new) <= MaxSchedules, after = [server EXCEPT !.schedules = new]
      PROVE  after \in ModalServers /\ Len(after.schedules) <= MaxSchedules /\ after.prefs = server.prefs
  <2> HIDE DEF after
  <2> QED BY <1>1, <1>2 DEF ModalServers
<1>3. CASE r.op = "limits"
  <2> DEFINE prefs == [server.prefs EXCEPT ![r.on] = r.to]
  <2>1. r.on \in Worker!Forms /\ r.to \in Worker!Rests
    BY <1>1, <1>3 DEF ModalAsks
  <2>2. prefs \in Prefs
    BY <1>1, <2>1 DEF ModalServers, Prefs
  <2>3. after = [server EXCEPT !.prefs = prefs]
    BY <1>3 DEF Worker!Effect
  <2> HIDE DEF prefs, after
  <2>4. after \in ModalServers /\ after.prefs = prefs /\ after.schedules = order
    BY <1>1, <2>2, <2>3 DEF ModalServers
  <2>5. Len(order) <= MaxSchedules
    BY DEF ModalInv, ModalTyped
  <2> QED BY <1>3, <2>4, <2>5 DEF prefs, after
<1>4. CASE r.op = "create"
  <2> DEFINE new == Append(order, r.on)
             n == Len(order)
             m == Len(new)
  <2>1. r.on \in Schedules /\ n < MaxSchedules
    BY <1>1, <1>4 DEF ModalAsks, ScheduleOps, Worker!Accepts
  <2>2. new \in Orders /\ m = n + 1 /\ n \in Nat
    BY <1>1, <2>1 DEF Orders
  <2>3. m <= MaxSchedules
    <3> HIDE DEF n, m
    <3> QED BY <1>1, <2>1, <2>2
  <2>4. after = [server EXCEPT !.schedules = new]
    BY <1>4 DEF Worker!Effect
  <2> HIDE DEF new, after
  <2>5. after \in ModalServers /\ Len(after.schedules) <= MaxSchedules /\ after.prefs = server.prefs
    BY <1>2, <2>2, <2>3, <2>4
  <2> QED BY <1>4, <2>5 DEF after, ScheduleOps
<1>5. CASE r.op = "delete"
  <2> DEFINE places == {i \in DOMAIN order : order[i] # r.on}
             new == Only(order, places)
  <2>1. after = [server EXCEPT !.schedules = new]
    BY <1>5 DEF Worker!Effect, Worker!Only, Worker!Cardinality, Only, Cardinality
  <2>2. places \in SUBSET DOMAIN order
    OBVIOUS
  <2>3. new \in Orders /\ Len(new) <= Len(order)
    <3> HIDE DEF order, places
    <3>1. order \in Seq(Schedules)
      BY <1>1 DEF order
    <3> QED BY <2>2, <3>1, OnlyTakes DEF Orders
  <2>4. Len(new) <= MaxSchedules
    <3> DEFINE n == Len(order)
               m == Len(new)
    <3>1. n \in 0..MaxSchedules /\ m \in Nat /\ m <= n
      BY <1>1, <2>3 DEF Orders
    <3>2. m <= MaxSchedules
      <4> HIDE DEF n, m
      <4> QED BY <1>1, <3>1
    <3> QED BY <3>2
  <2> HIDE DEF new, after
  <2>5. after \in ModalServers /\ Len(after.schedules) <= MaxSchedules /\ after.prefs = server.prefs
    BY <1>2, <2>1, <2>3, <2>4
  <2> QED BY <1>5, <2>5 DEF after, ScheduleOps
<1>6. CASE r.op = "reorder"
  <2>1. r.to \in Orders /\ Len(r.to) = Len(order)
    BY <1>1, <1>6 DEF ModalAsks, Worker!Accepts
  <2>2. Len(r.to) <= MaxSchedules
    BY <2>1 DEF ModalInv, ModalTyped
  <2>3. after = [server EXCEPT !.schedules = r.to]
    BY <1>6 DEF Worker!Effect
  <2> HIDE DEF after
  <2>4. after \in ModalServers /\ Len(after.schedules) <= MaxSchedules /\ after.prefs = server.prefs
    BY <1>2, <2>1, <2>2, <2>3
  <2> QED BY <1>6, <2>4 DEF after
<1>7. CASE r.op \in {"update", "load", "fetch"}
  <2>1. after = server
    BY <1>7 DEF Worker!Effect
  <2>2. Len(order) <= MaxSchedules
    BY DEF ModalInv, ModalTyped
  <2> HIDE DEF after
  <2> QED BY <1>1, <1>7, <2>1, <2>2 DEF after
<1> QED BY <1>1, <1>3, <1>4, <1>5, <1>6, <1>7 DEF ModalAsks, ScheduleOps

LEMMA ModalServed ==
  ASSUME ModalInv, Worker!Serve(Worker!Effect, Worker!Accepts)
  PROVE  ModalInv'
<1>1. PICK r \in asked :
        /\ r.state = "asked"
        /\ \/ /\ Worker!Accepts(r)
              /\ server' = Worker!Effect(r)
              /\ asked' = (asked \ {r}) \cup {Answer(r)}
              /\ apart' = apart
           \/ /\ asked' = (asked \ {r}) \cup {Refusal(r)}
              /\ server' = server /\ apart' = apart
           \/ /\ Worker!Accepts(r)
              /\ server' = Worker!Effect(r)
              /\ asked' = (asked \ {r}) \cup {Refusal(r)}
              /\ apart' = DOMAIN shown
  BY DEF Worker!Serve, Worker!Answer, Worker!Refusal, Worker!Brings, Answer, Refusal, Brings
<1>2. UNCHANGED <<shown, dialog, view, sent>>
  BY DEF Worker!Serve
<1>3. /\ ModalAsks(r) /\ Asks(r) /\ r.list \in Worker!Tabs
      /\ Worker!Tabs = {"prefs", "schedules", "logs"}
      /\ \A q \in asked : ModalAsks(q)
      /\ server \in ModalServers /\ DOMAIN shown = Worker!Tabs /\ apart \subseteq Worker!Tabs
      /\ Len(server.schedules) <= MaxSchedules
  BY ModalPlain DEF ModalAsks, ModalInv, ModalTyped
<1>4. PICK s :
        /\ asked' = (asked \ {r}) \cup {s}
        /\ Asks(s) /\ Twin(s, r) /\ s.alone = r.alone
        /\ \/ /\ s.state = "done" /\ Worker!Accepts(r) /\ server' = Worker!Effect(r)
              /\ apart' = apart
              /\ s.saw = IF r.op \in Brings THEN server'[r.list] ELSE r.saw
           \/ /\ s.state = "refused" /\ s.saw = Gone
              /\ \/ server' = server /\ apart' = apart
                 \/ /\ Worker!Accepts(r) /\ server' = Worker!Effect(r)
                    /\ apart' = DOMAIN shown
  <2> DEFINE accepts == Worker!Accepts(r)
             effect == Worker!Effect(r)
  <2>1. \/ accepts /\ server' = effect /\ asked' = (asked \ {r}) \cup {Answer(r)} /\ apart' = apart
        \/ asked' = (asked \ {r}) \cup {Refusal(r)} /\ server' = server /\ apart' = apart
        \/ /\ accepts /\ server' = effect /\ asked' = (asked \ {r}) \cup {Refusal(r)}
           /\ apart' = DOMAIN shown
    BY <1>1
  <2> HIDE DEF accepts, effect
  <2> QED BY <1>3, <2>1, Answering DEF accepts, effect
<1>5. /\ s.op = r.op /\ s.list = r.list /\ s.on = r.on /\ s.to = r.to /\ s.heard = r.heard
      /\ apart' = apart \/ apart' = Worker!Tabs
      /\ \A list \in Worker!Tabs \ apart' : s.state = "done" \/ server' = server
  BY <1>3, <1>4 DEF Twin
<1>6. /\ server' \in ModalServers /\ Len(server'.schedules) <= MaxSchedules
      /\ r.op # "limits" => server'.prefs = server.prefs
      /\ s.state = "done" /\ r.op = "limits" => server'.prefs = [server.prefs EXCEPT ![r.on] = r.to]
      /\ r.op \notin ScheduleOps /\ r.op # "reorder" => server'.schedules = server.schedules
  <2> DEFINE effect == Worker!Effect(r)
  <2>1. Worker!Accepts(r) =>
          /\ effect \in ModalServers /\ Len(effect.schedules) <= MaxSchedules
          /\ r.op # "limits" => effect.prefs = server.prefs
          /\ r.op = "limits" => effect.prefs = [server.prefs EXCEPT ![r.on] = r.to]
          /\ r.op \notin ScheduleOps /\ r.op # "reorder" => effect.schedules = server.schedules
    BY ModalEffect
  <2>2. /\ (server' = effect /\ Worker!Accepts(r)) \/ server' = server
        /\ s.state = "done" => server' = effect /\ Worker!Accepts(r)
    BY <1>4
  <2> HIDE DEF effect
  <2> QED BY <1>3, <2>1, <2>2
<1>7. s.op \in {"load", "reorder"} /\ s.state = "done" => s.saw = server'[s.list]
  BY <1>4, <1>5 DEF Brings
<1>8. \A q \in asked' : ModalAsks(q)
  <2>1. s.op \in {"load", "reorder"} /\ s.state = "done" => s.saw \in ModalCopies(s.list)
    BY <1>3, <1>5, <1>6, <1>7 DEF ModalCopies, ModalServers
  <2>2. ModalAsks(s)
    BY <1>3, <1>4, <1>5, <2>1 DEF ModalAsks
  <2> QED BY <1>3, <1>4, <2>2
<1>9. ModalAgrees'
  <2>1. /\ Solo /\ ("prefs" \notin apart => PrefsAgree) /\ ("schedules" \notin apart => OrderAgrees)
    BY DEF ModalInv, ModalAgrees
  <2>2. Solo'
    BY <1>2, <1>3, <1>4, <1>5, <2>1 DEF Solo
  <2>3. ASSUME NEW q \in asked', q.op \in {"load", "reorder"}, q.state = "done", q.alone
        PROVE  q.saw = server'[q.list]
    <3>1. q = s
      BY <1>4, <2>2, <2>3 DEF Solo
    <3> QED BY <1>7, <2>3, <3>1
  <2>4. ASSUME NEW list \in {"prefs", "schedules"}, list \notin apart'
        PROVE  /\ list \notin apart /\ asked = {r} /\ asked' = {s}
               /\ s.state = "done" \/ server' = server
    <3>1. list \notin apart
      BY <1>3, <1>5, <2>4
    <3>2. asked = {r}
      BY <1>3, <2>1, <3>1 DEF Solo
    <3> QED BY <1>3, <1>4, <1>5, <2>4, <3>1, <3>2
  <2>5. ASSUME "prefs" \notin apart' PROVE PrefsAgree'
    <3>1. /\ asked = {r} /\ asked' = {s} /\ PrefsAgree
          /\ s.state = "done" \/ server' = server
      BY <2>1, <2>4, <2>5
    <3>2. shown.prefs = server.prefs /\ shown.prefs # Gone
      BY <1>1, <3>1 DEF PrefsAgree
    <3>3. CASE r.op = "limits" /\ s.state = "done"
      <4>1. server'.prefs = [shown'.prefs EXCEPT ![s.on] = s.to] /\ shown'.prefs # Gone
        BY <1>2, <1>5, <1>6, <3>2, <3>3
      <4> QED BY <1>5, <3>1, <3>3, <4>1 DEF PrefsAgree
    <3>4. CASE r.op # "limits" \/ s.state # "done"
      <4>1. server'.prefs = shown'.prefs /\ shown'.prefs # Gone
        BY <1>2, <1>6, <3>1, <3>2, <3>4
      <4> QED BY <1>5, <3>1, <3>4, <4>1 DEF PrefsAgree
    <3> QED BY <3>3, <3>4
  <2>6. ASSUME "schedules" \notin apart' PROVE OrderAgrees'
    <3>1. /\ asked = {r} /\ asked' = {s} /\ OrderAgrees
          /\ s.state = "done" \/ server' = server
      BY <2>1, <2>4, <2>6
    <3>2. CASE r.op = "reorder" \/ (r.op \in ScheduleOps /\ s.state = "done")
      BY <1>5, <3>1, <3>2 DEF OrderAgrees
    <3>3. CASE r.op # "reorder" /\ ~(r.op \in ScheduleOps /\ s.state = "done")
      <4>1. shown.schedules = server.schedules
        BY <1>1, <3>1, <3>3 DEF OrderAgrees
      <4>2. server'.schedules = server.schedules
        BY <1>6, <3>1, <3>3
      <4> QED BY <1>2, <4>1, <4>2 DEF OrderAgrees
    <3> QED BY <3>2, <3>3
  <2> QED BY <2>2, <2>3, <2>5, <2>6 DEF ModalAgrees
<1>10. ModalWaits'
  <2>1. \A p \in asked : \E q \in asked' : Twin(q, p)
    BY <1>4 DEF Twin
  <2> QED BY <1>2, <2>1, ModalCarries DEF ModalWaits, Heard
<1>11. ModalTyped'
  <2>1. shown \in ModalLists /\ view \in ModalViews /\ sent \in 0..Sends.worker /\ dialog \in Seq(ModalDialogs)
    BY ModalPlain
  <2> QED BY <1>2, <1>3, <1>5, <1>6, <2>1 DEF ModalTyped
<1> QED BY <1>8, <1>9, <1>10, <1>11 DEF ModalInv

\* A line is written to the log.
LEMMA ModalLogged == ASSUME ModalInv, Worker!LogWritten PROVE ModalInv'
<1> DEFINE logs == server.logs + 1
           more == apart \cup {"logs"}
<1>1. /\ server' = [server EXCEPT !.logs = logs] /\ server.logs < MaxLogs
      /\ apart' = more /\ UNCHANGED <<shown, asked, dialog, view, sent>>
  BY DEF Worker!LogWritten
<1>2. /\ server \in ModalServers /\ MaxLogs \in Nat /\ DOMAIN shown = Worker!Tabs
      /\ Worker!Tabs = {"prefs", "schedules", "logs"} /\ apart \subseteq Worker!Tabs
  BY ModalPlain
<1>3. logs \in 1..MaxLogs
  BY <1>1, <1>2 DEF ModalServers
<1> HIDE DEF logs
<1>4. /\ server' \in ModalServers /\ server'.prefs = server.prefs /\ server'.schedules = server.schedules
      /\ \A list \in Worker!Tabs \ {"logs"} : server'[list] = server[list]
  BY <1>1, <1>2, <1>3 DEF ModalServers
<1>5. ModalTyped'
  BY <1>1, <1>2, <1>4 DEF ModalInv, ModalTyped
<1>6. ModalAgrees'
  <2>1. Solo'
    BY <1>1 DEF ModalInv, ModalAgrees, Solo
  <2>2. ASSUME NEW r \in asked', r.op \in {"load", "reorder"}, r.list # "logs", r.state = "done", r.alone
        PROVE  r.saw = server'[r.list]
    <3>1. r \in asked /\ r.saw = server[r.list] /\ r.list \in Worker!Tabs
      BY <1>1, <2>2 DEF ModalInv, ModalAgrees, ModalAsks
    <3> QED BY <1>4, <2>2, <3>1
  <2>3. "prefs" \notin apart' => PrefsAgree'
    BY <1>1, <1>4 DEF ModalInv, ModalAgrees, PrefsAgree
  <2>4. "schedules" \notin apart' => OrderAgrees'
    BY <1>1, <1>4 DEF ModalInv, ModalAgrees, OrderAgrees
  <2> QED BY <2>1, <2>2, <2>3, <2>4 DEF ModalAgrees
<1>7. ModalWaits'
  BY <1>1 DEF ModalInv, ModalWaits, Heard
<1> QED BY <1>1, <1>5, <1>6, <1>7 DEF ModalInv

\* The schedules the worker starts with.
LEMMA SchedulesListed == Worker!Stored \in Orders /\ Len(Worker!Stored) <= MaxSchedules
<1> DEFINE n == Cardinality(Schedules)
           m == n - 1
           Listing(order) == \A i, j \in DOMAIN order : i # j => order[i] # order[j]
<1>1. /\ IsFiniteSet(Schedules) /\ MaxSchedules \in Nat /\ n \in 1..(MaxSchedules + 1)
  BY ClientAssumption DEF ClientAssumption
<1>2. PICK f \in [1..n -> Schedules] : \A i, j \in 1..n : f[i] = f[j] => i = j
  <2>1. ExistsBijection(1..n, Schedules)
    BY <1>1, FS_CardinalityType
  <2> HIDE DEF n
  <2> QED BY <2>1 DEF ExistsBijection, Bijection, Injection, IsInjective
<1>3. m \in 0..MaxSchedules /\ 1..m \subseteq 1..n
  <2> HIDE DEF n
  <2> QED BY <1>1
<1>4. \E order \in [1..m -> Schedules] : Listing(order)
  <2> HIDE DEF n, m
  <2>1. [i \in 1..m |-> f[i]] \in [1..m -> Schedules] /\ Listing([i \in 1..m |-> f[i]])
    BY <1>2, <1>3
  <2> HIDE DEF Listing
  <2> QED BY <2>1
<1>5. Worker!Stored \in [1..m -> Schedules]
  <2>1. Worker!Stored = CHOOSE order \in [1..m -> Schedules] : Listing(order)
    BY DEF Worker!Stored, Worker!Cardinality, Cardinality
  <2> HIDE DEF n, m, Listing
  <2> QED BY <1>4, <2>1
<1> HIDE DEF n, m
<1>6. Worker!Stored \in Seq(Schedules) /\ Len(Worker!Stored) = m
  BY <1>3, <1>5
<1> QED BY <1>3, <1>6 DEF Orders

LEMMA ModalMounted == ASSUME Worker!Init PROVE ModalInv
<1>1. PICK tab \in Worker!Tabs : view = Worker!Fresh(tab) /\ Worker!Mounted(tab)
  BY DEF Worker!Init
<1> DEFINE q == Request("load", tab, Gone, Gone, Gone)
           order == Worker!Stored
<1>2. /\ asked = {q} /\ dialog = <<>> /\ apart = DOMAIN shown /\ sent = 0
      /\ shown = [prefs |-> Gone, schedules |-> <<>>, logs |-> <<>>]
      /\ server = [prefs |-> [form \in Worker!Forms |-> "typed"], schedules |-> order, logs |-> 1]
  BY <1>1 DEF Worker!Init, Worker!Mounted, Worker!Request, Worker!Closed, Request
<1>3. order \in Orders /\ Len(order) <= MaxSchedules
  BY SchedulesListed
<1>4. /\ Asks(q) /\ q.op = "load" /\ q.list = tab /\ q.state = "asked" /\ q.heard
  BY RequestAsks DEF Request
<1> HIDE DEF q, order
<1>5. Sends.worker \in Nat /\ MaxLogs \in Nat \ {0}
  BY ClientAssumption DEF ClientAssumption
<1>6. server \in ModalServers /\ server.schedules = order
  <2>1. [form \in Worker!Forms |-> "typed"] \in Prefs /\ 1 \in 1..MaxLogs
    BY <1>5 DEF Prefs, Worker!Rests
  <2> QED BY <1>2, <1>3, <2>1 DEF ModalServers
<1>7. shown \in ModalLists /\ DOMAIN shown = Worker!Tabs
  <2>1. <<>> \in Orders /\ <<>> \in Seq(1..MaxLogs)
    BY DEF Orders
  <2> QED BY <1>2, <2>1 DEF ModalLists, Worker!Tabs
<1>8. view \in ModalViews /\ view.saving = {} /\ view.savingSchedule = FALSE
      /\ view.deleting = FALSE /\ view.reordering = FALSE
  BY <1>1, <1>5 DEF Worker!Fresh, Worker!Defaults, Worker!Forms, Worker!Rests, Worker!Levels, Prefs, ModalViews
<1>9. ModalTyped
  <2>1. dialog \in Seq(ModalDialogs) /\ sent \in 0..Sends.worker
    BY <1>2, <1>5
  <2> QED BY <1>2, <1>3, <1>6, <1>7, <1>8, <2>1 DEF ModalTyped
<1>10. ModalAgrees /\ ModalWaits /\ \A r \in asked : ModalAsks(r)
  <2>1. \A r \in asked : ModalAsks(r)
    BY <1>2, <1>4 DEF ModalAsks, ScheduleOps
  <2>2. Solo
    BY <1>2 DEF Solo
  <2>3. \A r \in asked : r.state = "asked" /\ r.op = "load" /\ r.heard
    BY <1>2, <1>4
  <2>4. ModalAgrees
    BY <1>2, <1>7, <2>2, <2>3 DEF ModalAgrees, Worker!Tabs
  <2>5. ModalWaits
    BY <1>2, <1>8, <2>3 DEF ModalWaits, Heard
  <2> QED BY <2>1, <2>4, <2>5
<1> QED BY <1>9, <1>10 DEF ModalInv

LEMMA ModalStep == ASSUME ModalInv, [Worker!Next]_pageVars PROVE ModalInv'
<1>1. CASE UNCHANGED pageVars
  <2>1. UNCHANGED <<server, shown, asked, apart, sent, dialog, view>>
    BY <1>1 DEF pageVars
  <2>2. view' \in ModalViews /\ dialog' \in Seq(ModalDialogs)
    BY <2>1, ModalPlain
  <2> QED BY <2>1, <2>2, ModalIdle
<1>2. CASE Worker!Next
  BY <1>2, ModalOpen, ModalLook, ModalAsk, ModalLandKeeps, ModalReloadKeeps, ModalLogged, ModalServed
     DEF Worker!Next
<1> QED BY <1>1, <1>2

ModalHolds == page = "worker" => ModalInv

LEMMA ModalAlways == Spec => []ModalHolds
<1>1. Init => ModalHolds
  BY ModalMounted DEF Init, ModalHolds
<1>2. ASSUME ModalHolds, [Next]_vars PROVE ModalHolds'
  <2>1. page' = page /\ (page = "worker" => [Worker!Next]_pageVars)
    BY <1>2 DEF Next, vars
  <2> QED BY <1>2, <2>1, ModalStep DEF ModalHolds
<1> QED BY <1>1, <1>2, PTL DEF Spec

LEMMA ModalPromises ==
  ASSUME ModalInv
  PROVE  /\ Worker!PageOK /\ Worker!TypeOK /\ Worker!ListsShowServer /\ Worker!SpinnersHaveRequests
<1>1. /\ Worker!RequestsOK /\ DOMAIN shown = Worker!Tabs /\ apart \subseteq Worker!Tabs
      /\ sent \in 0..Sends.worker /\ server \in ModalServers /\ shown \in ModalLists
      /\ Worker!Tabs = {"prefs", "schedules", "logs"}
      /\ Len(server.schedules) \in 0..MaxSchedules
  BY ModalPlain, AsksOK DEF Worker!RequestsOK
<1>2. \A i \in DOMAIN dialog : "is" \in DOMAIN dialog[i]
  <2>1. dialog \in Seq(ModalDialogs)
    BY ModalPlain
  <2>2. \A i \in DOMAIN dialog : dialog[i] \in ModalDialogs
    BY <2>1
  <2> QED BY <2>2 DEF ModalDialogs
<1>3. Worker!PageOK
  BY <1>1, <1>2 DEF Worker!PageOK
<1>4. Worker!TypeOK
  <2>1. ASSUME NEW s \in Seq(Schedules) PROVE Worker!Members(s) \subseteq Schedules
    BY DEF Worker!Members
  <2>2. Worker!Members(server.schedules) \subseteq Schedules /\ Worker!Items \subseteq Schedules
    BY <1>1, <2>1 DEF Worker!Items, ModalServers, ModalLists, Orders
  <2> QED BY <1>1, <2>2 DEF Worker!TypeOK, ModalInv, ModalTyped, ModalServers, ModalLists, ModalViews, Prefs
<1>5. Worker!ListsShowServer
  BY <1>1 DEF Worker!ListsShowServer, Worker!ShowsServer, ModalInv, ModalAgrees, PrefsAgree, OrderAgrees
<1>6. Worker!SpinnersHaveRequests
  BY DEF Worker!SpinnersHaveRequests, Worker!Waiting, ModalInv, ModalWaits, Heard
<1> QED BY <1>3, <1>4, <1>5, <1>6

-----------------------------------------------------------------------------
(* The overviews of the workers: the queue of useWorkerOverviews.ts. *)

OverviewStates == [Watched -> {Gone, "done", "refused"}]
OverviewViews == [generation : Nat, workers : Overviews!Rosters, cursor : Nat, checking : SUBSET Watched,
                  state : OverviewStates]
\* A call of the queue that is current, and the workers it has not come to.
Called(w, generation, requests) == \E r \in requests : r.on = w /\ r.to = generation
Queued(v, w, requests) ==
  /\ \E i \in (v.cursor + 1)..Len(v.workers) : v.workers[i] = w
  /\ \E r \in requests : r.to = v.generation
OverviewsInv ==
  /\ server = <<>> /\ shown = <<>> /\ dialog = <<>> /\ apart = {} /\ sent \in 0..Sends.overviews
  /\ \A r \in asked : Asks(r) /\ r.op = "overview" /\ r.on \in Watched
  /\ view \in OverviewViews /\ view.cursor <= Len(view.workers)
  /\ view.checking \subseteq Overviews!Members
  /\ \A w \in view.checking : Called(w, view.generation, asked) \/ Queued(view, w, asked)

LEMMA RosterSeq ==
  ASSUME NEW s \in Overviews!Rosters
  PROVE  /\ Len(s) \in Nat /\ DOMAIN s = 1..Len(s)
         /\ \A i \in 1..Len(s) : s[i] \in Watched
<1>1. CASE s = <<>>
  BY <1>1
<1>2. CASE s # <<>>
  <2>1. Cardinality(Watched) \in Nat
    BY ClientAssumption, FS_CardinalityType DEF ClientAssumption
  <2>2. PICK n \in 1..Cardinality(Watched) : s \in [1..n -> Watched]
    BY <1>2 DEF Overviews!Rosters, Overviews!Cardinality, Cardinality
  <2>3. n \in Nat
    BY <2>1, <2>2
  <2>4. Len(s) = n
    BY <2>2, <2>3
  <2> QED BY <2>2, <2>3, <2>4
<1> QED BY <1>1, <1>2

\* A call, as the module makes it.
LEMMA CallAsks ==
  ASSUME NEW w \in Watched, NEW generation
  PROVE  LET q == Overviews!Call(w, generation) IN
         Asks(q) /\ q.op = "overview" /\ q.on = w /\ q.to = generation
<1> DEFINE q == Request("overview", "none", w, generation, Gone)
<1>1. Asks(q)
  BY RequestAsks
<1>2. q.op = "overview" /\ q.on = w /\ q.to = generation
  BY DEF Request
<1> QED BY <1>1, <1>2 DEF Overviews!Call, Overviews!Request, Request

\* A new roster: the first of its workers are called, the others queue.
LEMMA OverviewsRoster ==
  ASSUME OverviewsInv, NEW workers \in Overviews!Rosters, Overviews!Roster(workers)
  PROVE  OverviewsInv'
<1> DEFINE lanes == Overviews!Smaller(Lanes, Len(workers))
           members == {workers[i] : i \in DOMAIN workers}
           next == view.generation + 1
           calls == {Overviews!Call(workers[i], next) : i \in 1..lanes}
           state == [w \in Watched |-> IF w \in members THEN view.state[w] ELSE Gone]
<1>1. /\ Len(workers) \in Nat /\ DOMAIN workers = 1..Len(workers)
      /\ \A i \in 1..Len(workers) : workers[i] \in Watched
  BY RosterSeq
<1>2. Lanes \in Nat \ {0}
  BY ClientAssumption DEF ClientAssumption
<1>3. lanes \in 0..Len(workers) /\ (Len(workers) > 0 => lanes > 0)
  BY <1>1, <1>2 DEF Overviews!Smaller
<1>4. /\ asked' = asked \cup calls /\ sent' = sent + 1 /\ sent < Sends.overviews
      /\ UNCHANGED <<server, shown, dialog, apart>>
      /\ view' = [generation |-> next, workers |-> workers, cursor |-> lanes, checking |-> members,
                  state |-> state]
  BY DEF Overviews!Roster
<1>5. state \in OverviewStates /\ members \subseteq Watched /\ next \in Nat
  BY <1>1 DEF OverviewsInv, OverviewViews, OverviewStates
<1> HIDE DEF state, next
<1>6. \A i \in 1..lanes : LET q == Overviews!Call(workers[i], next) IN
        Asks(q) /\ q.op = "overview" /\ q.on = workers[i] /\ q.to = next
  BY <1>1, <1>3, CallAsks
<1>7. \A i \in 1..lanes : \E q \in calls : q.on = workers[i] /\ q.to = next
  BY <1>6
<1>8. \A q \in calls : Asks(q) /\ q.op = "overview" /\ q.on \in Watched
  BY <1>1, <1>3, <1>6
<1> HIDE DEF calls, lanes
<1>9. ASSUME NEW w \in members PROVE Called(w, next, asked') \/ Queued(view', w, asked')
  <2>1. PICK i \in 1..Len(workers) : w = workers[i]
    BY <1>1, <1>9
  <2>2. CASE i \in 1..lanes
    BY <1>4, <1>7, <2>1, <2>2 DEF Called
  <2>3. CASE i \notin 1..lanes
    <3>1. i \in (lanes + 1)..Len(workers) /\ 1 \in 1..lanes
      BY <1>1, <1>3, <2>1, <2>3
    <3>2. \E q \in asked' : q.to = next
      BY <1>4, <1>7, <3>1
    <3> QED BY <1>4, <2>1, <3>1, <3>2 DEF Queued
  <2> QED BY <2>2, <2>3
<1>10. Overviews!Members' = members
  BY <1>4 DEF Overviews!Members
<1>11. sent' \in 0..Sends.overviews
  <2>1. Sends.overviews \in Nat
    BY ClientAssumption DEF ClientAssumption
  <2> QED BY <1>4, <2>1 DEF OverviewsInv
<1>12. view' \in OverviewViews /\ view'.cursor <= Len(view'.workers)
  BY <1>1, <1>3, <1>4, <1>5 DEF OverviewViews
<1>13. \A r \in asked' : Asks(r) /\ r.op = "overview" /\ r.on \in Watched
  BY <1>4, <1>8 DEF OverviewsInv
<1> HIDE DEF members
<1> QED BY <1>4, <1>9, <1>10, <1>11, <1>12, <1>13 DEF OverviewsInv

\* A lane is done with one worker, and takes the next.
LEMMA OverviewsConsume == ASSUME OverviewsInv, Overviews!Consume PROVE OverviewsInv'
<1> DEFINE last == Len(view.workers)
           next == Overviews!Smaller(view.cursor + 1, last)
           call == Overviews!Call(view.workers[view.cursor + 1], view.generation)
<1>1. PICK r \in asked :
        /\ r.state # "asked" /\ r.to = view.generation
        /\ asked' = Overviews!TakeNext(asked \ {r})
        /\ view' = [view EXCEPT !.checking = @ \ {r.on}, !.state[r.on] = r.state, !.cursor = next]
        /\ UNCHANGED <<server, shown, dialog, apart, sent>>
  BY DEF Overviews!Consume, Overviews!Obsolete
<1>2. /\ last \in Nat /\ DOMAIN view.workers = 1..last /\ view.cursor \in 0..last
      /\ \A i \in 1..last : view.workers[i] \in Watched
      /\ view \in OverviewViews /\ r.on \in Watched /\ r.state \in {"done", "refused"}
  BY <1>1, RosterSeq DEF OverviewsInv, OverviewViews, Asks
<1>3. next \in 0..last /\ (view.cursor < last => next = view.cursor + 1)
      /\ (~(view.cursor < last) => next = view.cursor)
  BY <1>2 DEF Overviews!Smaller
<1>4. /\ view' \in OverviewViews /\ view'.generation = view.generation
      /\ view'.workers = view.workers /\ view'.cursor = next
      /\ view'.checking = view.checking \ {r.on}
  <2> DEFINE state == [view.state EXCEPT ![r.on] = r.state]
             checking == view.checking \ {r.on}
  <2>1. state \in OverviewStates /\ checking \in SUBSET Watched
    BY <1>2 DEF OverviewViews, OverviewStates
  <2>2. view' = [view EXCEPT !.checking = checking, !.state = state, !.cursor = next]
    BY <1>1, <1>2 DEF OverviewViews
  <2>3. next \in Nat /\ view \in OverviewViews
    BY <1>2, <1>3
  <2> HIDE DEF state, checking, next, last
  <2>4. /\ view' \in OverviewViews /\ view'.generation = view.generation
        /\ view'.workers = view.workers /\ view'.cursor = next /\ view'.checking = checking
    BY <2>1, <2>2, <2>3 DEF OverviewViews
  <2> QED BY <2>4 DEF checking
<1>5. /\ view.cursor < last => asked' = (asked \ {r}) \cup {call}
      /\ ~(view.cursor < last) => asked' = asked \ {r}
  BY <1>1 DEF Overviews!TakeNext
<1>6. view.cursor < last =>
        /\ Asks(call) /\ call.op = "overview" /\ call.to = view.generation
        /\ call.on = view.workers[view.cursor + 1] /\ call.on \in Watched
  BY <1>2, CallAsks
<1> HIDE DEF call, next, last
<1>7. ASSUME NEW w \in view'.checking
      PROVE  Called(w, view'.generation, asked') \/ Queued(view', w, asked')
  <2>1. w \in view.checking /\ w # r.on
    BY <1>4, <1>7
  <2>2. CASE Called(w, view.generation, asked)
    BY <1>4, <1>5, <2>1, <2>2 DEF Called
  <2>3. CASE Queued(view, w, asked)
    <3>1. PICK i \in (view.cursor + 1)..last : view.workers[i] = w
      BY <2>3 DEF Queued, last
    <3>2. view.cursor < last /\ i \in Nat
      BY <1>2, <3>1
    <3>3. CASE i = view.cursor + 1
      BY <1>4, <1>5, <1>6, <3>1, <3>2, <3>3 DEF Called
    <3>4. CASE i # view.cursor + 1
      <4>1. i \in (next + 1)..last
        BY <1>2, <1>3, <3>1, <3>2, <3>4
      <4>2. \E q \in asked' : q.to = view.generation
        BY <1>5, <1>6, <3>2
      <4> QED BY <1>4, <3>1, <4>1, <4>2 DEF Queued, last
    <3> QED BY <3>3, <3>4
  <2> QED BY <2>1, <2>2, <2>3 DEF OverviewsInv
<1>8. \A q \in asked' : Asks(q) /\ q.op = "overview" /\ q.on \in Watched
  BY <1>5, <1>6 DEF OverviewsInv
<1>9. view'.cursor <= Len(view'.workers) /\ Overviews!Members' = Overviews!Members
  BY <1>2, <1>3, <1>4 DEF Overviews!Members, last
<1> QED BY <1>1, <1>4, <1>7, <1>8, <1>9 DEF OverviewsInv

\* A call of an older roster comes in, or the backend answers.
LEMMA OverviewsCarry ==
  ASSUME OverviewsInv, UNCHANGED <<server, shown, dialog, view, apart, sent>>,
         \A r \in asked' : Asks(r) /\ r.op = "overview" /\ r.on \in Watched,
         \A q \in asked : q.to = view.generation => \E r \in asked' : r.on = q.on /\ r.to = q.to
  PROVE  OverviewsInv'
<1>1. \A w : /\ Called(w, view.generation, asked) => Called(w, view.generation, asked')
             /\ Queued(view, w, asked) => Queued(view, w, asked')
  BY DEF Called, Queued
<1>2. Overviews!Members' = Overviews!Members
  BY DEF Overviews!Members
<1> QED BY <1>1, <1>2 DEF OverviewsInv

LEMMA OverviewsServed ==
  ASSUME OverviewsInv, Overviews!Serve(Overviews!Effect, Overviews!Accepts) PROVE OverviewsInv'
<1>1. PICK r \in asked :
        /\ \/ asked' = (asked \ {r}) \cup {Answer(r)} /\ server' = server /\ apart' = apart
           \/ asked' = (asked \ {r}) \cup {Refusal(r)} /\ server' = server /\ apart' = apart
        /\ UNCHANGED <<shown, dialog, view, sent>>
  BY DEF Overviews!Serve, Overviews!Effect, Overviews!Accepts, Overviews!Answer, Overviews!Refusal,
         Overviews!Brings, Answer, Refusal, Brings
<1>2. Asks(r)
  BY DEF OverviewsInv
<1>3. PICK s : asked' = (asked \ {r}) \cup {s} /\ Asks(s) /\ Twin(s, r)
  <2>1. Asks(Answer(r)) /\ Twin(Answer(r), r) /\ Asks(Refusal(r)) /\ Twin(Refusal(r), r)
    BY <1>2, AnswerAsks
  <2> QED BY <1>1, <2>1
<1>4. \A q \in asked' : Asks(q) /\ q.op = "overview" /\ q.on \in Watched
  BY <1>3 DEF OverviewsInv, Twin
<1>5. \A q \in asked : \E p \in asked' : p.on = q.on /\ p.to = q.to
  BY <1>3 DEF Twin
<1> QED BY <1>1, <1>4, <1>5, OverviewsCarry

LEMMA OverviewsStep == ASSUME OverviewsInv, [Overviews!Next]_pageVars PROVE OverviewsInv'
<1>1. CASE UNCHANGED pageVars
  <2>1. UNCHANGED <<server, shown, asked, dialog, view, apart, sent>>
    BY <1>1 DEF pageVars
  <2>2. \A r \in asked' : Asks(r) /\ r.op = "overview" /\ r.on \in Watched
    BY <2>1 DEF OverviewsInv
  <2> QED BY <2>1, <2>2, OverviewsCarry
<1>2. CASE Overviews!LaneEnds
  <2>1. PICK r \in asked : r.to # view.generation /\ asked' = asked \ {r}
    BY <1>2 DEF Overviews!LaneEnds, Overviews!Obsolete
  <2>2. UNCHANGED <<server, shown, dialog, view, apart, sent>>
    BY <1>2 DEF Overviews!LaneEnds
  <2>3. \A q \in asked' : Asks(q) /\ q.op = "overview" /\ q.on \in Watched
    BY <2>1 DEF OverviewsInv
  <2> QED BY <2>1, <2>2, <2>3, OverviewsCarry
<1> QED BY <1>1, <1>2, OverviewsRoster, OverviewsConsume, OverviewsServed DEF Overviews!Next

OverviewsHold == page = "overviews" => OverviewsInv

LEMMA OverviewsAlways == Spec => []OverviewsHold
<1>1. ASSUME Init, page = "overviews" PROVE OverviewsInv
  <2>1. Overviews!Init
    BY <1>1 DEF Init
  <2>2. Sends.overviews \in Nat
    BY ClientAssumption DEF ClientAssumption
  <2>3. <<>> \in Overviews!Rosters /\ Len(<<>>) = 0
    BY DEF Overviews!Rosters
  <2>4. view \in OverviewViews /\ view.cursor = 0 /\ view.workers = <<>> /\ view.checking = {}
    BY <2>1, <2>3 DEF Overviews!Init, OverviewViews, OverviewStates
  <2> QED BY <2>1, <2>2, <2>3, <2>4 DEF Overviews!Init, Overviews!Closed, OverviewsInv
<1>2. ASSUME OverviewsHold, [Next]_vars PROVE OverviewsHold'
  <2>1. page' = page /\ (page = "overviews" => [Overviews!Next]_pageVars)
    BY <1>2 DEF Next, vars
  <2> QED BY <1>2, <2>1, OverviewsStep DEF OverviewsHold
<1>3. Init => OverviewsHold
  BY <1>1 DEF OverviewsHold
<1> QED BY <1>2, <1>3, PTL DEF Spec

LEMMA OverviewsPromises ==
  ASSUME OverviewsInv
  PROVE  Overviews!PageOK /\ Overviews!TypeOK /\ Overviews!SpinnersHaveRequests
<1>1. Overviews!RequestsOK
  BY AsksOK DEF OverviewsInv, Overviews!RequestsOK
<1>2. Overviews!PageOK
  BY <1>1 DEF Overviews!PageOK, OverviewsInv
<1>3. Overviews!TypeOK
  <2>1. Len(view.workers) \in Nat
    BY RosterSeq DEF OverviewsInv, OverviewViews
  <2>2. view.cursor \in 0..Len(view.workers)
    BY <2>1 DEF OverviewsInv, OverviewViews
  <2> QED BY <2>2 DEF Overviews!TypeOK, OverviewsInv, OverviewViews, OverviewStates
<1>4. Overviews!SpinnersHaveRequests
  BY DEF Overviews!SpinnersHaveRequests, OverviewsInv, Called, Queued
<1> QED BY <1>2, <1>3, <1>4

-----------------------------------------------------------------------------
(* The limits of the selected torrents (TorrentLimitModal.tsx). *)

LimitPhases == {"down", "up", "share"}
LimitTables == [Selected -> Limits!Limits]
LimitOrders == [n : Nat, tasks : SUBSET Selected, wish : Limits!Limits]
LimitViews == [limits : Limits!Limits, loading : BOOLEAN, saving : BOOLEAN, error : BOOLEAN, mixed : BOOLEAN]
LimitDialog == dialog = <<>> \/ \E tasks \in (SUBSET Selected) \ {{}} : dialog = <<Limits!Dialog("limits", tasks)>>

LimitAsks(r) ==
  /\ Asks(r)
  /\ r.op \in LimitPhases \cup {"load"} /\ r.list = "limits"
  /\ r.to \in LimitOrders /\ r.on \in r.to.tasks
  /\ r.op = "load" /\ r.state = "done" => r.saw \in LimitTables

\* The calls of one batch, and no others, share their number: they are in one
\* phase, and all heard of or none.
Batched(requests) == \A q, r \in requests : q.to = r.to => q.op = r.op /\ q.heard = r.heard
LimitsWait(v, requests) ==
  /\ v.loading => \E r \in requests : r.op = "load"
  /\ v.saving => \E r \in requests : r.op \in LimitPhases /\ r.heard
LimitsInv ==
  /\ server \in [limits : LimitTables] /\ shown = <<>> /\ apart = {}
  /\ sent \in 0..Sends.limits /\ LimitDialog /\ view \in LimitViews
  /\ \A r \in asked : LimitAsks(r) /\ r.to.n < sent
  /\ Batched(asked) /\ LimitsWait(view, asked)

LEMMA LimitZero ==
  /\ Limits!Zero \in Limits!Limits /\ MaxLimit \in Nat \ {0} /\ Sends.limits \in Nat
  /\ Limits!Fresh \in LimitViews /\ Limits!Fresh.loading = FALSE /\ Limits!Fresh.saving = FALSE
<1>1. MaxLimit \in Nat \ {0} /\ Sends.limits \in Nat
  BY ClientAssumption DEF ClientAssumption
<1>2. Limits!Zero \in Limits!Limits
  BY <1>1 DEF Limits!Zero, Limits!Limits
<1> QED BY <1>1, <1>2 DEF Limits!Fresh, LimitViews

\* The phases are the fields of the limits.
LEMMA LimitFields ==
  ASSUME NEW i \in 1..3
  PROVE  Limits!Phases[i] \in LimitPhases
  BY DEF Limits!Phases, LimitPhases

\* There is a next phase, no earlier than asked for.
LEMMA FirstPhase ==
  ASSUME NEW i \in 1..3, NEW limits \in Limits!Limits
  PROVE  Limits!First(i, limits) \in i..3
<1> DEFINE P(k) == /\ k = 3 \/ limits[Limits!Phases[k]] > 0
                   /\ \A j \in i..(k - 1) : limits[Limits!Phases[j]] = 0
<1>1. \E k \in i..3 : P(k)
  <2>1. /\ limits.down \in Nat /\ limits.up \in Nat
        /\ Limits!Phases[1] = "down" /\ Limits!Phases[2] = "up"
    BY LimitZero DEF Limits!Limits, Limits!Phases
  <2>2. CASE i = 1
    <3>1. CASE limits.down > 0
      BY <2>1, <2>2, <3>1
    <3>2. CASE limits.down = 0 /\ limits.up > 0
      <4>1. P(2)
        BY <2>1, <2>2, <3>2
      <4> QED BY <2>2, <4>1
    <3>3. CASE limits.down = 0 /\ limits.up = 0
      <4>1. \A j \in 1..2 : limits[Limits!Phases[j]] = 0
        BY <2>1, <3>3
      <4>2. P(3)
        BY <2>2, <4>1
      <4> QED BY <2>2, <4>2
    <3> QED BY <2>1, <3>1, <3>2, <3>3
  <2>3. CASE i = 2
    <3>1. CASE limits.up > 0
      BY <2>1, <2>3, <3>1
    <3>2. CASE limits.up = 0
      <4>1. \A j \in 2..2 : limits[Limits!Phases[j]] = 0
        BY <2>1, <3>2
      <4>2. P(3)
        BY <2>3, <4>1
      <4> QED BY <2>3, <4>2
    <3> QED BY <2>1, <3>1, <3>2
  <2>4. CASE i = 3
    <3>1. P(3)
      BY <2>4
    <3> QED BY <2>4, <3>1
  <2> QED BY <2>2, <2>3, <2>4
<1>2. Limits!First(i, limits) = CHOOSE k \in i..3 : P(k)
  BY DEF Limits!First
<1> HIDE DEF P
<1> QED BY <1>1, <1>2

\* Somebody hears of a request, or nobody.
LEMMA HeardAsks ==
  ASSUME NEW r, Asks(r), NEW h \in BOOLEAN
  PROVE  LET s == [r EXCEPT !.heard = h] IN
         /\ Asks(s) /\ s.op = r.op /\ s.list = r.list /\ s.on = r.on /\ s.to = r.to
         /\ s.state = r.state /\ s.alone = r.alone /\ s.heard = h /\ s.saw = r.saw
<1> DEFINE s == [r EXCEPT !.heard = h]
<1>1. PICK op, list, on, to, state, alone, heard, saw :
        r = [op |-> op, list |-> list, on |-> on, to |-> to, state |-> state,
             alone |-> alone, heard |-> heard, saw |-> saw]
  BY DEF Asks, Sent
<1>2. /\ s = [op |-> op, list |-> list, on |-> on, to |-> to, state |-> state,
              alone |-> alone, heard |-> h, saw |-> saw]
      /\ r.op = op /\ r.list = list /\ r.on = on /\ r.to = to /\ r.state = state
      /\ r.alone = alone /\ r.saw = saw
  BY <1>1
<1> HIDE DEF s
<1>3. s = Sent(op, list, on, to, state, alone, h, saw)
  BY <1>2 DEF Sent
<1>4. /\ s.op = r.op /\ s.list = r.list /\ s.on = r.on /\ s.to = r.to
      /\ s.state = r.state /\ s.alone = r.alone /\ s.heard = h /\ s.saw = r.saw
      /\ s = Sent(s.op, s.list, s.on, s.to, s.state, s.alone, s.heard, s.saw)
  BY <1>2, <1>3, SentFields
<1> QED BY <1>4 DEF Asks, s

\* The calls of a batch, as the module makes them.
LEMMA BatchAsks ==
  ASSUME NEW op \in LimitPhases \cup {"load"}, NEW to \in LimitOrders, NEW r \in Limits!Batch(op, to)
  PROVE  LimitAsks(r) /\ r.op = op /\ r.to = to /\ r.heard
<1>1. PICK t \in to.tasks : r = Request(op, "limits", t, to, Gone)
  BY DEF Limits!Batch, Limits!Request, Request
<1> DEFINE q == Request(op, "limits", t, to, Gone)
<1>2. Asks(q)
  BY RequestAsks
<1>3. q.op = op /\ q.list = "limits" /\ q.on = t /\ q.to = to /\ q.state = "asked" /\ q.heard
  BY DEF Request
<1> HIDE DEF q
<1>4. r = q
  BY <1>1 DEF q
<1> QED BY <1>1, <1>2, <1>3, <1>4 DEF LimitAsks

LEMMA BatchThere ==
  ASSUME NEW op, NEW to, to.tasks # {} PROVE Limits!Batch(op, to) # {}
  BY DEF Limits!Batch

\* A new batch: its number is its own.
LEMMA BatchJoins ==
  ASSUME LimitsInv, NEW op \in LimitPhases \cup {"load"}, NEW to \in LimitOrders, to.n = sent, to.tasks # {},
         Limits!AskAll(asked, op, to)
  PROVE  /\ \A r \in asked' : LimitAsks(r) /\ r.to.n < sent'
         /\ Batched(asked') /\ sent' \in 0..Sends.limits /\ apart' = apart
         /\ asked \subseteq asked'
         /\ \E r \in asked' : r.op = op /\ r.heard
<1> DEFINE batch == Limits!Batch(op, to)
<1>1. asked' = asked \cup batch /\ sent' = sent + 1 /\ sent < Sends.limits /\ apart' = apart
  BY DEF Limits!AskAll
<1>2. \A r \in batch : LimitAsks(r) /\ r.op = op /\ r.to = to /\ r.heard
  BY BatchAsks
<1>3. batch # {}
  BY BatchThere
<1> HIDE DEF batch
<1>4. sent \in 0..Sends.limits /\ Sends.limits \in Nat
  BY LimitZero DEF LimitsInv
<1>5. sent' \in 0..Sends.limits /\ sent < sent'
  BY <1>1, <1>4
<1>6. ASSUME NEW r \in asked' PROVE LimitAsks(r) /\ r.to.n < sent'
  <2>1. CASE r \in asked
    <3>1. LimitAsks(r) /\ r.to.n < sent /\ r.to.n \in Nat
      BY <2>1 DEF LimitsInv, LimitAsks, LimitOrders
    <3>2. r.to.n < sent'
      BY <1>1, <1>4, <3>1
    <3> QED BY <3>1, <3>2
  <2>2. CASE r \in batch
    BY <1>2, <1>5, <2>2
  <2> QED BY <1>1, <2>1, <2>2
<1>7. ASSUME NEW q \in asked', NEW r \in asked', q.to = r.to PROVE q.op = r.op /\ q.heard = r.heard
  <2>1. \A p \in asked : p.to.n < sent /\ p.to.n \in Nat
    BY DEF LimitsInv, LimitAsks, LimitOrders
  <2>2. \A p \in asked : p.to # to
    BY <1>4, <2>1
  <2>3. CASE q \in asked /\ r \in asked
    BY <1>7, <2>3 DEF LimitsInv, Batched
  <2>4. CASE q \in batch /\ r \in batch
    BY <1>2, <2>4 DEF LimitAsks, Asks
  <2> QED BY <1>1, <1>2, <1>7, <2>2, <2>3, <2>4
<1>8. Batched(asked')
  BY <1>7 DEF Batched
<1> QED BY <1>1, <1>2, <1>3, <1>5, <1>6, <1>8

LEMMA LimitsPlain ==
  ASSUME LimitsInv
  PROVE  /\ server \in [limits : LimitTables] /\ view \in LimitViews
         /\ sent \in 0..Sends.limits
         /\ \A r \in asked : LimitAsks(r) /\ Asks(r)
         /\ dialog = <<>> => Limits!Top.is = "none"
         /\ Limits!Top.is = "limits" => Limits!Top.on \in (SUBSET Selected) \ {{}}
<1>1. dialog = <<>> => Limits!Top.is = "none"
  BY DEF Limits!Top, Limits!Closed
<1>2. Limits!Top.is = "limits" => Limits!Top.on \in (SUBSET Selected) \ {{}}
  <2>1. ASSUME NEW tasks \in (SUBSET Selected) \ {{}}, dialog = <<Limits!Dialog("limits", tasks)>>
        PROVE  Limits!Top.on = tasks
    <3>1. Limits!Top = Limits!Dialog("limits", tasks)
      BY <2>1 DEF Limits!Top, Limits!Closed
    <3> QED BY <3>1 DEF Limits!Dialog
  <2> QED BY <1>1, <2>1 DEF LimitsInv, LimitDialog
<1> QED BY <1>1, <1>2 DEF LimitsInv, LimitAsks

\* The calls of a batch are all there is of its number.
LEMMA BatchCalls ==
  ASSUME LimitsInv, NEW op \in LimitPhases \cup {"load"}, NEW to \in Limits!Batches(op)
  PROVE  LET calls == Limits!CallsOf(op, to) IN
         /\ calls \subseteq asked /\ calls # {} /\ to \in LimitOrders /\ to.tasks # {} /\ to.n < sent
         /\ \A r \in calls : r.op = op /\ r.to = to
         /\ \A r \in asked \ calls : r.to # to
         /\ \A q, r \in calls : q.heard = r.heard
<1> DEFINE calls == Limits!CallsOf(op, to)
<1>1. /\ calls \subseteq asked /\ \A r \in calls : r.op = op /\ r.to = to
      /\ \A r \in asked : r.op = op /\ r.to = to => r \in calls
  BY DEF Limits!CallsOf
<1>2. PICK p \in asked : p.op = op /\ p.to = to
  BY DEF Limits!Batches
<1>3. to \in LimitOrders /\ to.tasks # {} /\ to.n < sent
  BY <1>2 DEF LimitsInv, LimitAsks
<1> HIDE DEF calls
<1>4. \A r \in asked \ calls : r.to # to
  BY <1>1, <1>2 DEF LimitsInv, Batched
<1>5. \A q, r \in calls : q.heard = r.heard
  BY <1>1 DEF LimitsInv, Batched
<1> QED BY <1>1, <1>2, <1>3, <1>4, <1>5 DEF calls

\* Requests leave, and what waits for one of them waits no more.
LEMMA LimitsLeave ==
  ASSUME LimitsInv, UNCHANGED <<server, shown, apart, sent>>, asked' \subseteq asked,
         LimitDialog', view' \in LimitViews, LimitsWait(view', asked')
  PROVE  LimitsInv'
<1>1. \A r \in asked' : LimitAsks(r) /\ r.to.n < sent'
  BY DEF LimitsInv
<1>2. Batched(asked')
  BY DEF LimitsInv, Batched
<1> QED BY <1>1, <1>2 DEF LimitsInv

\* The modal is unmounted.
LEMMA LimitsUnmounted ==
  ASSUME LimitsInv, NEW others \in SUBSET asked, Limits!Unmounted(others)
  PROVE  LimitsInv'
<1>1. /\ dialog' = <<>> /\ view' = Limits!Fresh
      /\ asked' = {[r EXCEPT !.heard = FALSE] : r \in {q \in others : q.op # "load"}}
      /\ UNCHANGED <<server, shown, apart, sent>>
  BY DEF Limits!Unmounted, Limits!Closed
<1>2. ASSUME NEW s \in asked'
      PROVE  \E r \in asked : /\ Asks(s) /\ s.op = r.op /\ s.list = r.list /\ s.on = r.on /\ s.to = r.to
                              /\ s.op # "load" /\ s.heard = FALSE
  <2>1. PICK r \in others : s = [r EXCEPT !.heard = FALSE] /\ r.op # "load"
    BY <1>1, <1>2
  <2>2. Asks(r)
    BY LimitsPlain
  <2> QED BY <2>1, <2>2, UnheardAsks
<1>3. \A s \in asked' : LimitAsks(s) /\ s.to.n < sent'
  BY <1>1, <1>2 DEF LimitsInv, LimitAsks
<1>4. Batched(asked')
  <2>1. ASSUME NEW q \in asked', NEW r \in asked', q.to = r.to PROVE q.op = r.op /\ q.heard = r.heard
    <3>1. PICK a \in asked : q.op = a.op /\ q.to = a.to /\ q.heard = FALSE
      BY <1>2
    <3>2. PICK b \in asked : r.op = b.op /\ r.to = b.to /\ r.heard = FALSE
      BY <1>2
    <3> QED BY <2>1, <3>1, <3>2 DEF LimitsInv, Batched
  <2> QED BY <2>1 DEF Batched
<1>5. LimitDialog' /\ view' \in LimitViews /\ LimitsWait(view', asked')
  BY <1>1, LimitZero DEF LimitDialog, LimitsWait
<1> QED BY <1>1, <1>3, <1>4, <1>5 DEF LimitsInv

\* The user opens the modal, types and saves.
LEMMA LimitsShow ==
  ASSUME LimitsInv, NEW tasks \in (SUBSET Selected) \ {{}}, Limits!HandleShowLimits(tasks)
  PROVE  LimitsInv'
<1> DEFINE to == [n |-> sent, tasks |-> tasks, wish |-> Limits!Zero]
           op == "load"
<1>1. /\ dialog = <<>> /\ Limits!AskAll(asked, op, to) /\ dialog' = Limits!Over(Limits!Dialog("limits", tasks))
      /\ view' = [Limits!Fresh EXCEPT !.loading = TRUE] /\ UNCHANGED <<server, shown>>
  BY DEF Limits!HandleShowLimits, Limits!Closed
<1>2. to \in LimitOrders /\ to.n = sent /\ to.tasks # {} /\ op \in LimitPhases \cup {"load"}
  BY LimitZero, LimitsPlain DEF LimitOrders
<1>3. view' \in LimitViews /\ view'.saving = FALSE
  BY <1>1, LimitZero DEF LimitViews, Limits!Fresh
<1>4. LimitDialog'
  BY <1>1 DEF LimitDialog, Limits!Over
<1> HIDE DEF to, op
<1>5. /\ \A r \in asked' : LimitAsks(r) /\ r.to.n < sent'
      /\ Batched(asked') /\ sent' \in 0..Sends.limits /\ apart' = apart
      /\ \E r \in asked' : r.op = op /\ r.heard
  BY <1>1, <1>2, BatchJoins
<1>6. LimitsWait(view', asked')
  BY <1>3, <1>5 DEF LimitsWait, op
<1> QED BY <1>1, <1>3, <1>4, <1>5, <1>6 DEF LimitsInv

LEMMA LimitsSave == ASSUME LimitsInv, Limits!HandleSave PROVE LimitsInv'
<1> DEFINE to == [n |-> sent, tasks |-> Limits!Top.on, wish |-> view.limits]
           op == Limits!Phases[Limits!First(1, view.limits)]
<1>1. /\ Limits!Top.is = "limits" /\ ~view.loading /\ Limits!AskAll(asked, op, to)
      /\ view' = [view EXCEPT !.saving = TRUE, !.error = FALSE] /\ UNCHANGED <<server, shown, dialog>>
  BY DEF Limits!HandleSave
<1>2. view \in LimitViews /\ view.limits \in Limits!Limits
  BY LimitsPlain DEF LimitViews
<1>3. to \in LimitOrders /\ to.n = sent /\ to.tasks # {}
  BY <1>1, <1>2, LimitsPlain DEF LimitOrders
<1>4. op \in LimitPhases
  <2>1. Limits!First(1, view.limits) \in 1..3
    BY <1>2, FirstPhase
  <2> QED BY <2>1, LimitFields
<1> HIDE DEF to, op
<1>5. /\ \A r \in asked' : LimitAsks(r) /\ r.to.n < sent'
      /\ Batched(asked') /\ sent' \in 0..Sends.limits /\ apart' = apart
      /\ \E r \in asked' : r.op = op /\ r.heard
  BY <1>1, <1>3, <1>4, BatchJoins
<1>6. view' \in LimitViews /\ view'.loading = view.loading
  BY <1>1, <1>2 DEF LimitViews
<1>7. LimitsWait(view', asked')
  BY <1>1, <1>2, <1>4, <1>5, <1>6 DEF LimitsWait, LimitViews
<1>8. LimitDialog'
  BY <1>1 DEF LimitsInv, LimitDialog
<1> QED BY <1>1, <1>5, <1>6, <1>7, <1>8 DEF LimitsInv

LEMMA LimitsEnter ==
  ASSUME LimitsInv, Limits!HandleInputChange \/ Limits!HandleLimitModeChange PROVE LimitsInv'
<1>1. PICK field, limit :
        /\ Limits!Enter(field, limit)
        /\ \/ field \in {"down", "up"} /\ limit \in 0..MaxLimit
           \/ field = "share" /\ limit \in {-2} \cup 0..MaxLimit
  BY DEF Limits!HandleInputChange, Limits!HandleLimitModeChange
<1> DEFINE limits == [view.limits EXCEPT ![field] = limit]
<1>2. /\ view' = [view EXCEPT !.limits = limits] /\ UNCHANGED <<server, shown, asked, dialog, apart, sent>>
  BY <1>1 DEF Limits!Enter
<1>3. view \in LimitViews /\ view.limits \in Limits!Limits
  BY LimitsPlain DEF LimitViews
<1>4. limits \in Limits!Limits
  BY <1>1, <1>3 DEF Limits!Limits
<1> HIDE DEF limits
<1>5. view' \in LimitViews /\ view'.loading = view.loading /\ view'.saving = view.saving
  BY <1>2, <1>3, <1>4 DEF LimitViews
<1>6. LimitsWait(view', asked') /\ LimitDialog'
  BY <1>2, <1>5 DEF LimitsInv, LimitsWait, LimitDialog
<1> QED BY <1>2, <1>5, <1>6, LimitsLeave

\* The limits come in.
LEMMA LimitsShown == ASSUME LimitsInv, Limits!LimitsLoaded PROVE LimitsInv'
<1> DEFINE op == "load"
<1>1. PICK to \in Limits!Batches(op) :
        LET calls == Limits!CallsOf(op, to) IN
        /\ Limits!AllAnswered(calls) /\ asked' = asked \ calls
        /\ \E first \in calls :
             view' = IF Limits!OneRefused(calls) THEN [view EXCEPT !.loading = FALSE, !.error = TRUE]
                     ELSE [view EXCEPT !.loading = FALSE, !.limits = first.saw[first.on],
                                       !.mixed = \E r \in calls : r.saw[r.on] # first.saw[first.on]]
  BY DEF Limits!LimitsLoaded
<1> DEFINE calls == Limits!CallsOf(op, to)
<1>2. UNCHANGED <<server, shown, dialog, apart, sent>>
  BY DEF Limits!LimitsLoaded
<1>3. calls \subseteq asked /\ \A r \in calls : r.op = op /\ r.to = to
  BY BatchCalls
<1>4. PICK first \in calls :
        view' = IF Limits!OneRefused(calls) THEN [view EXCEPT !.loading = FALSE, !.error = TRUE]
                ELSE [view EXCEPT !.loading = FALSE, !.limits = first.saw[first.on],
                                  !.mixed = \E r \in calls : r.saw[r.on] # first.saw[first.on]]
  BY <1>1
<1>5. Limits!AllAnswered(calls) /\ asked' = asked \ calls
  BY <1>1
<1>6. view \in LimitViews
  BY LimitsPlain
<1>7. view' \in LimitViews /\ view'.loading = FALSE /\ view'.saving = view.saving
  <2>1. CASE Limits!OneRefused(calls)
    BY <1>4, <1>6, <2>1 DEF LimitViews
  <2>2. CASE ~Limits!OneRefused(calls)
    <3> DEFINE limits == first.saw[first.on]
               mixed == \E r \in calls : r.saw[r.on] # first.saw[first.on]
    <3>1. first.state = "done" /\ LimitAsks(first)
      <4>1. first.state \in {"asked", "done", "refused"} /\ LimitAsks(first)
        BY <1>3, LimitsPlain DEF Asks
      <4> QED BY <1>5, <2>2, <4>1 DEF Limits!AllAnswered, Limits!OneRefused
    <3>2. limits \in Limits!Limits
      BY <1>3, <3>1 DEF LimitAsks, LimitTables, LimitOrders, op
    <3>3. view' = [view EXCEPT !.loading = FALSE, !.limits = limits, !.mixed = mixed]
      BY <1>4, <2>2
    <3>4. mixed \in BOOLEAN
      OBVIOUS
    <3> HIDE DEF limits, mixed, calls
    <3> QED BY <1>6, <3>2, <3>3, <3>4 DEF LimitViews
  <2> QED BY <2>1, <2>2
<1>8. LimitsWait(view', asked')
  BY <1>3, <1>5, <1>7 DEF LimitsInv, LimitsWait, LimitPhases
<1>9. LimitDialog'
  BY <1>2 DEF LimitsInv, LimitDialog
<1> HIDE DEF calls
<1> QED BY <1>2, <1>5, <1>7, <1>8, <1>9, LimitsLeave

\* A phase of a save is done, and the next begins.
LEMMA LimitsNextPhase == ASSUME LimitsInv, Limits!NextPhase PROVE LimitsInv'
<1>1. PICK i \in 1..2 : \E to \in Limits!Batches(Limits!Phases[i]) :
        LET calls == Limits!CallsOf(Limits!Phases[i], to) IN
        asked' = (asked \ calls) \cup {[r EXCEPT !.heard = Limits!Here(calls)] :
                    r \in Limits!Batch(Limits!Phases[Limits!First(i + 1, to.wish)], to)}
  BY DEF Limits!NextPhase
<1> DEFINE op == Limits!Phases[i]
<1>2. PICK to \in Limits!Batches(op) :
        LET calls == Limits!CallsOf(op, to) IN
        asked' = (asked \ calls) \cup {[r EXCEPT !.heard = Limits!Here(calls)] :
                    r \in Limits!Batch(Limits!Phases[Limits!First(i + 1, to.wish)], to)}
  BY <1>1
<1> DEFINE calls == Limits!CallsOf(op, to)
           next == Limits!Phases[Limits!First(i + 1, to.wish)]
           here == Limits!Here(calls)
           batch == Limits!Batch(next, to)
           new == {[r EXCEPT !.heard = here] : r \in batch}
<1>3. UNCHANGED <<server, shown, dialog, view, apart, sent>>
  BY DEF Limits!NextPhase
<1>4. op \in LimitPhases
  <2>1. i \in 1..3
    OBVIOUS
  <2> QED BY <2>1, LimitFields
<1>5. asked' = (asked \ calls) \cup new
  BY <1>2
<1> HIDE DEF op
<1>6. /\ calls \subseteq asked /\ calls # {} /\ to \in LimitOrders /\ to.tasks # {} /\ to.n < sent
      /\ \A r \in calls : r.op = op /\ r.to = to
      /\ \A r \in asked \ calls : r.to # to
      /\ \A q, r \in calls : q.heard = r.heard
  BY <1>4, BatchCalls
<1>7. next \in LimitPhases
  <2>1. to.wish \in Limits!Limits /\ i + 1 \in 1..3
    BY <1>6 DEF LimitOrders
  <2>2. Limits!First(i + 1, to.wish) \in (i + 1)..3
    BY <2>1, FirstPhase
  <2>3. Limits!First(i + 1, to.wish) \in 1..3
    BY <2>1, <2>2
  <2> QED BY <2>3, LimitFields
<1>8. here \in BOOLEAN /\ \A r \in calls : r.heard = here
  <2>1. here <=> \A r \in calls : r.heard
    BY DEF Limits!Here
  <2>2. \A r \in calls : r.heard \in BOOLEAN
    BY <1>6, LimitsPlain DEF Asks
  <2>3. here \in BOOLEAN
    BY DEF Limits!Here
  <2> HIDE DEF here, calls
  <2> QED BY <1>6, <2>1, <2>2, <2>3
<1> HIDE DEF here, next
<1>9. ASSUME NEW s \in new
      PROVE  LimitAsks(s) /\ s.op = next /\ s.to = to /\ s.heard = here
  <2>1. PICK r \in batch : s = [r EXCEPT !.heard = here]
    BY <1>9
  <2>2. LimitAsks(r) /\ Asks(r) /\ r.op = next /\ r.to = to
    BY <1>6, <1>7, <2>1, BatchAsks DEF LimitAsks
  <2>3. /\ Asks(s) /\ s.op = r.op /\ s.list = r.list /\ s.on = r.on /\ s.to = r.to
        /\ s.state = r.state /\ s.heard = here /\ s.saw = r.saw
    BY <1>8, <2>1, <2>2, HeardAsks
  <2> QED BY <2>2, <2>3 DEF LimitAsks
<1>10. new # {}
  <2>1. batch # {}
    BY <1>6, BatchThere
  <2> HIDE DEF batch
  <2> QED BY <2>1
<1> HIDE DEF new, batch, calls
<1>11. \A r \in asked' : LimitAsks(r) /\ r.to.n < sent'
  BY <1>3, <1>5, <1>6, <1>9 DEF LimitsInv
<1>12. Batched(asked')
  <2>1. ASSUME NEW q \in asked', NEW r \in asked', q.to = r.to PROVE q.op = r.op /\ q.heard = r.heard
    <3>1. CASE q \in asked \ calls /\ r \in asked \ calls
      BY <2>1, <3>1 DEF LimitsInv, Batched
    <3>2. CASE q \in new /\ r \in new
      BY <1>9, <3>2
    <3> QED BY <1>5, <1>6, <1>9, <2>1, <3>1, <3>2
  <2> QED BY <2>1 DEF Batched
<1>13. LimitsWait(view', asked')
  <2>1. ASSUME view.loading PROVE \E r \in asked' : r.op = "load"
    BY <1>4, <1>5, <1>6, <2>1 DEF LimitsInv, LimitsWait, LimitPhases
  <2>2. ASSUME view.saving PROVE \E r \in asked' : r.op \in LimitPhases /\ r.heard
    <3>1. PICK r \in asked : r.op \in LimitPhases /\ r.heard
      BY <2>2 DEF LimitsInv, LimitsWait
    <3>2. CASE r \in calls
      <4>1. here
        BY <1>8, <3>1, <3>2
      <4> QED BY <1>5, <1>7, <1>9, <1>10, <4>1
    <3> QED BY <1>5, <3>1, <3>2
  <2> QED BY <1>3, <2>1, <2>2 DEF LimitsWait
<1>14. LimitDialog'
  BY <1>3 DEF LimitsInv, LimitDialog
<1> QED BY <1>3, <1>11, <1>12, <1>13, <1>14 DEF LimitsInv

\* A save stops, or is done.
LEMMA LimitsStop == ASSUME LimitsInv, Limits!SaveStops PROVE LimitsInv'
<1>1. PICK i \in 1..3 : \E to \in Limits!Batches(Limits!Phases[i]) :
        LET calls == Limits!CallsOf(Limits!Phases[i], to) IN
        /\ asked' = asked \ calls
        /\ view' = IF Limits!Here(calls) THEN [view EXCEPT !.saving = FALSE, !.error = TRUE] ELSE view
  BY DEF Limits!SaveStops
<1> DEFINE op == Limits!Phases[i]
<1>2. PICK to \in Limits!Batches(op) :
        LET calls == Limits!CallsOf(op, to) IN
        /\ asked' = asked \ calls
        /\ view' = IF Limits!Here(calls) THEN [view EXCEPT !.saving = FALSE, !.error = TRUE] ELSE view
  BY <1>1
<1> DEFINE calls == Limits!CallsOf(op, to)
<1>3. UNCHANGED <<server, shown, dialog, apart, sent>>
  BY DEF Limits!SaveStops
<1>4. op \in LimitPhases
  BY LimitFields
<1>5. /\ asked' = asked \ calls
      /\ view' = IF Limits!Here(calls) THEN [view EXCEPT !.saving = FALSE, !.error = TRUE] ELSE view
  BY <1>2
<1> HIDE DEF op
<1>6. /\ calls \subseteq asked /\ \A r \in calls : r.op = op /\ r.to = to
      /\ \A q, r \in calls : q.heard = r.heard
  BY <1>4, BatchCalls
<1>7. Limits!Here(calls) <=> \A r \in calls : r.heard
  BY DEF Limits!Here
<1> HIDE DEF calls
<1>8. view \in LimitViews
  BY LimitsPlain
<1>9. view' \in LimitViews /\ view'.loading = view.loading /\ (view'.saving => view.saving /\ ~Limits!Here(calls))
  BY <1>5, <1>8 DEF LimitViews
<1>10. LimitsWait(view', asked')
  <2>1. ASSUME view'.saving PROVE \E r \in asked' : r.op \in LimitPhases /\ r.heard
    <3>1. PICK r \in asked : r.op \in LimitPhases /\ r.heard
      BY <1>9, <2>1 DEF LimitsInv, LimitsWait
    <3>2. r \notin calls
      BY <1>6, <1>7, <1>9, <2>1, <3>1
    <3> QED BY <1>5, <3>1, <3>2
  <2>2. ASSUME view'.loading PROVE \E r \in asked' : r.op = "load"
    BY <1>4, <1>5, <1>6, <1>9, <2>2 DEF LimitsInv, LimitsWait, LimitPhases
  <2> QED BY <2>1, <2>2 DEF LimitsWait
<1>11. LimitDialog' /\ asked' \subseteq asked
  BY <1>3, <1>5 DEF LimitsInv, LimitDialog
<1> QED BY <1>3, <1>9, <1>10, <1>11, LimitsLeave

LEMMA LimitsSaved == ASSUME LimitsInv, Limits!Saved PROVE LimitsInv'
<1>1. PICK to : Limits!Unmounted(asked \ Limits!CallsOf("share", to))
  BY DEF Limits!Saved
<1> QED BY <1>1, LimitsUnmounted

\* The worker answers a call.
LEMMA LimitEffect ==
  ASSUME LimitsInv, NEW r \in asked
  PROVE  /\ Limits!Effect(r) \in [limits : LimitTables]
         /\ r.op = "load" => Limits!Effect(r) = server
<1>1. LimitAsks(r) /\ server \in [limits : LimitTables]
  BY LimitsPlain
<1>2. CASE r.op = "load"
  BY <1>1, <1>2 DEF Limits!Effect
<1>3. CASE r.op # "load"
  <2> DEFINE wish == r.to.wish[r.op]
             limits == [server.limits[r.on] EXCEPT ![r.op] = wish]
             table == [server.limits EXCEPT ![r.on] = limits]
  <2>1. r.op \in LimitPhases /\ r.to.wish \in Limits!Limits /\ r.on \in Selected
        /\ server.limits \in LimitTables /\ server.limits[r.on] \in Limits!Limits
    BY <1>1, <1>3 DEF LimitAsks, LimitOrders, LimitTables
  <2>2. limits \in Limits!Limits
    BY <2>1 DEF LimitPhases, Limits!Limits
  <2>3. Limits!Effect(r) = [server EXCEPT !.limits = table]
    BY <1>3 DEF Limits!Effect
  <2> HIDE DEF limits
  <2>4. table \in LimitTables
    BY <2>1, <2>2 DEF LimitTables
  <2> HIDE DEF table
  <2> QED BY <1>1, <1>3, <2>3, <2>4
<1> QED BY <1>2, <1>3

LEMMA LimitsServed ==
  ASSUME LimitsInv, Limits!Serve(Limits!Effect, Limits!Accepts) PROVE LimitsInv'
<1>1. PICK r \in asked :
        /\ \/ asked' = (asked \ {r}) \cup {Answer(r)} /\ server' = Limits!Effect(r) /\ apart' = apart
           \/ asked' = (asked \ {r}) \cup {Refusal(r)} /\ server' = server /\ apart' = apart
           \/ /\ asked' = (asked \ {r}) \cup {Refusal(r)} /\ server' = Limits!Effect(r)
              /\ apart' = DOMAIN shown
        /\ UNCHANGED <<shown, dialog, view, sent>>
  BY DEF Limits!Serve, Limits!Accepts, Limits!Answer, Limits!Refusal, Limits!Brings, Answer, Refusal, Brings
<1>2. LimitAsks(r) /\ Asks(r)
  BY LimitsPlain
<1>3. /\ Limits!Effect(r) \in [limits : LimitTables] /\ (r.op = "load" => Limits!Effect(r) = server)
      /\ server \in [limits : LimitTables]
  BY LimitEffect, LimitsPlain
<1>4. PICK s : /\ asked' = (asked \ {r}) \cup {s} /\ Asks(s) /\ Twin(s, r)
               /\ s.state = "done" /\ s.op = "load" => s.saw = server'[s.list]
  <2>1. /\ Asks(Answer(r)) /\ Twin(Answer(r), r) /\ Asks(Refusal(r)) /\ Twin(Refusal(r), r)
        /\ Answer(r).saw = IF r.op \in Brings THEN server'[r.list] ELSE r.saw
        /\ Refusal(r).state = "refused"
    BY <1>2, AnswerAsks
  <2>2. Answer(r).op = "load" => Answer(r).saw = server'[Answer(r).list]
    BY <2>1 DEF Twin, Brings
  <2> QED BY <1>1, <2>1, <2>2
<1>5. server' \in [limits : LimitTables]
  BY <1>1, <1>3
<1>6. LimitAsks(s)
  BY <1>2, <1>4, <1>5 DEF LimitAsks, Twin
<1>7. \A q \in asked' : LimitAsks(q) /\ q.to.n < sent'
  BY <1>1, <1>4, <1>6 DEF LimitsInv, Twin
<1>8. Batched(asked')
  <2>1. ASSUME NEW q \in asked' PROVE \E p \in asked : Twin(q, p)
    BY <1>4, <2>1 DEF Twin
  <2>2. ASSUME NEW q \in asked', NEW p \in asked', q.to = p.to PROVE q.op = p.op /\ q.heard = p.heard
    <3>1. PICK a \in asked : Twin(q, a)
      BY <2>1
    <3>2. PICK b \in asked : Twin(p, b)
      BY <2>1
    <3> QED BY <2>2, <3>1, <3>2 DEF LimitsInv, Batched, Twin
  <2> QED BY <2>2 DEF Batched
<1>9. LimitsWait(view', asked')
  <2>1. \A q \in asked : \E p \in asked' : p.op = q.op /\ p.heard = q.heard
    BY <1>4 DEF Twin
  <2> QED BY <1>1, <2>1 DEF LimitsInv, LimitsWait
<1>10. LimitDialog' /\ apart' = {} /\ shown' = <<>>
  BY <1>1 DEF LimitsInv, LimitDialog
<1> QED BY <1>1, <1>5, <1>7, <1>8, <1>9, <1>10 DEF LimitsInv

LEMMA LimitsStep == ASSUME LimitsInv, [Limits!Next]_pageVars PROVE LimitsInv'
<1>1. CASE UNCHANGED pageVars
  <2>1. UNCHANGED <<server, shown, asked, dialog, view, apart, sent>>
    BY <1>1 DEF pageVars
  <2>2. LimitDialog' /\ view' \in LimitViews /\ LimitsWait(view', asked')
    BY <2>1 DEF LimitsInv, LimitDialog
  <2> QED BY <2>1, <2>2, LimitsLeave
<1>2. CASE Limits!Close
  BY <1>2, LimitsUnmounted DEF Limits!Close
<1> QED BY <1>1, <1>2, LimitsShow, LimitsShown, LimitsEnter, LimitsSave, LimitsNextPhase, LimitsStop,
           LimitsSaved, LimitsServed
        DEF Limits!Next

LimitsHold == page = "limits" => LimitsInv

LEMMA LimitsAlways == Spec => []LimitsHold
<1>1. ASSUME Init, page = "limits" PROVE LimitsInv
  <2>1. Limits!Init
    BY <1>1 DEF Init
  <2>2. PICK limited \in SUBSET Selected :
          server = [limits |-> [t \in Selected |->
                      IF t \in limited THEN [Limits!Zero EXCEPT !.down = 1] ELSE Limits!Zero]]
    BY <2>1 DEF Limits!Init
  <2>3. [Limits!Zero EXCEPT !.down = 1] \in Limits!Limits
    BY LimitZero DEF Limits!Zero, Limits!Limits
  <2>4. server \in [limits : LimitTables]
    BY <2>2, <2>3, LimitZero DEF LimitTables
  <2> QED BY <2>1, <2>4, LimitZero DEF Limits!Init, Limits!Closed, LimitDialog, LimitsWait, Batched, LimitsInv
<1>2. ASSUME LimitsHold, [Next]_vars PROVE LimitsHold'
  <2>1. page' = page /\ (page = "limits" => [Limits!Next]_pageVars)
    BY <1>2 DEF Next, vars
  <2> QED BY <1>2, <2>1, LimitsStep DEF LimitsHold
<1>3. Init => LimitsHold
  BY <1>1 DEF LimitsHold
<1> QED BY <1>2, <1>3, PTL DEF Spec

LEMMA LimitsPromises ==
  ASSUME LimitsInv
  PROVE  Limits!PageOK /\ Limits!TypeOK /\ Limits!SpinnersHaveRequests
<1>1. Limits!RequestsOK
  BY LimitsPlain, AsksOK DEF Limits!RequestsOK
<1>2. \A i \in DOMAIN dialog : "is" \in DOMAIN dialog[i]
  BY DEF LimitsInv, LimitDialog, Limits!Dialog
<1>3. Limits!PageOK
  BY <1>1, <1>2 DEF Limits!PageOK, LimitsInv
<1>4. Limits!TypeOK
  BY DEF Limits!TypeOK, LimitsInv, LimitTables, LimitViews
<1>5. Limits!SpinnersHaveRequests
  <2>1. \A op \in LimitPhases : \E i \in 1..3 : Limits!Phases[i] = op
    <3>1. Limits!Phases[1] = "down" /\ Limits!Phases[2] = "up" /\ Limits!Phases[3] = "share"
      BY DEF Limits!Phases
    <3> QED BY <3>1 DEF LimitPhases
  <2>2. view.saving => \E i \in 1..3 : \E r \in asked : r.op = Limits!Phases[i] /\ r.heard
    BY <2>1 DEF LimitsInv, LimitsWait
  <2> QED BY <2>2 DEF Limits!SpinnersHaveRequests, Limits!Waiting, LimitsInv, LimitsWait
<1> QED BY <1>3, <1>4, <1>5

-----------------------------------------------------------------------------
(* The edits of one torrent: fields, card and image. *)

EditTasks == [category : Labels \cup {Gone}, tags : Editing!Shades, path : Editing!Shades]
EditMetadata == [name : Editing!Shades, image : {"image", Gone}, position : Editing!Shades,
                 brightness : Editing!Shades]
EditLists == [task : EditTasks, metadata : EditMetadata]
EditFields == [draft : Editing!Shades, editing : BOOLEAN, state : {"idle", "saving", "saved"}]
EditViews ==
  [tab : {"overview", "files", "image"}, name : EditFields, path : EditFields,
   category : Labels \cup {Gone}, tags : Editing!Shades, card : {"idle", "saving", "saved", "error"},
   preview : {"image", Gone}, selected : BOOLEAN, uploading : BOOLEAN, deleting : BOOLEAN,
   dragging : BOOLEAN, position : Editing!Shades, brightness : Editing!Shades]
Ranks == {"latest", "older"}
EditOps == {"categories", "metadata", "path", "category", "tags", "unimage"}

\* What a request asks for, and what it brings.
EditFits(op, list, on, to, state, saw) ==
  /\ op \in EditOps
  /\ op = "categories" => on \in Labels \cup {Gone}
  /\ op = "metadata" => /\ list = "metadata" /\ on \in {"name", "image", "position", "brightness"}
                        /\ to \in IF on = "image" THEN {"image"} ELSE Editing!Shades
                        /\ state = "done" => saw \in EditMetadata
  /\ op = "path" => list = "task" /\ on = "path" /\ to \in Editing!Shades
  /\ op = "category" => on = "category" /\ to \in Ranks \X (Labels \cup {Gone}) \X (Labels \cup {Gone})
  /\ op = "tags" => on = "tags" /\ to \in Ranks \X Editing!Shades \X {Gone}
  /\ op = "unimage" => on = "image" /\ (state # "refused" => saw \in EditMetadata)
EditAsks(r) == Asks(r) /\ EditFits(r.op, r.list, r.on, r.to, r.state, r.saw)

HeardOf(op, on, requests) == \E r \in requests : r.op = op /\ r.on = on /\ r.heard
Latest(requests) == \E r \in requests : r.op \in {"category", "tags"} /\ r.heard /\ r.to[1] = "latest"
EditWaits(v, requests) ==
  /\ v.name.state = "saving" => HeardOf("metadata", "name", requests)
  /\ v.path.state = "saving" => HeardOf("path", "path", requests)
  /\ v.card = "saving" => Latest(requests)
  /\ v.uploading => HeardOf("metadata", "image", requests)
  /\ v.deleting => HeardOf("unimage", "image", requests)
WaitsAlike(w, v) ==
  /\ w.name.state = v.name.state /\ w.path.state = v.path.state /\ w.card = v.card
  /\ w.uploading = v.uploading /\ w.deleting = v.deleting
EditInv ==
  /\ server \in EditLists /\ shown \in EditLists /\ view \in EditViews
  /\ dialog = <<>> /\ apart \subseteq {"task", "metadata"} /\ sent \in 0..Sends.editing
  /\ \A r \in asked : EditAsks(r)
  /\ EditWaits(view, asked)

LEMMA EditPlain ==
  ASSUME EditInv
  PROVE  /\ server \in EditLists /\ shown \in EditLists /\ view \in EditViews
         /\ shown.task \in EditTasks /\ shown.metadata \in EditMetadata
         /\ DOMAIN shown = {"task", "metadata"} /\ sent \in 0..Sends.editing /\ Sends.editing \in Nat
         /\ \A r \in asked : EditAsks(r) /\ Asks(r) /\ r.op # "load" /\ r.state \in {"asked", "done", "refused"}
<1>1. Sends.editing \in Nat
  BY ClientAssumption DEF ClientAssumption
<1>2. /\ shown.task \in EditTasks /\ shown.metadata \in EditMetadata
      /\ DOMAIN shown = {"task", "metadata"}
  BY DEF EditInv, EditLists
<1>3. \A r \in asked : EditAsks(r) /\ Asks(r) /\ r.op # "load" /\ r.state \in {"asked", "done", "refused"}
  BY DEF EditInv, EditAsks, EditFits, EditOps, Asks
<1> QED BY <1>1, <1>2, <1>3 DEF EditInv

\* What waits goes on waiting.
LEMMA EditCarries ==
  ASSUME NEW v, NEW w, NEW before, NEW after, EditWaits(v, before), WaitsAlike(w, v),
         \A q \in before : q.op # "categories" =>
           \E p \in after : p.op = q.op /\ p.on = q.on /\ p.heard = q.heard /\ p.to = q.to
  PROVE  EditWaits(w, after)
<1>1. \A op, on : op # "categories" /\ HeardOf(op, on, before) => HeardOf(op, on, after)
  BY DEF HeardOf
<1>2. Latest(before) => Latest(after)
  BY DEF Latest
<1> QED BY <1>1, <1>2 DEF EditWaits, WaitsAlike

\* A request leaves that nothing waits for.
LEMMA EditLeaves ==
  ASSUME NEW v, NEW before, EditWaits(v, before), NEW r, NEW w, w = v \/ WaitsAlike(w, v),
         r.op = "metadata" /\ r.on = "name" /\ r.heard => w.name.state # "saving",
         r.op = "path" /\ r.heard => w.path.state # "saving",
         r.op \in {"category", "tags"} /\ r.heard /\ r.to[1] = "latest" => w.card # "saving",
         r.op = "metadata" /\ r.on = "image" /\ r.heard => ~w.uploading,
         r.op = "unimage" /\ r.heard => ~w.deleting
  PROVE  EditWaits(w, before \ {r})
  BY DEF EditWaits, WaitsAlike, HeardOf, Latest

\* A field is set.
LEMMA FieldSet ==
  ASSUME NEW v \in EditViews, NEW field \in {"name", "path"}, NEW f \in EditFields
  PROVE  LET w == [v EXCEPT ![field] = f] IN
         /\ w \in EditViews /\ w[field] = f /\ w.tab = v.tab
         /\ \A g \in {"name", "path"} : g # field => w[g] = v[g]
         /\ w.card = v.card /\ w.uploading = v.uploading /\ w.deleting = v.deleting
<1>1. CASE field = "name"
  BY <1>1 DEF EditViews
<1>2. CASE field = "path"
  BY <1>2 DEF EditViews
<1> QED BY <1>1, <1>2

\* The look-up of a category.
LEMMA LookUpAsks ==
  ASSUME NEW category \in Labels \cup {Gone}, NEW r \in Editing!LookUp(category)
  PROVE  EditAsks(r) /\ r.op = "categories"
<1> DEFINE q == Request("categories", "none", category, Gone, Gone)
<1>1. r = q
  BY DEF Editing!LookUp, Editing!Request, Request
<1>2. Asks(q)
  BY RequestAsks
<1>3. q.op = "categories" /\ q.on = category /\ q.state = "asked"
  BY DEF Request
<1> HIDE DEF q
<1> QED BY <1>1, <1>2, <1>3 DEF EditAsks, EditFits, EditOps

\* Only the tab, the fields and the editor change.
LEMMA EditLook ==
  ASSUME EditInv, NEW v \in EditViews, WaitsAlike(v, view), Editing!Look(v) PROVE EditInv'
<1>1. view' = v /\ UNCHANGED <<server, shown, asked, dialog, apart, sent>>
  BY DEF Editing!Look
<1>2. EditWaits(v, asked)
  BY EditCarries DEF EditInv
<1> QED BY <1>1, <1>2 DEF EditInv

\* A request is taken that nothing waits for any more.
LEMMA EditLands ==
  ASSUME EditInv, NEW r \in asked, Editing!Land(r), UNCHANGED <<server, shown, dialog>>,
         view' \in EditViews, EditWaits(view', asked \ {r})
  PROVE  EditInv'
<1>1. asked' = asked \ {r} /\ apart' = apart /\ sent' = sent
  BY EditPlain DEF Editing!Land
<1>2. \A q \in asked' : EditAsks(q)
  BY <1>1 DEF EditInv
<1> QED BY <1>1, <1>2 DEF EditInv

\* One more request.
LEMMA EditJoins ==
  ASSUME EditInv, NEW op, NEW list, NEW on, NEW to, NEW saw, EditFits(op, list, on, to, "asked", saw),
         Editing!AskSeeing(op, list, on, to, saw)
  PROVE  /\ \A r \in asked' : EditAsks(r)
         /\ \A q \in asked : \E p \in asked' : p.op = q.op /\ p.on = q.on /\ p.heard = q.heard /\ p.to = q.to
         /\ \E p \in asked' : p.op = op /\ p.on = on /\ p.to = to /\ p.heard
         /\ apart' \subseteq {"task", "metadata"} /\ sent' \in 0..Sends.editing
<1>1. /\ asked' = Add(asked, Request(op, list, on, to, saw)) /\ sent' = sent + 1 /\ sent < Sends.editing
      /\ apart' = IF asked = {} THEN apart ELSE DOMAIN shown
  BY DEF Editing!AskSeeing, Editing!Add, Editing!Request, Add, Request
<1>2. \A r \in asked : Asks(r)
  BY EditPlain
<1>3. /\ \A r \in asked' :
           /\ Asks(r)
           /\ \/ \E p \in asked : Same(r, p)
              \/ /\ r.op = op /\ r.list = list /\ r.on = on /\ r.to = to
                 /\ r.state = "asked" /\ r.heard /\ r.saw = saw
      /\ Carries(asked, asked')
      /\ \E r \in asked' : r.op = op /\ r.list = list /\ r.on = on /\ r.to = to /\ r.heard
  BY <1>1, <1>2, AskJoins
<1>4. ASSUME NEW r \in asked' PROVE EditAsks(r)
  <2>1. CASE \E p \in asked : Same(r, p)
    <3>1. PICK p \in asked : Same(r, p)
      BY <2>1
    <3>2. EditAsks(p)
      BY EditPlain
    <3> QED BY <1>3, <3>1, <3>2 DEF EditAsks, Same
  <2>2. CASE /\ r.op = op /\ r.list = list /\ r.on = on /\ r.to = to
             /\ r.state = "asked" /\ r.heard /\ r.saw = saw
    BY <1>3, <2>2 DEF EditAsks
  <2> QED BY <1>3, <2>1, <2>2
<1>5. apart' \subseteq {"task", "metadata"} /\ sent' \in 0..Sends.editing
  <2>1. apart' \subseteq {"task", "metadata"}
    BY <1>1, EditPlain DEF EditInv
  <2>2. sent' \in 0..Sends.editing
    BY <1>1, EditPlain
  <2> QED BY <2>1, <2>2
<1>6. \A q \in asked : \E p \in asked' : p.op = q.op /\ p.on = q.on /\ p.heard = q.heard /\ p.to = q.to
  BY <1>3 DEF Carries, Twin
<1>7. \E p \in asked' : p.op = op /\ p.on = on /\ p.to = to /\ p.heard
  BY <1>3
<1> QED BY <1>4, <1>5, <1>6, <1>7

\* The page patches its torrent.
LEMMA EditPatches ==
  ASSUME EditInv, NEW part \in {"task", "metadata"}, NEW value,
         value \in IF part = "task" THEN EditTasks ELSE EditMetadata,
         NEW others \in SUBSET asked, NEW v \in EditViews, EditWaits(v, others),
         Editing!Patch(part, value, others, v)
  PROVE  EditInv'
<1> DEFINE moved == part = "task" /\ value.category # shown.task.category
           draft == IF shown'.metadata.name # shown.metadata.name /\ ~v.name.editing
                    THEN shown'.metadata.name ELSE v.name.draft
           name == [v.name EXCEPT !.draft = draft]
           category == IF moved /\ value.category = Gone THEN Gone ELSE v.category
           followed == [v EXCEPT !.tags = shown'.task.tags, !.category = category, !.name = name]
<1>1. /\ shown' = [shown EXCEPT ![part] = value] /\ UNCHANGED <<server, dialog, apart, sent>>
      /\ asked' = IF moved /\ view.tab = "overview"
                  THEN {r \in others : r.op # "categories"} \cup Editing!LookUp(value.category) ELSE others
  BY DEF Editing!Patch
<1>2. shown \in EditLists /\ v.name \in EditFields /\ v.category \in Labels \cup {Gone}
  BY EditPlain DEF EditViews
<1>3. shown' \in EditLists
  BY <1>1, <1>2 DEF EditLists
<1>4. view' = IF part # "metadata" THEN followed
              ELSE [followed EXCEPT !.preview = value.image, !.selected = FALSE,
                                    !.position = value.position, !.brightness = value.brightness]
  <2>1. v = [v EXCEPT !.name = v.name]
    BY DEF EditViews
  <2> QED BY DEF Editing!Patch, EditViews
<1>5. name \in EditFields /\ name.state = v.name.state
  <2>1. draft \in Editing!Shades
    BY <1>2, <1>3 DEF EditLists, EditMetadata, EditFields
  <2> HIDE DEF draft
  <2> QED BY <1>2, <2>1 DEF EditFields
<1>6. category \in Labels \cup {Gone} /\ shown'.task.tags \in Editing!Shades
  BY <1>2, <1>3 DEF EditLists, EditTasks
<1>7. ASSUME NEW tags \in Editing!Shades, NEW new \in Labels \cup {Gone}, NEW f \in EditFields,
             f.state = v.name.state
      PROVE  LET w == [v EXCEPT !.tags = tags, !.category = new, !.name = f] IN
             w \in EditViews /\ WaitsAlike(w, v)
  <2> DEFINE a == [v EXCEPT !.tags = tags]
             b == [a EXCEPT !.category = new]
  <2>1. a \in EditViews /\ WaitsAlike(a, v) /\ a.name = v.name
    BY DEF EditViews, WaitsAlike
  <2> HIDE DEF a
  <2>2. b \in EditViews /\ WaitsAlike(b, v) /\ b.name = v.name
    BY <2>1 DEF EditViews, WaitsAlike
  <2> HIDE DEF b
  <2>3. [b EXCEPT !.name = f] \in EditViews /\ WaitsAlike([b EXCEPT !.name = f], v)
    BY <1>7, <2>2 DEF EditViews, WaitsAlike
  <2> QED BY <2>3 DEF a, b
<1>8. followed \in EditViews /\ WaitsAlike(followed, v)
  <2> HIDE DEF name, category
  <2> QED BY <1>5, <1>6, <1>7
<1> HIDE DEF followed, name, category
<1>9. view' \in EditViews /\ WaitsAlike(view', v)
  <2>1. CASE part # "metadata"
    BY <1>4, <1>8, <2>1
  <2>2. CASE part = "metadata"
    <3> DEFINE a == [followed EXCEPT !.preview = value.image, !.selected = FALSE]
    <3>1. value.image \in {"image", Gone} /\ value.position \in Editing!Shades /\ value.brightness \in Editing!Shades
      BY <2>2 DEF EditMetadata
    <3>2. a \in EditViews /\ WaitsAlike(a, v)
      BY <1>8, <3>1 DEF EditViews, WaitsAlike
    <3>3. view' = [a EXCEPT !.position = value.position, !.brightness = value.brightness]
      BY <1>4, <2>2
    <3> HIDE DEF a
    <3> QED BY <3>1, <3>2, <3>3 DEF EditViews, WaitsAlike
  <2> QED BY <2>1, <2>2
<1>10. ASSUME NEW r \in asked' PROVE EditAsks(r)
  <2>1. moved => value.category \in Labels \cup {Gone}
    BY DEF EditTasks
  <2> HIDE DEF moved
  <2> QED BY <1>1, <2>1, LookUpAsks, EditPlain
<1>11. EditWaits(view', asked')
  <2>1. \A q \in others : q.op # "categories" => q \in asked'
    BY <1>1
  <2>2. \A q \in others : q.op # "categories" =>
          \E p \in asked' : p.op = q.op /\ p.on = q.on /\ p.heard = q.heard /\ p.to = q.to
    BY <2>1
  <2> QED BY <1>9, <2>2, EditCarries
<1> QED BY <1>1, <1>3, <1>9, <1>10, <1>11 DEF EditInv

\* Another tab: only what hangs in the header stays mounted.
LEMMA EditTab ==
  ASSUME EditInv, NEW tab \in {"overview", "files", "image"}, Editing!ActiveTab(tab) PROVE EditInv'
<1> DEFINE name == "name"
           kept == {[r EXCEPT !.heard = r.on = name] : r \in {q \in asked : q.op # "categories"}}
           looks == IF tab = "overview" THEN Editing!LookUp(shown.task.category) ELSE {}
<1>1. asked' = kept \cup looks /\ UNCHANGED <<server, shown, dialog, apart, sent>>
  BY DEF Editing!ActiveTab
<1>2. view \in EditViews /\ shown.task \in EditTasks /\ shown.metadata \in EditMetadata
  BY EditPlain
<1>3. /\ view' \in EditViews /\ view'.name = view.name /\ view'.path.state = "idle" /\ view'.card = "idle"
      /\ view'.uploading = FALSE /\ view'.deleting = FALSE
  <2>1. view' = Editing!Fresh(tab, view.name)
    BY DEF Editing!ActiveTab
  <2>2. view.name \in EditFields
    BY <1>2 DEF EditViews
  <2>3. Editing!Field(shown.task.path) \in EditFields /\ Editing!Field(shown.task.path).state = "idle"
    BY <1>2 DEF EditTasks, EditFields, Editing!Field
  <2> QED BY <1>2, <2>1, <2>2, <2>3 DEF Editing!Fresh, EditViews, EditTasks, EditMetadata
<1>4. ASSUME NEW r \in asked
      PROVE  LET s == [r EXCEPT !.heard = r.on = name] IN
             EditAsks(s) /\ s.op = r.op /\ s.on = r.on /\ s.heard = (r.on = name)
  <2> DEFINE h == r.on = name
             s == [r EXCEPT !.heard = h]
  <2>1. h \in BOOLEAN /\ Asks(r) /\ EditAsks(r)
    BY EditPlain
  <2> HIDE DEF h
  <2>2. /\ Asks(s) /\ s.op = r.op /\ s.list = r.list /\ s.on = r.on /\ s.to = r.to
        /\ s.state = r.state /\ s.heard = h /\ s.saw = r.saw
    BY <2>1, HeardAsks
  <2> HIDE DEF s
  <2>3. EditAsks(s)
    BY <2>1, <2>2 DEF EditAsks
  <2> QED BY <2>2, <2>3 DEF h, s
<1>5. ASSUME NEW s \in asked' PROVE EditAsks(s)
  <2>1. \A r \in looks : EditAsks(r)
    BY <1>2, LookUpAsks DEF EditTasks
  <2>2. \A r \in kept : EditAsks(r)
    BY <1>4
  <2> QED BY <1>1, <2>1, <2>2
<1>6. HeardOf("metadata", name, asked) => HeardOf("metadata", name, asked')
  <2> SUFFICES ASSUME NEW r \in asked, r.op = "metadata", r.on = name
               PROVE  \E s \in kept : s.op = "metadata" /\ s.on = name /\ s.heard
    BY <1>1 DEF HeardOf
  <2>1. [r EXCEPT !.heard = r.on = name] \in kept
    OBVIOUS
  <2> HIDE DEF kept
  <2> QED BY <1>4, <2>1
<1> HIDE DEF kept, looks
<1>7. EditWaits(view', asked')
  BY <1>3, <1>6 DEF EditInv, EditWaits, name
<1> QED BY <1>1, <1>3, <1>5, <1>7 DEF EditInv

\* The name of a category comes in.
LEMMA EditLookedUp == ASSUME EditInv, Editing!CategoriesAnswered PROVE EditInv'
<1>1. PICK r \in asked :
        /\ r.op = "categories" /\ Editing!Land(r)
        /\ view' = [view EXCEPT !.category = IF r.state = "done" THEN r.on ELSE Gone]
        /\ UNCHANGED <<server, shown, dialog>>
  BY DEF Editing!CategoriesAnswered, Editing!Answers
<1> DEFINE category == IF r.state = "done" THEN r.on ELSE Gone
<1>2. view \in EditViews /\ category \in Labels \cup {Gone}
  BY <1>1, EditPlain DEF EditAsks, EditFits
<1> HIDE DEF category
<1>3. view' \in EditViews /\ WaitsAlike(view', view)
  BY <1>1, <1>2 DEF EditViews, WaitsAlike, category
<1>4. EditWaits(view', asked \ {r})
  <2>1. EditWaits(view, asked)
    BY DEF EditInv
  <2>2. \A q \in asked : q.op # "categories" =>
          \E p \in asked \ {r} : p.op = q.op /\ p.on = q.on /\ p.heard = q.heard /\ p.to = q.to
    BY <1>1
  <2> QED BY <1>3, <2>1, <2>2, EditCarries
<1> QED BY <1>1, <1>3, <1>4, EditLands

\* Fields: typing, leaving, and the tick that fades.
LEMMA EditTypes ==
  ASSUME EditInv, NEW field \in {"name", "path"}, Editing!Focus(field) \/ Editing!Type(field)
  PROVE  EditInv'
<1>1. view \in EditViews /\ view[field] \in EditFields /\ EditWaits(view, asked)
  BY EditPlain DEF EditViews, EditInv
<1>2. PICK f \in EditFields :
        /\ f.state = "idle" \/ f.state = view[field].state
        /\ Editing!Look([view EXCEPT ![field] = f])
  <2>1. CASE Editing!Focus(field)
    <3> DEFINE f == [view[field] EXCEPT !.editing = TRUE, !.state = "idle"]
    <3>1. f \in EditFields /\ f.state = "idle"
      BY <1>1 DEF EditFields
    <3>2. Editing!Look([view EXCEPT ![field] = f])
      <4>1. [view EXCEPT ![field].editing = TRUE, ![field].state = "idle"] = [view EXCEPT ![field] = f]
        <5>1. CASE field = "name"
          BY <1>1, <5>1 DEF EditViews, EditFields
        <5>2. CASE field = "path"
          BY <1>1, <5>2 DEF EditViews, EditFields
        <5> QED BY <5>1, <5>2
      <4> QED BY <2>1, <4>1 DEF Editing!Focus
    <3> QED BY <3>1, <3>2
  <2>2. CASE Editing!Type(field)
    <3>1. PICK draft \in Editing!Shades : Editing!Look([view EXCEPT ![field].draft = draft])
      BY <2>2 DEF Editing!Type
    <3> DEFINE f == [view[field] EXCEPT !.draft = draft]
    <3>2. f \in EditFields /\ f.state = view[field].state
      BY <1>1 DEF EditFields
    <3> QED BY <3>1, <3>2
  <2> QED BY <2>1, <2>2
<1> DEFINE w == [view EXCEPT ![field] = f]
<1>3. /\ w \in EditViews /\ w[field] = f
      /\ \A g \in {"name", "path"} : g # field => w[g] = view[g]
      /\ w.card = view.card /\ w.uploading = view.uploading /\ w.deleting = view.deleting
  BY <1>1, FieldSet
<1>4. view' = w /\ UNCHANGED <<server, shown, asked, dialog, apart, sent>>
  BY <1>2 DEF Editing!Look
<1> HIDE DEF w
<1>5. EditWaits(w, asked)
  BY <1>1, <1>2, <1>3 DEF EditWaits
<1> QED BY <1>3, <1>4, <1>5 DEF EditInv

LEMMA EditFades == ASSUME EditInv, Editing!FlashOver PROVE EditInv'
<1>1. view \in EditViews /\ EditWaits(view, asked)
  BY EditPlain DEF EditInv
<1>2. ASSUME NEW field \in {"name", "path"}, Editing!Look([view EXCEPT ![field].state = "idle"]) PROVE EditInv'
  <2> DEFINE f == [view[field] EXCEPT !.state = "idle"]
             w == [view EXCEPT ![field] = f]
  <2>1. f \in EditFields /\ f.state = "idle"
    BY <1>1 DEF EditFields, EditViews
  <2> HIDE DEF f
  <2>2. /\ w \in EditViews /\ w[field] = f
        /\ \A g \in {"name", "path"} : g # field => w[g] = view[g]
        /\ w.card = view.card /\ w.uploading = view.uploading /\ w.deleting = view.deleting
    BY <1>1, <2>1, FieldSet
  <2>3. view' = w /\ UNCHANGED <<server, shown, asked, dialog, apart, sent>>
    BY <1>2 DEF Editing!Look, f
  <2> HIDE DEF w
  <2>4. EditWaits(w, asked)
    BY <1>1, <2>1, <2>2 DEF EditWaits
  <2> QED BY <2>2, <2>3, <2>4 DEF EditInv
<1>3. CASE Editing!Look([view EXCEPT !.card = "idle"])
  <2>1. view' = [view EXCEPT !.card = "idle"] /\ UNCHANGED <<server, shown, asked, dialog, apart, sent>>
    BY <1>3 DEF Editing!Look
  <2>2. view' \in EditViews /\ EditWaits(view', asked)
    BY <1>1, <2>1 DEF EditViews, EditWaits
  <2> QED BY <2>1, <2>2 DEF EditInv
<1> QED BY <1>2, <1>3 DEF Editing!FlashOver, Editing!Fields

LEMMA EditLeavesField ==
  ASSUME EditInv, NEW field \in {"name", "path"}, NEW draft \in Editing!Shades, Editing!Leave(field, draft)
  PROVE  EditInv'
<1>1. view \in EditViews /\ view[field] \in EditFields /\ EditWaits(view, asked) /\ dialog = <<>>
  BY EditPlain DEF EditViews, EditInv
<1>2. CASE Editing!Look([view EXCEPT ![field].editing = FALSE])
  <2> DEFINE f == [view[field] EXCEPT !.editing = FALSE]
             w == [view EXCEPT ![field] = f]
  <2>1. f \in EditFields /\ f.state = view[field].state
    BY <1>1 DEF EditFields
  <2> HIDE DEF f
  <2>2. /\ w \in EditViews /\ w[field] = f
        /\ \A g \in {"name", "path"} : g # field => w[g] = view[g]
        /\ w.card = view.card /\ w.uploading = view.uploading /\ w.deleting = view.deleting
    BY <1>1, <2>1, FieldSet
  <2>3. view' = w /\ UNCHANGED <<server, shown, asked, dialog, apart, sent>>
    BY <1>2 DEF Editing!Look, f
  <2> HIDE DEF w
  <2>4. EditWaits(w, asked)
    BY <1>1, <2>1, <2>2 DEF EditWaits
  <2> QED BY <2>2, <2>3, <2>4 DEF EditInv
<1>3. CASE /\ IF field = "name" THEN Editing!Ask("metadata", "metadata", "name", view.name.draft)
              ELSE Editing!Ask("path", "task", "path", view.path.draft)
           /\ view' = [view EXCEPT ![field] = [draft |-> draft, editing |-> FALSE, state |-> "saving"]]
           /\ UNCHANGED <<server, shown, dialog>>
  <2> DEFINE f == [draft |-> draft, editing |-> FALSE, state |-> "saving"]
             op == IF field = "name" THEN "metadata" ELSE "path"
             list == IF field = "name" THEN "metadata" ELSE "task"
             to == view[field].draft
  <2>1. f \in EditFields
    BY DEF EditFields
  <2>2. Editing!AskSeeing(op, list, field, to, Gone)
    BY <1>3 DEF Editing!Ask
  <2>3. EditFits(op, list, field, to, "asked", Gone)
    BY <1>1 DEF EditFits, EditOps, EditFields
  <2>4. op = IF field = "name" THEN "metadata" ELSE "path"
    OBVIOUS
  <2> HIDE DEF f, op, list, to
  <2>5. /\ \A r \in asked' : EditAsks(r)
        /\ \A q \in asked : \E p \in asked' : p.op = q.op /\ p.on = q.on /\ p.heard = q.heard /\ p.to = q.to
        /\ \E p \in asked' : p.op = op /\ p.on = field /\ p.to = to /\ p.heard
        /\ apart' \subseteq {"task", "metadata"} /\ sent' \in 0..Sends.editing
    BY <2>2, <2>3, EditJoins
  <2>6. view' = [view EXCEPT ![field] = f] /\ UNCHANGED <<server, shown, dialog>>
    BY <1>3 DEF f
  <2> DEFINE w == [view EXCEPT ![field] = f]
  <2>7. /\ w \in EditViews /\ w[field] = f
        /\ \A g \in {"name", "path"} : g # field => w[g] = view[g]
        /\ w.card = view.card /\ w.uploading = view.uploading /\ w.deleting = view.deleting
    BY <1>1, <2>1, FieldSet
  <2>11. view' = w
    BY <2>6
  <2> HIDE DEF w
  <2>8. EditWaits(view, asked')
    BY <1>1, <2>5, EditCarries DEF WaitsAlike
  <2>9. HeardOf(op, field, asked')
    BY <2>5 DEF HeardOf
  <2>10. EditWaits(w, asked')
    BY <2>4, <2>7, <2>8, <2>9 DEF EditWaits
  <2> QED BY <2>5, <2>6, <2>7, <2>10, <2>11 DEF EditInv
<1> QED BY <1>2, <1>3 DEF Editing!Leave

\* Less is waited for than before, and nothing for the request that is taken.
Calmer(w, v) ==
  /\ w.name.state = "saving" => v.name.state = "saving"
  /\ w.path.state = "saving" => v.path.state = "saving"
  /\ w.card = "saving" => v.card = "saving"
  /\ w.uploading => v.uploading
  /\ w.deleting => v.deleting

LEMMA EditTakes ==
  ASSUME EditInv, NEW r \in asked, NEW w, Calmer(w, view),
         r.op = "metadata" /\ r.on = "name" /\ r.heard => w.name.state # "saving",
         r.op = "path" /\ r.heard => w.path.state # "saving",
         r.op \in {"category", "tags"} /\ r.heard /\ r.to[1] = "latest" => w.card # "saving",
         r.op = "metadata" /\ r.on = "image" /\ r.heard => ~w.uploading,
         r.op = "unimage" /\ r.heard => ~w.deleting
  PROVE  EditWaits(w, asked \ {r})
<1>1. EditWaits(w, asked)
  BY DEF EditInv, EditWaits, Calmer
<1>2. w = w \/ WaitsAlike(w, w)
  OBVIOUS
<1> QED BY <1>1, <1>2, EditLeaves

LEMMA EditTyped ==
  ASSUME EditInv, NEW r \in asked
  PROVE  /\ Asks(r) /\ EditAsks(r) /\ view \in EditViews /\ view.name \in EditFields /\ view.path \in EditFields
         /\ shown.metadata \in EditMetadata /\ shown.task \in EditTasks
         /\ asked \ {r} \in SUBSET asked /\ r.heard \in BOOLEAN
         /\ dialog = <<>>
<1>1. asked \ {r} \in SUBSET asked
  OBVIOUS
<1>2. view \in EditViews /\ view.name \in EditFields /\ view.path \in EditFields
  BY EditPlain DEF EditViews
<1>3. Asks(r) /\ EditAsks(r)
  BY EditPlain
<1> QED BY <1>1, <1>2, <1>3, EditPlain DEF Asks, EditInv

\* The fields hear of their answers.
LEMMA EditNamed == ASSUME EditInv, Editing!NameSaved PROVE EditInv'
<1>1. PICK r \in asked :
        /\ r.op = "metadata" /\ r.on = "name" /\ r.state # "asked"
        /\ IF r.state = "done" THEN Editing!Patch("metadata", r.saw, asked \ {r}, [view EXCEPT !.name.state = "saved"])
           ELSE /\ view' = [view EXCEPT !.name.state = "saved"]
                /\ Editing!Land(r) /\ UNCHANGED <<server, shown, dialog>>
  BY DEF Editing!NameSaved
<1> DEFINE f == [view.name EXCEPT !.state = "saved"]
           v == [view EXCEPT !.name = f]
<1>2. /\ EditAsks(r) /\ view \in EditViews /\ view.name \in EditFields /\ asked \ {r} \in SUBSET asked
  BY EditTyped
<1>3. v = [view EXCEPT !.name.state = "saved"]
  BY <1>2 DEF EditViews
<1>4. f \in EditFields /\ f.state = "saved"
  BY <1>2 DEF EditFields
<1> HIDE DEF f
<1>5. /\ v \in EditViews /\ v.name.state = "saved" /\ v.path = view.path /\ v.card = view.card
      /\ v.uploading = view.uploading /\ v.deleting = view.deleting
  BY <1>2, <1>4 DEF EditViews
<1> HIDE DEF v
<1>6. EditWaits(v, asked \ {r})
  <2>1. Calmer(v, view)
    BY <1>5 DEF Calmer
  <2> QED BY <1>1, <1>5, <2>1, EditTakes
<1>7. CASE r.state = "done"
  <2>1. r.saw \in EditMetadata
    BY <1>1, <1>2, <1>7 DEF EditAsks, EditFits
  <2>2. Editing!Patch("metadata", r.saw, asked \ {r}, v)
    BY <1>1, <1>3, <1>7
  <2> DEFINE part == "metadata"
             value == r.saw
             others == asked \ {r}
  <2>3. /\ part \in {"task", "metadata"} /\ value \in IF part = "task" THEN EditTasks ELSE EditMetadata
        /\ others \in SUBSET asked /\ EditWaits(v, others) /\ Editing!Patch(part, value, others, v)
    BY <1>2, <1>6, <2>1, <2>2
  <2> HIDE DEF part, value, others
  <2> QED BY <1>5, <2>3, EditPatches
<1>8. CASE r.state # "done"
  BY <1>1, <1>3, <1>5, <1>6, <1>8, EditLands
<1> QED BY <1>7, <1>8

LEMMA EditPathed == ASSUME EditInv, Editing!PathSaved PROVE EditInv'
<1>1. PICK r \in asked :
        /\ r.op = "path" /\ Editing!Land(r) /\ UNCHANGED <<server, shown, dialog>>
        /\ view' = IF r.heard THEN [view EXCEPT !.path.state = "saved"] ELSE view
  BY DEF Editing!PathSaved
<1> DEFINE f == [view.path EXCEPT !.state = "saved"]
<1>2. view \in EditViews /\ view.path \in EditFields
  BY EditTyped
<1>3. f \in EditFields /\ f.state = "saved"
  BY <1>2 DEF EditFields
<1>4. r.heard => view' = [view EXCEPT !.path = f]
  BY <1>1, <1>2 DEF EditViews
<1> HIDE DEF f
<1>5. /\ view' \in EditViews /\ view'.name = view.name /\ view'.card = view.card
      /\ view'.uploading = view.uploading /\ view'.deleting = view.deleting
      /\ view'.path = IF r.heard THEN f ELSE view.path
  <2>1. CASE r.heard
    BY <1>2, <1>3, <1>4, <2>1 DEF EditViews
  <2>2. CASE ~r.heard
    BY <1>1, <1>2, <2>2
  <2> QED BY <2>1, <2>2
<1>6. Calmer(view', view)
  BY <1>3, <1>5 DEF Calmer
<1>7. EditWaits(view', asked \ {r})
  BY <1>1, <1>3, <1>5, <1>6, EditTakes
<1> QED BY <1>1, <1>5, <1>7, EditLands

\* The card's answers: the last one counts.
LEMMA EditStale == ASSUME EditInv, Editing!Stale PROVE EditInv'
<1>1. PICK r \in asked : /\ r.op \in {"category", "tags"} /\ r.to[1] = "older" /\ Editing!Land(r)
                         /\ UNCHANGED <<server, shown, dialog, view>>
  BY DEF Editing!Stale
<1>2. Calmer(view, view)
  BY DEF Calmer
<1>3. EditWaits(view, asked \ {r})
  BY <1>1, <1>2, EditTakes
<1>4. view' \in EditViews /\ EditWaits(view', asked \ {r})
  BY <1>1, <1>3, EditPlain
<1> QED BY <1>1, <1>4, EditLands

LEMMA CardShows ==
  ASSUME EditInv, NEW r \in asked, r.op \in {"category", "tags"}, NEW state \in {"saved", "error"},
         NEW category \in Labels \cup {Gone},
         NEW v, v = (IF r.heard THEN [view EXCEPT !.category = category, !.card = state] ELSE view)
  PROVE  v \in EditViews /\ EditWaits(v, asked \ {r})
<1>1. view \in EditViews /\ r.heard \in BOOLEAN
  BY EditTyped
<1>2. /\ v \in EditViews /\ v.name = view.name /\ v.path = view.path
      /\ v.uploading = view.uploading /\ v.deleting = view.deleting
      /\ v.card = IF r.heard THEN state ELSE view.card
  BY <1>1 DEF EditViews
<1>3. Calmer(v, view)
  BY <1>2 DEF Calmer
<1> QED BY <1>2, <1>3, EditTakes

LEMMA EditChanged == ASSUME EditInv, Editing!CategoryChanged \/ Editing!TagsChanged PROVE EditInv'
<1>1. PICK r \in asked :
        /\ r.op \in {"category", "tags"}
        /\ \/ /\ r.op = "category"
              /\ Editing!Patch("task", [shown.task EXCEPT !.category = r.to[2]], asked \ {r}, Editing!Card(r, "saved"))
           \/ /\ r.op = "tags"
              /\ Editing!Patch("task", [shown.task EXCEPT !.tags = r.to[2]], asked \ {r}, Editing!Card(r, "saved"))
  BY DEF Editing!CategoryChanged, Editing!TagsChanged
<1>2. /\ EditAsks(r) /\ view \in EditViews /\ shown.task \in EditTasks /\ asked \ {r} \in SUBSET asked
  BY EditTyped
<1> DEFINE v == Editing!Card(r, "saved")
           others == asked \ {r}
           part == "task"
<1>3. v \in EditViews /\ EditWaits(v, others)
  <2>1. view.category \in Labels \cup {Gone}
    BY <1>2 DEF EditViews
  <2>2. v = IF r.heard THEN [view EXCEPT !.category = view.category, !.card = "saved"] ELSE view
    BY <1>2 DEF Editing!Card, EditViews
  <2> HIDE DEF v
  <2> QED BY <1>1, <2>1, <2>2, CardShows
<1>4. PICK value \in EditTasks : Editing!Patch(part, value, others, v)
  <2>1. CASE r.op = "category"
    <3>1. r.to[2] \in Labels \cup {Gone}
      BY <1>2, <2>1 DEF EditAsks, EditFits
    <3>2. [shown.task EXCEPT !.category = r.to[2]] \in EditTasks
      BY <1>2, <3>1 DEF EditTasks
    <3> QED BY <1>1, <2>1, <3>2
  <2>2. CASE r.op = "tags"
    <3>1. r.to[2] \in Editing!Shades
      BY <1>2, <2>2 DEF EditAsks, EditFits
    <3>2. [shown.task EXCEPT !.tags = r.to[2]] \in EditTasks
      BY <1>2, <3>1 DEF EditTasks
    <3> QED BY <1>1, <2>2, <3>2
  <2> QED BY <1>1, <2>1, <2>2
<1>5. part \in {"task", "metadata"} /\ value \in IF part = "task" THEN EditTasks ELSE EditMetadata
  OBVIOUS
<1>6. others \in SUBSET asked
  BY <1>2
<1> HIDE DEF v, others, part
<1> QED BY <1>3, <1>4, <1>5, <1>6, EditPatches

LEMMA EditRefused == ASSUME EditInv, Editing!CategoryRefused PROVE EditInv'
<1>1. PICK r \in asked :
        /\ r.op = "category" /\ Editing!Land(r) /\ UNCHANGED <<server, shown, dialog>>
        /\ view' = IF r.heard THEN [view EXCEPT !.category = r.to[3], !.card = "error"] ELSE view
  BY DEF Editing!CategoryRefused
<1> DEFINE v == IF r.heard THEN [view EXCEPT !.category = r.to[3], !.card = "error"] ELSE view
<1>2. r.to[3] \in Labels \cup {Gone}
  BY <1>1, EditTyped DEF EditAsks, EditFits
<1>3. v \in EditViews /\ EditWaits(v, asked \ {r})
  BY <1>1, <1>2, CardShows
<1>4. view' = v
  BY <1>1
<1> HIDE DEF v
<1> QED BY <1>1, <1>3, <1>4, EditLands

\* The image: its answers.
LEMMA MetadataPatches ==
  ASSUME EditInv, NEW r \in asked, NEW value \in EditMetadata, NEW v \in EditViews, EditWaits(v, asked \ {r}),
         Editing!Patch("metadata", value, asked \ {r}, v)
  PROVE  EditInv'
<1> DEFINE part == "metadata"
           others == asked \ {r}
<1>1. /\ part \in {"task", "metadata"} /\ value \in IF part = "task" THEN EditTasks ELSE EditMetadata
      /\ others \in SUBSET asked /\ EditWaits(v, others) /\ Editing!Patch(part, value, others, v)
  OBVIOUS
<1> HIDE DEF part, others
<1> QED BY <1>1, EditPatches

LEMMA EditUploaded == ASSUME EditInv, Editing!Uploaded PROVE EditInv'
<1>1. PICK r \in asked :
        /\ r.op = "metadata" /\ r.on = "image" /\ r.state = "done"
        /\ Editing!Patch("metadata", r.saw, asked \ {r}, IF r.heard THEN [view EXCEPT !.uploading = FALSE] ELSE view)
  BY DEF Editing!Uploaded
<1> DEFINE v == IF r.heard THEN [view EXCEPT !.uploading = FALSE] ELSE view
<1>2. view \in EditViews /\ r.saw \in EditMetadata
  BY <1>1, EditTyped DEF EditAsks, EditFits
<1>3. /\ v \in EditViews /\ v.name = view.name /\ v.path = view.path /\ v.card = view.card
      /\ v.deleting = view.deleting /\ (v.uploading => view.uploading /\ ~r.heard)
  BY <1>2 DEF EditViews
<1>4. Editing!Patch("metadata", r.saw, asked \ {r}, v)
  BY <1>1
<1> HIDE DEF v
<1>5. Calmer(v, view)
  BY <1>3 DEF Calmer
<1>6. EditWaits(v, asked \ {r})
  BY <1>1, <1>3, <1>5, EditTakes
<1> QED BY <1>2, <1>3, <1>4, <1>6, MetadataPatches

LEMMA EditNotUploaded == ASSUME EditInv, Editing!UploadRefused PROVE EditInv'
<1>1. PICK r \in asked :
        /\ r.op = "metadata" /\ r.on = "image" /\ Editing!Land(r) /\ UNCHANGED <<server, shown, dialog>>
        /\ view' = IF r.heard THEN [view EXCEPT !.preview = shown.metadata.image, !.selected = FALSE,
                                                !.uploading = FALSE] ELSE view
  BY DEF Editing!UploadRefused
<1>2. view \in EditViews /\ shown.metadata.image \in {"image", Gone}
  BY EditTyped DEF EditMetadata
<1>3. /\ view' \in EditViews /\ view'.name = view.name /\ view'.path = view.path /\ view'.card = view.card
      /\ view'.deleting = view.deleting /\ (view'.uploading => view.uploading /\ ~r.heard)
  BY <1>1, <1>2 DEF EditViews
<1>4. Calmer(view', view)
  BY <1>3 DEF Calmer
<1>5. EditWaits(view', asked \ {r})
  BY <1>1, <1>3, <1>4, EditTakes
<1> QED BY <1>1, <1>3, <1>5, EditLands

LEMMA DeletionEnds ==
  ASSUME EditInv, NEW r \in asked, r.op = "unimage",
         NEW v, v = IF r.heard THEN [view EXCEPT !.deleting = FALSE] ELSE view
  PROVE  v \in EditViews /\ EditWaits(v, asked \ {r})
<1>1. view \in EditViews
  BY EditTyped
<1>2. /\ v \in EditViews /\ v.name = view.name /\ v.path = view.path /\ v.card = view.card
      /\ v.uploading = view.uploading /\ (v.deleting => view.deleting /\ ~r.heard)
  BY <1>1 DEF EditViews
<1>3. Calmer(v, view)
  BY <1>2 DEF Calmer
<1>4. EditWaits(v, asked \ {r})
  BY <1>2, <1>3, EditTakes
<1> QED BY <1>2, <1>4

LEMMA EditDeleted == ASSUME EditInv, Editing!ImageDeleted \/ Editing!DeleteRefused PROVE EditInv'
<1>1. CASE Editing!ImageDeleted
  <2>1. PICK r \in asked :
          /\ r.op = "unimage" /\ r.state = "done"
          /\ Editing!Patch("metadata", Editing!NoImage(r.saw), asked \ {r},
                           IF r.heard THEN [view EXCEPT !.deleting = FALSE] ELSE view)
    BY <1>1 DEF Editing!ImageDeleted
  <2> DEFINE v == IF r.heard THEN [view EXCEPT !.deleting = FALSE] ELSE view
             value == Editing!NoImage(r.saw)
  <2>2. r.saw \in EditMetadata
    BY <2>1, EditTyped DEF EditAsks, EditFits
  <2>3. value \in EditMetadata
    BY <2>2 DEF EditMetadata, Editing!NoImage, Editing!Shades
  <2>4. v \in EditViews /\ EditWaits(v, asked \ {r})
    BY <2>1, DeletionEnds
  <2>5. Editing!Patch("metadata", value, asked \ {r}, v)
    BY <2>1
  <2> HIDE DEF v, value
  <2> QED BY <2>3, <2>4, <2>5, MetadataPatches
<1>2. CASE Editing!DeleteRefused
  <2>1. PICK r \in asked :
          /\ r.op = "unimage" /\ Editing!Land(r) /\ UNCHANGED <<server, shown, dialog>>
          /\ view' = IF r.heard THEN [view EXCEPT !.deleting = FALSE] ELSE view
    BY <1>2 DEF Editing!DeleteRefused
  <2> DEFINE v == IF r.heard THEN [view EXCEPT !.deleting = FALSE] ELSE view
  <2>2. v \in EditViews /\ EditWaits(v, asked \ {r})
    BY <2>1, DeletionEnds
  <2>3. view' = v
    BY <2>1
  <2> HIDE DEF v
  <2> QED BY <2>1, <2>2, <2>3, EditLands
<1> QED BY <1>1, <1>2

LEMMA EditShaded == ASSUME EditInv, Editing!ShadeSaved \/ Editing!ShadeRefused PROVE EditInv'
<1>1. Calmer(view, view)
  BY DEF Calmer
<1>2. ASSUME NEW r \in asked, r.op = "metadata", r.on \in {"position", "brightness"}
      PROVE  EditWaits(view, asked \ {r})
  BY <1>1, <1>2, EditTakes
<1>3. CASE Editing!ShadeSaved
  <2>1. PICK r \in asked : /\ r.op = "metadata" /\ r.on \in {"position", "brightness"} /\ r.state = "done"
                           /\ Editing!Patch("metadata", r.saw, asked \ {r}, view)
    BY <1>3 DEF Editing!ShadeSaved
  <2>2. r.saw \in EditMetadata /\ view \in EditViews
    BY <2>1, EditTyped DEF EditAsks, EditFits
  <2>3. EditWaits(view, asked \ {r})
    BY <1>2, <2>1
  <2> QED BY <2>1, <2>2, <2>3, MetadataPatches
<1>4. CASE Editing!ShadeRefused
  <2>1. PICK r \in asked : /\ r.op = "metadata" /\ r.on \in {"position", "brightness"} /\ Editing!Land(r)
                           /\ UNCHANGED <<server, shown, dialog, view>>
    BY <1>4 DEF Editing!ShadeRefused
  <2>2. view' \in EditViews /\ EditWaits(view', asked \ {r})
    BY <1>2, <2>1, EditPlain
  <2> QED BY <2>1, <2>2, EditLands
<1> QED BY <1>3, <1>4

\* The image: what is sent, and what is only looked at.
LEMMA EditSends ==
  ASSUME EditInv, NEW op, NEW on, NEW to, NEW saw, EditFits(op, "metadata", on, to, "asked", saw),
         Editing!AskSeeing(op, "metadata", on, to, saw), UNCHANGED <<server, shown, dialog>>,
         NEW v \in EditViews, view' = v, v.name = view.name, v.path = view.path, v.card = view.card,
         v.uploading => view.uploading \/ (op = "metadata" /\ on = "image"),
         v.deleting => view.deleting \/ (op = "unimage" /\ on = "image")
  PROVE  EditInv'
<1> DEFINE list == "metadata"
<1>1. EditFits(op, list, on, to, "asked", saw) /\ Editing!AskSeeing(op, list, on, to, saw)
  OBVIOUS
<1> HIDE DEF list
<1>2. /\ \A r \in asked' : EditAsks(r)
      /\ \A q \in asked : \E p \in asked' : p.op = q.op /\ p.on = q.on /\ p.heard = q.heard /\ p.to = q.to
      /\ \E p \in asked' : p.op = op /\ p.on = on /\ p.to = to /\ p.heard
      /\ apart' \subseteq {"task", "metadata"} /\ sent' \in 0..Sends.editing
  BY <1>1, EditJoins
<1>3. EditWaits(view, asked')
  <2>1. EditWaits(view, asked) /\ WaitsAlike(view, view)
    BY DEF EditInv, WaitsAlike
  <2>2. \A q \in asked : q.op # "categories" =>
          \E p \in asked' : p.op = q.op /\ p.on = q.on /\ p.heard = q.heard /\ p.to = q.to
    BY <1>2
  <2> QED BY <2>1, <2>2, EditCarries
<1>4. HeardOf(op, on, asked')
  BY <1>2 DEF HeardOf
<1>5. EditWaits(v, asked')
  BY <1>3, <1>4 DEF EditWaits
<1> QED BY <1>2, <1>5 DEF EditInv

LEMMA EditImage ==
  ASSUME EditInv, \/ Editing!HandleFileSelect \/ Editing!HandleDeleteImage \/ Editing!ClearSelected
                  \/ Editing!MouseDown \/ Editing!MouseMove \/ Editing!MouseLeave
                  \/ Editing!MouseUp \/ Editing!HandleBrightnessChange
  PROVE  EditInv'
<1>1. view \in EditViews /\ shown.metadata \in EditMetadata
  BY EditPlain
<1>2. ASSUME NEW v \in EditViews, WaitsAlike(v, view), NEW op, NEW to, op \in {"position", "brightness"},
             to \in Editing!Shades, Editing!Send(op, to, v)
      PROVE  EditInv'
  <2>1. view' = v /\ UNCHANGED <<server, shown, dialog>>
    BY <1>2 DEF Editing!Send
  <2>2. CASE shown.metadata.image = Gone
    <3>1. Editing!Look(v)
      BY <1>2, <2>1, <2>2 DEF Editing!Send, Editing!Look
    <3> QED BY <1>2, <3>1, EditLook
  <2>3. CASE shown.metadata.image # Gone
    <3> DEFINE what == "metadata"
               list == "metadata"
               none == Gone
    <3>1. Editing!AskSeeing(what, list, op, to, none)
      BY <1>2, <2>3 DEF Editing!Send, Editing!Ask
    <3>2. EditFits(what, list, op, to, "asked", none)
      BY <1>2 DEF EditFits, EditOps
    <3> HIDE DEF what, list, none
    <3>3. /\ \A r \in asked' : EditAsks(r)
          /\ \A q \in asked : \E p \in asked' : p.op = q.op /\ p.on = q.on /\ p.heard = q.heard /\ p.to = q.to
          /\ apart' \subseteq {"task", "metadata"} /\ sent' \in 0..Sends.editing
      BY <3>1, <3>2, EditJoins
    <3>4. EditWaits(v, asked')
      <4>1. EditWaits(view, asked)
        BY DEF EditInv
      <4>2. \A q \in asked : q.op # "categories" =>
              \E p \in asked' : p.op = q.op /\ p.on = q.on /\ p.heard = q.heard /\ p.to = q.to
        BY <3>3
      <4> QED BY <1>2, <4>1, <4>2, EditCarries
    <3> QED BY <2>1, <3>3, <3>4 DEF EditInv
  <2> QED BY <2>2, <2>3
<1>3. CASE Editing!HandleFileSelect
  <2> DEFINE v == [view EXCEPT !.preview = "image", !.selected = TRUE, !.uploading = TRUE]
  <2>1. /\ v \in EditViews /\ v.name = view.name /\ v.path = view.path /\ v.card = view.card
        /\ v.deleting = view.deleting
    BY <1>1 DEF EditViews
  <2>2. /\ view' = v /\ UNCHANGED <<server, shown, dialog>>
        /\ Editing!AskSeeing("metadata", "metadata", "image", "image", Gone)
    BY <1>3 DEF Editing!HandleFileSelect, Editing!Ask
  <2>3. EditFits("metadata", "metadata", "image", "image", "asked", Gone)
    BY DEF EditFits, EditOps
  <2> HIDE DEF v
  <2> DEFINE op == "metadata"
             on == "image"
             to == "image"
             none == Gone
  <2>4. /\ EditFits(op, "metadata", on, to, "asked", none) /\ Editing!AskSeeing(op, "metadata", on, to, none)
        /\ op = "metadata" /\ on = "image"
    BY <2>2, <2>3
  <2> HIDE DEF op, on, to, none
  <2> QED BY <2>1, <2>2, <2>4, EditSends
<1>4. CASE Editing!HandleDeleteImage
  <2> DEFINE v == [view EXCEPT !.deleting = TRUE]
             now == shown["metadata"]
  <2>1. /\ v \in EditViews /\ v.name = view.name /\ v.path = view.path /\ v.card = view.card
        /\ v.uploading = view.uploading
    BY <1>1 DEF EditViews
  <2>2. /\ view' = v /\ UNCHANGED <<server, shown, dialog>>
        /\ Editing!AskSeeing("unimage", "metadata", "image", Gone, now)
    BY <1>4 DEF Editing!HandleDeleteImage, Editing!AskPatching
  <2>3. now \in EditMetadata
    BY <1>1
  <2> HIDE DEF v, now
  <2>4. EditFits("unimage", "metadata", "image", Gone, "asked", now)
    BY <2>3 DEF EditFits, EditOps
  <2> DEFINE op == "unimage"
             on == "image"
             to == Gone
  <2>5. /\ EditFits(op, "metadata", on, to, "asked", now) /\ Editing!AskSeeing(op, "metadata", on, to, now)
        /\ op = "unimage" /\ on = "image"
    BY <2>2, <2>4
  <2> HIDE DEF op, on, to
  <2> QED BY <2>1, <2>2, <2>5, EditSends
<1>5. CASE Editing!ClearSelected
  <2> DEFINE v == [view EXCEPT !.selected = FALSE, !.preview = shown.metadata.image]
  <2>1. v \in EditViews /\ WaitsAlike(v, view)
    BY <1>1 DEF EditViews, EditMetadata, WaitsAlike
  <2>2. Editing!Look(v)
    BY <1>5 DEF Editing!ClearSelected
  <2> HIDE DEF v
  <2> QED BY <2>1, <2>2, EditLook
<1>6. CASE Editing!MouseDown \/ Editing!MouseLeave
  <2>1. PICK dragging \in BOOLEAN : Editing!Look([view EXCEPT !.dragging = dragging])
    BY <1>6 DEF Editing!MouseDown, Editing!MouseLeave
  <2> DEFINE v == [view EXCEPT !.dragging = dragging]
  <2>2. v \in EditViews /\ WaitsAlike(v, view)
    BY <1>1 DEF EditViews, WaitsAlike
  <2> HIDE DEF v
  <2> QED BY <2>1, <2>2, EditLook DEF v
<1>7. CASE Editing!MouseMove
  <2>1. PICK position \in Editing!Shades : Editing!Look([view EXCEPT !.position = position])
    BY <1>7 DEF Editing!MouseMove
  <2> DEFINE v == [view EXCEPT !.position = position]
  <2>2. v \in EditViews /\ WaitsAlike(v, view)
    BY <1>1 DEF EditViews, WaitsAlike
  <2>3. Editing!Look(v)
    BY <2>1
  <2> HIDE DEF v
  <2> QED BY <2>2, <2>3, EditLook
<1>8. CASE Editing!MouseUp
  <2> DEFINE v == [view EXCEPT !.dragging = FALSE]
             op == "position"
             to == view.position
  <2>1. v \in EditViews /\ WaitsAlike(v, view)
    BY <1>1 DEF EditViews, WaitsAlike
  <2>2. Editing!Send(op, to, v) /\ op \in {"position", "brightness"} /\ to \in Editing!Shades
    BY <1>1, <1>8 DEF Editing!MouseUp, EditViews
  <2> HIDE DEF v, op, to
  <2> QED BY <1>2, <2>1, <2>2
<1>9. CASE Editing!HandleBrightnessChange
  <2>1. PICK brightness \in Editing!Shades :
          Editing!Send("brightness", brightness, [view EXCEPT !.brightness = brightness])
    BY <1>9 DEF Editing!HandleBrightnessChange
  <2> DEFINE v == [view EXCEPT !.brightness = brightness]
             op == "brightness"
  <2>2. v \in EditViews /\ WaitsAlike(v, view)
    BY <1>1 DEF EditViews, WaitsAlike
  <2>3. Editing!Send(op, brightness, v) /\ op \in {"position", "brightness"}
    BY <2>1
  <2> HIDE DEF v, op
  <2> QED BY <1>2, <2>2, <2>3
<1> QED BY <1>3, <1>4, <1>5, <1>6, <1>7, <1>8, <1>9

\* The card asks: its choices before this one are older now.
LEMMA EditChooses ==
  ASSUME EditInv, NEW op \in {"category", "tags"}, NEW value, NEW previous,
         op = "category" => value \in Labels \cup {Gone} /\ previous \in Labels \cup {Gone},
         op = "tags" => value \in Editing!Shades /\ previous = Gone,
         Editing!ChangeCard(op, value, previous)
  PROVE  /\ \A r \in asked' : EditAsks(r)
         /\ \A what, on : HeardOf(what, on, asked) => HeardOf(what, on, asked')
         /\ Latest(asked')
         /\ apart' \subseteq {"task", "metadata"} /\ sent' \in 0..Sends.editing
         /\ UNCHANGED <<server, shown, dialog>>
<1> DEFINE to == <<"latest", value, previous>>
           list == "task"
           q == Request(op, list, op, to, Gone)
           older(r) == IF r.op = op /\ r.heard THEN [r EXCEPT !.to = <<"older", r.to[2], r.to[3]>>] ELSE r
           others == {older(r) : r \in asked}
<1>1. /\ asked' = Add(others, q) /\ sent' = sent + 1 /\ sent < Sends.editing
      /\ UNCHANGED <<server, shown, dialog, apart>>
  BY DEF Editing!ChangeCard, Editing!Older, Editing!Add, Editing!Request, Add, Request
<1>2. ASSUME NEW r \in asked
      PROVE  /\ EditAsks(older(r)) /\ older(r).op = r.op /\ older(r).on = r.on /\ older(r).heard = r.heard
  <2>1. Asks(r) /\ EditAsks(r)
    BY EditPlain
  <2>2. CASE r.op = op /\ r.heard
    <3> DEFINE aim == <<"older", r.to[2], r.to[3]>>
               s == [r EXCEPT !.to = aim]
    <3>1. /\ op = "category" => aim \in Ranks \X (Labels \cup {Gone}) \X (Labels \cup {Gone})
          /\ op = "tags" => aim \in Ranks \X Editing!Shades \X {Gone}
      BY <2>1, <2>2 DEF EditAsks, EditFits, Ranks
    <3>2. older(r) = s
      BY <2>2
    <3> HIDE DEF aim
    <3>3. /\ Asks(s) /\ s.op = r.op /\ s.list = r.list /\ s.on = r.on /\ s.to = aim
          /\ s.state = r.state /\ s.heard = r.heard /\ s.saw = r.saw
      BY <2>1, AimAsks
    <3> HIDE DEF s
    <3>4. EditAsks(s)
      BY <2>1, <2>2, <3>1, <3>3 DEF EditAsks, EditFits
    <3> HIDE DEF older
    <3> QED BY <3>2, <3>3, <3>4
  <2>3. CASE ~(r.op = op /\ r.heard)
    <3>1. older(r) = r
      BY <2>3
    <3> HIDE DEF older
    <3> QED BY <2>1, <3>1
  <2> QED BY <2>2, <2>3
<1>3. Asks(q) /\ q.op = op /\ q.list = list /\ q.on = op /\ q.to = to /\ q.state = "asked" /\ q.heard /\ q.saw = Gone
  BY RequestAsks DEF Request
<1>4. to[1] = "latest" /\ EditFits(op, list, op, to, "asked", Gone)
  <2>1. /\ op = "category" => to \in Ranks \X (Labels \cup {Gone}) \X (Labels \cup {Gone})
        /\ op = "tags" => to \in Ranks \X Editing!Shades \X {Gone}
    BY DEF Ranks
  <2>2. to[1] = "latest"
    OBVIOUS
  <2> HIDE DEF to
  <2> QED BY <2>1, <2>2 DEF EditFits, EditOps
<1> HIDE DEF q, to, list
<1>5. /\ \A s \in others : EditAsks(s) /\ Asks(s)
      /\ \A r \in asked : \E s \in others : s.op = r.op /\ s.on = r.on /\ s.heard = r.heard
  <2> HIDE DEF older
  <2> QED BY <1>2 DEF EditAsks
<1> HIDE DEF others, older
<1>6. EditAsks(q)
  BY <1>3, <1>4 DEF EditAsks
<1>7. /\ \A r \in asked' : Asks(r) /\ \E p \in others \cup {q} : Same(r, p)
      /\ \A p \in others \cup {q} : \E r \in asked' : Same(r, p)
  BY <1>1, <1>3, <1>5, JoinAsks
<1>8. ASSUME NEW r \in asked' PROVE EditAsks(r)
  <2>1. PICK p \in others \cup {q} : Same(r, p)
    BY <1>7
  <2>2. EditAsks(p) /\ Asks(r)
    BY <1>5, <1>6, <1>7
  <2> QED BY <2>1, <2>2 DEF EditAsks, Same
<1>9. ASSUME NEW what, NEW on, HeardOf(what, on, asked) PROVE HeardOf(what, on, asked')
  <2>1. PICK r \in asked : r.op = what /\ r.on = on /\ r.heard
    BY <1>9 DEF HeardOf
  <2>2. PICK s \in others : s.op = r.op /\ s.on = r.on /\ s.heard = r.heard
    BY <1>5
  <2>3. PICK p \in asked' : Same(p, s)
    BY <1>7
  <2> QED BY <2>1, <2>2, <2>3 DEF HeardOf, Same
<1>10. Latest(asked')
  <2>1. PICK p \in asked' : Same(p, q)
    BY <1>7
  <2> QED BY <1>3, <1>4, <2>1 DEF Latest, Same
<1>11. apart' \subseteq {"task", "metadata"} /\ sent' \in 0..Sends.editing
  <2>1. apart' \subseteq {"task", "metadata"}
    BY <1>1 DEF EditInv
  <2>2. sent' \in 0..Sends.editing
    BY <1>1, EditPlain
  <2> QED BY <2>1, <2>2
<1> QED BY <1>1, <1>8, <1>9, <1>10, <1>11

LEMMA EditCard ==
  ASSUME EditInv, \/ \E category \in Labels \cup {Gone} : Editing!HandleCategoryChange(category)
                  \/ \E tags \in Editing!Shades : Editing!HandleTagsChange(tags)
  PROVE  EditInv'
<1>1. view \in EditViews /\ view.category \in Labels \cup {Gone} /\ EditWaits(view, asked)
  BY EditPlain DEF EditViews, EditInv
<1>2. ASSUME NEW v \in EditViews, v.name = view.name, v.path = view.path, v.uploading = view.uploading,
             v.deleting = view.deleting, view' = v,
             \A r \in asked' : EditAsks(r),
             \A what, on : HeardOf(what, on, asked) => HeardOf(what, on, asked'), Latest(asked'),
             apart' \subseteq {"task", "metadata"}, sent' \in 0..Sends.editing, UNCHANGED <<server, shown, dialog>>
      PROVE  EditInv'
  <2>1. EditWaits(v, asked')
    BY <1>1, <1>2 DEF EditWaits
  <2> QED BY <1>2, <2>1 DEF EditInv
<1>3. ASSUME NEW category \in Labels \cup {Gone}, Editing!HandleCategoryChange(category) PROVE EditInv'
  <2> DEFINE v == [view EXCEPT !.category = category, !.card = "saving"]
             op == "category"
             previous == view.category
  <2>1. /\ v \in EditViews /\ v.name = view.name /\ v.path = view.path /\ v.uploading = view.uploading
        /\ v.deleting = view.deleting
    BY <1>1 DEF EditViews
  <2>2. view' = v /\ op \in {"category", "tags"} /\ op # "tags" /\ Editing!ChangeCard(op, category, previous)
    BY <1>3 DEF Editing!HandleCategoryChange
  <2>3. previous \in Labels \cup {Gone}
    BY <1>1
  <2> HIDE DEF v, op, previous
  <2>4. /\ \A r \in asked' : EditAsks(r)
        /\ \A what, on : HeardOf(what, on, asked) => HeardOf(what, on, asked')
        /\ Latest(asked')
        /\ apart' \subseteq {"task", "metadata"} /\ sent' \in 0..Sends.editing
        /\ UNCHANGED <<server, shown, dialog>>
    BY <2>2, <2>3, EditChooses
  <2> QED BY <1>2, <2>1, <2>2, <2>4
<1>4. ASSUME NEW tags \in Editing!Shades, Editing!HandleTagsChange(tags) PROVE EditInv'
  <2> DEFINE v == [view EXCEPT !.tags = tags, !.card = "saving"]
             op == "tags"
             none == Gone
  <2>1. /\ v \in EditViews /\ v.name = view.name /\ v.path = view.path /\ v.uploading = view.uploading
        /\ v.deleting = view.deleting
    BY <1>1 DEF EditViews
  <2>2. /\ view' = v /\ op \in {"category", "tags"} /\ op # "category" /\ none = Gone
        /\ Editing!ChangeCard(op, tags, none)
    BY <1>4 DEF Editing!HandleTagsChange
  <2> HIDE DEF v, op, none
  <2>4. /\ \A r \in asked' : EditAsks(r)
        /\ \A what, on : HeardOf(what, on, asked) => HeardOf(what, on, asked')
        /\ Latest(asked')
        /\ apart' \subseteq {"task", "metadata"} /\ sent' \in 0..Sends.editing
        /\ UNCHANGED <<server, shown, dialog>>
    BY <2>2, EditChooses
  <2> QED BY <1>2, <2>1, <2>2, <2>4
<1> QED BY <1>3, <1>4

\* The backend does what is asked for.
LEMMA EditEffect == ASSUME EditInv, NEW r \in asked PROVE Editing!Effect(r) \in EditLists
<1>1. EditAsks(r) /\ server \in EditLists /\ server.task \in EditTasks /\ server.metadata \in EditMetadata
  BY EditPlain DEF EditLists
<1>2. CASE r.op = "categories"
  BY <1>1, <1>2 DEF Editing!Effect
<1>3. CASE r.op = "unimage"
  <2>1. Editing!NoImage(server.metadata) \in EditMetadata
    BY <1>1 DEF EditMetadata, Editing!NoImage, Editing!Shades
  <2>2. Editing!Effect(r) = [server EXCEPT !.metadata = Editing!NoImage(server.metadata)]
    BY <1>3 DEF Editing!Effect
  <2> QED BY <1>1, <2>1, <2>2 DEF EditLists
<1>4. CASE r.op = "category"
  <2> DEFINE task == [server.task EXCEPT !.category = r.to[2]]
  <2>1. r.to[2] \in Labels \cup {Gone}
    BY <1>1, <1>4 DEF EditAsks, EditFits
  <2>2. task \in EditTasks
    BY <1>1, <2>1 DEF EditTasks
  <2>3. Editing!Effect(r) = [server EXCEPT !.task = task]
    BY <1>1, <1>4 DEF Editing!Effect
  <2> HIDE DEF task
  <2> QED BY <1>1, <2>2, <2>3 DEF EditLists
<1>5. CASE r.op = "tags"
  <2> DEFINE task == [server.task EXCEPT !.tags = r.to[2]]
  <2>1. r.to[2] \in Editing!Shades
    BY <1>1, <1>5 DEF EditAsks, EditFits
  <2>2. task \in EditTasks
    BY <1>1, <2>1 DEF EditTasks
  <2>3. Editing!Effect(r) = [server EXCEPT !.task = task]
    BY <1>1, <1>5 DEF Editing!Effect
  <2> HIDE DEF task
  <2> QED BY <1>1, <2>2, <2>3 DEF EditLists
<1>6. CASE r.op = "path"
  <2> DEFINE task == [server.task EXCEPT !.path = r.to]
  <2>1. r.list = "task" /\ r.on = "path" /\ r.to \in Editing!Shades
    BY <1>1, <1>6 DEF EditAsks, EditFits
  <2>2. task \in EditTasks
    BY <1>1, <2>1 DEF EditTasks
  <2>3. Editing!Effect(r) = [server EXCEPT !.task = task]
    BY <1>1, <1>6, <2>1 DEF Editing!Effect, EditLists
  <2> HIDE DEF task
  <2> QED BY <1>1, <2>2, <2>3 DEF EditLists
<1>7. CASE r.op = "metadata"
  <2> DEFINE metadata == [server.metadata EXCEPT ![r.on] = r.to]
  <2>1. /\ r.list = "metadata" /\ r.on \in {"name", "image", "position", "brightness"}
        /\ r.to \in IF r.on = "image" THEN {"image"} ELSE Editing!Shades
    BY <1>1, <1>7 DEF EditAsks, EditFits
  <2>2. metadata \in EditMetadata
    BY <1>1, <2>1 DEF EditMetadata
  <2>3. Editing!Effect(r) = [server EXCEPT !.metadata = metadata]
    BY <1>1, <1>7, <2>1 DEF Editing!Effect, EditLists
  <2> HIDE DEF metadata
  <2> QED BY <1>1, <2>2, <2>3 DEF EditLists
<1> QED BY <1>1, <1>2, <1>3, <1>4, <1>5, <1>6, <1>7 DEF EditAsks, EditFits, EditOps

LEMMA EditServed == ASSUME EditInv, Editing!Serve(Editing!Effect, Editing!Accepts) PROVE EditInv'
<1>1. PICK r \in asked :
        /\ r.state = "asked"
        /\ \/ asked' = (asked \ {r}) \cup {Answer(r)} /\ server' = Editing!Effect(r) /\ apart' = apart
           \/ asked' = (asked \ {r}) \cup {Refusal(r)} /\ server' = server /\ apart' = apart
           \/ /\ asked' = (asked \ {r}) \cup {Refusal(r)} /\ server' = Editing!Effect(r)
              /\ apart' = DOMAIN shown
        /\ UNCHANGED <<shown, dialog, view, sent>>
  BY DEF Editing!Serve, Editing!Accepts, Editing!Answer, Editing!Refusal, Editing!Brings, Answer, Refusal, Brings
<1>2. EditAsks(r) /\ Asks(r)
  BY EditPlain
<1>3. server' \in EditLists
  BY <1>1, EditEffect, EditPlain
<1>4. PICK s : /\ asked' = (asked \ {r}) \cup {s} /\ Asks(s) /\ Twin(s, r)
               /\ \/ s.state = "done" /\ s.saw = IF r.op \in Brings THEN server'[r.list] ELSE r.saw
                  \/ s.state = "refused"
  <2>1. /\ Asks(Answer(r)) /\ Twin(Answer(r), r) /\ Asks(Refusal(r)) /\ Twin(Refusal(r), r)
        /\ Answer(r).saw = IF r.op \in Brings THEN server'[r.list] ELSE r.saw
        /\ Answer(r).state = "done" /\ Refusal(r).state = "refused"
    BY <1>2, AnswerAsks
  <2> QED BY <1>1, <2>1
<1>5. EditAsks(s)
  <2>1. server'["metadata"] \in EditMetadata
    BY <1>3 DEF EditLists
  <2>2. /\ s.op = r.op /\ s.list = r.list /\ s.on = r.on /\ s.to = r.to
        /\ EditFits(r.op, r.list, r.on, r.to, r.state, r.saw)
    BY <1>2, <1>4 DEF Twin, EditAsks
  <2>3. s.op = "metadata" /\ s.state = "done" => s.saw \in EditMetadata
    BY <1>4, <2>1, <2>2 DEF EditFits, Brings
  <2>4. s.op = "unimage" /\ s.state # "refused" => s.saw \in EditMetadata
    BY <1>1, <1>4, <2>2 DEF EditFits, Brings
  <2>5. EditFits(s.op, s.list, s.on, s.to, s.state, s.saw)
    BY <2>2, <2>3, <2>4 DEF EditFits
  <2> QED BY <1>4, <2>5 DEF EditAsks
<1>6. \A q \in asked' : EditAsks(q)
  BY <1>4, <1>5 DEF EditInv
<1>7. EditWaits(view', asked')
  <2>1. EditWaits(view, asked) /\ WaitsAlike(view, view)
    BY DEF EditInv, WaitsAlike
  <2>2. \A q \in asked : q.op # "categories" =>
          \E p \in asked' : p.op = q.op /\ p.on = q.on /\ p.heard = q.heard /\ p.to = q.to
    BY <1>4 DEF Twin
  <2>3. EditWaits(view, asked')
    BY <2>1, <2>2, EditCarries
  <2> QED BY <1>1, <2>3
<1>8. apart' \subseteq {"task", "metadata"}
  BY <1>1, EditPlain DEF EditInv
<1> QED BY <1>1, <1>3, <1>6, <1>7, <1>8 DEF EditInv

LEMMA EditStep == ASSUME EditInv, [Editing!Next]_pageVars PROVE EditInv'
<1>1. CASE UNCHANGED pageVars
  <2>1. UNCHANGED <<server, shown, asked, dialog, view, apart, sent>>
    BY <1>1 DEF pageVars
  <2> QED BY <2>1 DEF EditInv
<1>2. ASSUME NEW field \in Editing!Fields,
             Editing!Focus(field) \/ Editing!Type(field) \/ Editing!Escape(field) \/ Editing!Commit(field)
      PROVE  EditInv'
  <2>1. field \in {"name", "path"} /\ view[field].draft \in Editing!Shades
    BY EditPlain DEF Editing!Fields, EditViews, EditFields
  <2>2. Editing!Value(field) \in Editing!Shades
    BY <2>1, EditPlain DEF Editing!Value, EditTasks, EditMetadata
  <2> QED BY <1>2, <2>1, <2>2, EditTypes, EditLeavesField DEF Editing!Escape, Editing!Commit
<1>3. CASE \/ Editing!HandleFileSelect \/ Editing!HandleDeleteImage \/ Editing!ClearSelected
           \/ Editing!MouseDown \/ Editing!MouseMove \/ Editing!MouseLeave
           \/ Editing!MouseUp \/ Editing!HandleBrightnessChange
  BY <1>3, EditImage
<1>4. CASE \/ Editing!CategoriesAnswered \/ Editing!FlashOver \/ Editing!NameSaved \/ Editing!PathSaved
           \/ Editing!Stale \/ Editing!CategoryChanged \/ Editing!CategoryRefused \/ Editing!TagsChanged
           \/ Editing!Uploaded \/ Editing!UploadRefused \/ Editing!ImageDeleted \/ Editing!DeleteRefused
           \/ Editing!ShadeSaved \/ Editing!ShadeRefused
  BY <1>4, EditLookedUp, EditFades, EditNamed, EditPathed, EditStale, EditChanged, EditRefused,
     EditUploaded, EditNotUploaded, EditDeleted, EditShaded
<1> QED BY <1>1, <1>2, <1>3, <1>4, EditTab, EditCard, EditServed DEF Editing!Next

EditHolds == page = "editing" => EditInv

LEMMA EditAlways == Spec => []EditHolds
<1>1. ASSUME Init, page = "editing" PROVE EditInv
  <2>1. Editing!Init
    BY <1>1 DEF Init
  <2>2. server \in EditLists /\ shown \in EditLists /\ shown = server
    BY <2>1 DEF Editing!Init, EditLists, EditTasks, EditMetadata, Editing!Shades
  <2>3. shown.task \in EditTasks /\ shown.metadata \in EditMetadata /\ DOMAIN shown = {"task", "metadata"}
    BY <2>2 DEF EditLists
  <2>4. Editing!Field("plain") \in EditFields /\ Editing!Field(shown.task.path) \in EditFields
        /\ Editing!Field("plain").state = "idle" /\ Editing!Field(shown.task.path).state = "idle"
    BY <2>3 DEF EditTasks, EditFields, Editing!Field, Editing!Shades
  <2>5. /\ view \in EditViews /\ view.name.state = "idle" /\ view.path.state = "idle" /\ view.card = "idle"
        /\ view.uploading = FALSE /\ view.deleting = FALSE
    BY <2>1, <2>3, <2>4 DEF Editing!Init, Editing!Fresh, EditViews, EditTasks, EditMetadata
  <2>6. \A r \in asked : EditAsks(r)
    BY <2>1, <2>3, LookUpAsks DEF Editing!Init, EditTasks
  <2>7. Sends.editing \in Nat
    BY ClientAssumption DEF ClientAssumption
  <2>8. EditWaits(view, asked)
    BY <2>5 DEF EditWaits
  <2> QED BY <2>1, <2>2, <2>3, <2>5, <2>6, <2>7, <2>8 DEF Editing!Init, Editing!Closed, EditInv
<1>2. ASSUME EditHolds, [Next]_vars PROVE EditHolds'
  <2>1. page' = page /\ (page = "editing" => [Editing!Next]_pageVars)
    BY <1>2 DEF Next, vars
  <2> QED BY <1>2, <2>1, EditStep DEF EditHolds
<1>3. Init => EditHolds
  BY <1>1 DEF EditHolds
<1> QED BY <1>2, <1>3, PTL DEF Spec

LEMMA EditPromises ==
  ASSUME EditInv
  PROVE  Editing!PageOK /\ Editing!TypeOK /\ Editing!SpinnersHaveRequests
<1>1. Editing!RequestsOK
  BY EditPlain, AsksOK DEF Editing!RequestsOK
<1>2. Editing!PageOK
  BY <1>1, EditPlain DEF Editing!PageOK, EditInv
<1>3. Editing!TypeOK
  BY DEF Editing!TypeOK, EditInv, EditLists, EditTasks, EditMetadata, EditViews, EditFields, Editing!Fields
<1>4. Editing!SpinnersHaveRequests
  <2>1. Latest(asked) => Editing!Heard("category", "category") \/ Editing!Heard("tags", "tags")
    <3> SUFFICES ASSUME NEW r \in asked, r.op \in {"category", "tags"}, r.heard
                 PROVE  Editing!Heard("category", "category") \/ Editing!Heard("tags", "tags")
      BY DEF Latest
    <3>1. r.op = r.on
      BY EditPlain DEF EditAsks, EditFits
    <3> QED BY <3>1 DEF Editing!Heard
  <2>2. \A op, on : HeardOf(op, on, asked) => Editing!Heard(op, on)
    BY DEF HeardOf, Editing!Heard
  <2>3. EditWaits(view, asked)
    BY DEF EditInv
  <2> QED BY <2>1, <2>2, <2>3 DEF Editing!SpinnersHaveRequests, EditWaits
<1> QED BY <1>2, <1>3, <1>4

-----------------------------------------------------------------------------
(* The client: whatever page is on screen, its invariant holds. *)

ClientPages == {"users", "tags", "categories", "workers", "torrents", "view", "session", "form",
    "tabs", "editing", "limits", "worker", "overviews", "settings", "profile"}

ClientInv ==
  /\ page \in ClientPages
  /\ UsersHold /\ TagsHold /\ CategoriesHold /\ WorkersHold
  /\ ListHolds /\ ViewHolds /\ SessionHolds /\ FormsHold
  /\ TabListsHold /\ EditHolds /\ LimitsHold /\ ModalHolds
  /\ OverviewsHold /\ SettingsHold /\ ProfileHolds /\ SessionRests

LEMMA ClientAlways == Spec => []ClientInv
<1> DEFINE OnPage == page \in ClientPages
<1>1. Init => OnPage
  BY DEF Init, ClientPages
<1>2. OnPage /\ [Next]_vars => OnPage'
  BY DEF Next, vars
<1>3. Spec => []OnPage
  <2> HIDE DEF OnPage
  <2> QED BY <1>1, <1>2, PTL DEF Spec
<1>4. OnPage <=> page \in ClientPages
  OBVIOUS
<1> HIDE DEF OnPage
<1> QED BY <1>3, <1>4, UsersAlways, TagsAlways, CategoriesAlways, WorkersAlways, ListAlways,
           ViewAlways, SessionAlways, FormsAlways, TabListsAlways, EditAlways, LimitsAlways,
           ModalAlways, OverviewsAlways, SettingsAlways, ProfileAlways, SessionRestAlways, PTL
        DEF ClientInv

\* On every page of the web client (lib/api.ts, whose request() never throws)
\* what a handler takes from an answer, leaves in its lists, its form and its
\* dialogs and closes over in a request stays what it can hold, whatever order
\* the answers come in and whichever are refused, given up or unheard.
THEOREM TypeCorrect == Spec => []TypeOK
<1>1. ASSUME ClientInv PROVE TypeOK
  <2>1. page \in ClientPages
    BY <1>1 DEF ClientInv
  <2>2. CASE page = "users"
    BY <1>1, <2>2, UsersPromises DEF TypeOK, ClientInv, UsersHold
  <2>3. CASE page = "tags"
    BY <1>1, <2>3, TagsPromises DEF TypeOK, ClientInv, TagsHold
  <2>4. CASE page = "categories"
    BY <1>1, <2>4, CategoriesPromises DEF TypeOK, ClientInv, CategoriesHold
  <2>5. CASE page = "workers"
    BY <1>1, <2>5, WorkersPromises DEF TypeOK, ClientInv, WorkersHold
  <2>6. CASE page = "torrents"
    BY <1>1, <2>6, ListPromises DEF TypeOK, ClientInv, ListHolds
  <2>7. CASE page = "view"
    BY <1>1, <2>7 DEF TypeOK, ClientInv, ViewHolds, ViewInv
  <2>8. CASE page = "session"
    BY <1>1, <2>8, SessionPromises DEF TypeOK, ClientInv, SessionHolds, SessionRests
  <2>9. CASE page = "form"
    BY <1>1, <2>9, FormPromises DEF TypeOK, ClientInv, FormsHold
  <2>10. CASE page = "tabs"
    BY <1>1, <2>10, TabsPromises DEF TypeOK, ClientInv, TabListsHold
  <2>11. CASE page = "editing"
    BY <1>1, <2>11, EditPromises DEF TypeOK, ClientInv, EditHolds
  <2>12. CASE page = "limits"
    BY <1>1, <2>12, LimitsPromises DEF TypeOK, ClientInv, LimitsHold
  <2>13. CASE page = "worker"
    BY <1>1, <2>13, ModalPromises DEF TypeOK, ClientInv, ModalHolds
  <2>14. CASE page = "overviews"
    BY <1>1, <2>14, OverviewsPromises DEF TypeOK, ClientInv, OverviewsHold
  <2>15. CASE page = "settings"
    BY <1>1, <2>15, SettingsPromises DEF TypeOK, ClientInv, SettingsHold
  <2>16. CASE page = "profile"
    BY <1>1, <2>16, ProfilePromises DEF TypeOK, ClientInv, ProfileHolds
  <2> QED BY <2>1, <2>2, <2>3, <2>4, <2>5, <2>6, <2>7, <2>8, <2>9, <2>10, <2>11, <2>12, <2>13,
             <2>14, <2>15, <2>16
          DEF ClientPages
<1> QED BY <1>1, ClientAlways, PTL

\* With nothing under way a list shows what the backend holds, unless requests
\* overlapped or an answer was given up: what the handlers of the pages patch into
\* the list they closed over (useTags, useCategories, Users.tsx, Workers.tsx, the
\* tabs of TorrentDetailsModal.tsx and WorkerDetailsModal.tsx, Settings.tsx,
\* Profile.tsx) is what the backend did.
THEOREM ListsShowServerCorrect == Spec => []ListsShowServer
<1>1. ASSUME ClientInv PROVE ListsShowServer
  <2>1. page \in ClientPages
    BY <1>1 DEF ClientInv
  <2>2. CASE page = "users"
    BY <1>1, <2>2, UsersPromises DEF ListsShowServer, ClientInv, UsersHold
  <2>3. CASE page = "tags"
    BY <1>1, <2>3, TagsPromises DEF ListsShowServer, ClientInv, TagsHold
  <2>4. CASE page = "categories"
    BY <1>1, <2>4, CategoriesPromises DEF ListsShowServer, ClientInv, CategoriesHold
  <2>5. CASE page = "workers"
    BY <1>1, <2>5, WorkersPromises DEF ListsShowServer, ClientInv, WorkersHold
  <2>6. CASE page = "tabs"
    BY <1>1, <2>6, TabsPromises DEF ListsShowServer, ClientInv, TabListsHold
  <2>7. CASE page = "worker"
    BY <1>1, <2>7, ModalPromises DEF ListsShowServer, ClientInv, ModalHolds
  <2>8. CASE page = "settings"
    BY <1>1, <2>8, SettingsPromises DEF ListsShowServer, ClientInv, SettingsHold
  <2>9. CASE page = "profile"
    BY <1>1, <2>9, ProfilePromises DEF ListsShowServer, ClientInv, ProfileHolds
  <2>10. CASE page \in {"torrents", "view", "session", "form", "editing", "limits", "overviews"}
    BY <2>10 DEF ListsShowServer
  <2> QED BY <2>1, <2>2, <2>3, <2>4, <2>5, <2>6, <2>7, <2>8, <2>9, <2>10
          DEF ClientPages
<1> QED BY <1>1, ClientAlways, PTL

\* No spinner turns and no button stays disabled without the request that ends
\* it: setLoading and setSaving are undone on every way a handler is left, whether
\* its request is answered, refused, replaced by a newer one or left behind by a
\* tab or a dialog that is gone.
THEOREM SpinnersHaveRequestsCorrect == Spec => []SpinnersHaveRequests
<1>1. ASSUME ClientInv PROVE SpinnersHaveRequests
  <2>1. page \in ClientPages
    BY <1>1 DEF ClientInv
  <2>2. CASE page = "users"
    BY <1>1, <2>2, UsersPromises DEF SpinnersHaveRequests, ClientInv, UsersHold
  <2>3. CASE page = "tags"
    BY <1>1, <2>3, TagsPromises DEF SpinnersHaveRequests, ClientInv, TagsHold
  <2>4. CASE page = "categories"
    BY <1>1, <2>4, CategoriesPromises DEF SpinnersHaveRequests, ClientInv, CategoriesHold
  <2>5. CASE page = "workers"
    BY <1>1, <2>5, WorkersPromises DEF SpinnersHaveRequests, ClientInv, WorkersHold
  <2>6. CASE page = "torrents"
    BY <1>1, <2>6, ListPromises DEF SpinnersHaveRequests, ClientInv, ListHolds
  <2>7. CASE page = "session"
    BY <1>1, <2>7, SessionPromises DEF SpinnersHaveRequests, ClientInv, SessionHolds, SessionRests
  <2>8. CASE page = "tabs"
    BY <1>1, <2>8, TabsPromises DEF SpinnersHaveRequests, ClientInv, TabListsHold
  <2>9. CASE page = "editing"
    BY <1>1, <2>9, EditPromises DEF SpinnersHaveRequests, ClientInv, EditHolds
  <2>10. CASE page = "limits"
    BY <1>1, <2>10, LimitsPromises DEF SpinnersHaveRequests, ClientInv, LimitsHold
  <2>11. CASE page = "worker"
    BY <1>1, <2>11, ModalPromises DEF SpinnersHaveRequests, ClientInv, ModalHolds
  <2>12. CASE page = "overviews"
    BY <1>1, <2>12, OverviewsPromises DEF SpinnersHaveRequests, ClientInv, OverviewsHold
  <2>13. CASE page = "settings"
    BY <1>1, <2>13, SettingsPromises DEF SpinnersHaveRequests, ClientInv, SettingsHold
  <2>14. CASE page = "profile"
    BY <1>1, <2>14, ProfilePromises DEF SpinnersHaveRequests, ClientInv, ProfileHolds
  <2>15. CASE page \in {"view", "form"}
    BY <2>15 DEF SpinnersHaveRequests
  <2> QED BY <2>1, <2>2, <2>3, <2>4, <2>5, <2>6, <2>7, <2>8, <2>9, <2>10, <2>11, <2>12, <2>13,
             <2>14, <2>15
          DEF ClientPages
<1> QED BY <1>1, ClientAlways, PTL

-----------------------------------------------------------------------------
(* Failures keep the user's work, on every page. *)

\* What is no failure: nothing happens to the requests; the work is as it was; a
\* request is taken that was done, or was a load; and a request is sent, where what
\* is not a load is either alone or marked already as having company.
LEMMA KeepsStill ==
  ASSUME NEW w, NEW v, asked' = asked
  PROVE  Keeps(w, v)
  BY DEF Keeps

LEMMA KeepsSame ==
  ASSUME NEW w, NEW v, v = w
  PROVE  Keeps(w, v)
  BY DEF Keeps

LEMMA KeepsLanded ==
  ASSUME NEW w, NEW v, NEW r, asked' = asked \ {r}, r.state = "done" \/ r.op \in LoadOps
  PROVE  Keeps(w, v)
  BY DEF Keeps

LEMMA KeepsTaken ==
  ASSUME NEW w, NEW v, \A p \in asked : p \in asked' \/ p.state = "done" \/ p.op \in LoadOps
  PROVE  Keeps(w, v)
  BY DEF Keeps

\* What is at work alone, and no load, has loads beside it at most.
SoleWork == \A p \in asked : p.alone /\ p.op \notin LoadOps => \A q \in asked : q = p \/ q.op \in LoadOps

LEMMA KeepsAsked ==
  ASSUME NEW w, NEW v, NEW others \in SUBSET asked,
         \A p \in others : [p EXCEPT !.alone = FALSE] \in asked',
         SoleWork, \A p \in asked : Asks(p),
         \A p \in asked \ others : p.state = "done" \/ p.op \in LoadOps
  PROVE  Keeps(w, v)
<1> SUFFICES ASSUME asked' \subseteq asked,
                    NEW p \in asked \ asked', p.state = "refused", p.op \notin LoadOps
             PROVE  FALSE
  BY DEF Keeps
<1>1. p \in others
  OBVIOUS
<1> DEFINE q == [p EXCEPT !.alone = FALSE]
<1>2. q \in asked' /\ q \in asked
  BY <1>1
<1>3. Asks(p) /\ p.alone \in BOOLEAN
  BY DEF Asks
<1>4. q.op = p.op /\ (p.alone => q.alone = FALSE)
  BY <1>3 DEF Asks, Sent
<1>5. ~p.alone => q = p
  BY <1>3 DEF Asks, Sent
<1> HIDE DEF q
<1> QED BY <1>2, <1>3, <1>4, <1>5 DEF SoleWork

\* Users.tsx: the dialog of the links opens whatever else is under way.
LEMMA UsersKeep ==
  ASSUME UsersInv, UsersPage!Next
  PROVE  Keeps(UsersPage!Work, UsersPage!Work')
<1>1. view \in UserViews
  BY DEF UsersInv
<1>2. CASE \/ UsersPage!Search \/ UsersPage!CloseDialog \/ UsersPage!ConfirmDelete
           \/ UsersPage!ShowEdit \/ UsersPage!ChooseRole \/ UsersPage!LinkForm
           \/ \E u \in Accounts : UsersPage!OpenDetails(u)
  BY <1>2, KeepsStill
     DEF UsersPage!Search, UsersPage!CloseDialog, UsersPage!ConfirmDelete, UsersPage!ShowEdit,
         UsersPage!ChooseRole, UsersPage!LinkForm, UsersPage!OpenDetails
<1>3. CASE \/ UsersPage!DeleteUser \/ UsersPage!UpdateUser \/ UsersPage!RequestPasswordReset
           \/ UsersPage!CreateLink \/ UsersPage!LinkRevoked
           \/ \E l \in Links : UsersPage!RevokeLink(l)
           \/ UsersPage!Refused({"delete", "update", "reset", "create", "revoke"})
           \/ UsersPage!Serve(UsersPage!Effect, UsersPage!Accepts)
  <2>1. UNCHANGED <<dialog, view>>
    BY <1>3 DEF UsersPage!DeleteUser, UsersPage!UpdateUser, UsersPage!RequestPasswordReset,
                UsersPage!CreateLink, UsersPage!LinkRevoked, UsersPage!RevokeLink,
                UsersPage!Refused, UsersPage!Serve
  <2> QED BY <2>1, KeepsSame DEF UsersPage!Work
<1>4. CASE \/ UsersPage!LoadUsers \/ UsersPage!UsersLoaded
           \/ UsersPage!LinksLoaded \/ UsersPage!ResetLinkShown
  <2>1. dialog' = dialog /\ view'.role = view.role /\ view'.linkForm = view.linkForm
    BY <1>1, <1>4 DEF UsersPage!LoadUsers, UsersPage!UsersLoaded, UsersPage!LinksLoaded,
       UsersPage!ResetLinkShown, UsersPage!Load, UsersPage!Loaded, UserViews
  <2> QED BY <2>1, KeepsSame DEF UsersPage!Work
<1>5. CASE UsersPage!UserDeleted \/ UsersPage!UserUpdated \/ UsersPage!LinkCreated
  BY <1>5, KeepsLanded DEF UsersPage!UserDeleted, UsersPage!UserUpdated, UsersPage!LinkCreated,
     UsersPage!Answers, UsersPage!Land
<1>6. CASE UsersPage!OpenMagicLinks
  <2>1. \A p \in asked : [p EXCEPT !.alone = FALSE] \in asked'
    BY <1>6 DEF UsersPage!OpenMagicLinks, UsersPage!Ask, UsersPage!AskSeeing, UsersPage!Add
  <2>2. SoleWork /\ \A p \in asked : Asks(p)
    BY DEF UsersInv, UsersAgree, UserAsks, Solo, SoleWork
  <2> QED BY <2>1, <2>2, KeepsAsked
<1> QED BY <1>2, <1>3, <1>4, <1>5, <1>6 DEF UsersPage!Next

\* Tags.tsx: a dialog closes when its operation, or the load behind it, is over.
LEMMA TagsKeep ==
  ASSUME TagsInv, TagsPage!Next
  PROVE  Keeps(TagsPage!Work, TagsPage!Work')
<1>1. view \in TagViews /\ SoleWork /\ \A p \in asked : Asks(p)
  BY DEF TagsInv, TagsAgree, TagAsks, Solo, SoleWork
<1>2. CASE \/ TagsPage!NewTag \/ TagsPage!OpenMergeForCluster \/ TagsPage!CloseDialog
           \/ \E g \in Tags : \/ TagsPage!StartEditTag(g) \/ TagsPage!OpenRename(g)
                              \/ TagsPage!OpenDerive(g) \/ TagsPage!OpenDelete(g)
           \/ TagsPage!ChooseColor \/ TagsPage!EditSources \/ TagsPage!TypeTarget
  <2>1. asked' = asked
    BY <1>2 DEF TagsPage!NewTag, TagsPage!OpenMergeForCluster, TagsPage!CloseDialog,
       TagsPage!StartEditTag, TagsPage!OpenRename, TagsPage!OpenDerive, TagsPage!OpenDelete,
       TagsPage!ChooseColor, TagsPage!EditSources, TagsPage!TypeTarget, TagsPage!Open, TagsPage!Type
  <2> QED BY <2>1, KeepsStill
<1>3. CASE \/ TagsPage!DeleteTag \/ TagsPage!Refused({"delete"})
           \/ TagsPage!Serve(TagsPage!Effect, TagsPage!Accepts)
  <2>1. UNCHANGED <<dialog, view>>
    BY <1>3 DEF TagsPage!DeleteTag, TagsPage!Refused, TagsPage!Serve
  <2> QED BY <2>1, KeepsSame DEF TagsPage!Work
<1>4. CASE \/ TagsPage!SubmitTag \/ TagsPage!SubmitMerge \/ TagsPage!SubmitDerive
           \/ TagsPage!QuickAdd \/ TagsPage!SubmitRefused \/ TagsPage!HandleRefresh
           \/ TagsPage!TagsChanged
  <2>1. dialog' = dialog
    BY <1>4 DEF TagsPage!SubmitTag, TagsPage!SubmitMerge, TagsPage!SubmitDerive,
       TagsPage!QuickAdd, TagsPage!SubmitRefused, TagsPage!HandleRefresh, TagsPage!Submit,
       TagsPage!Load, TagsPage!TagsChanged
  <2>2. \/ \E x : view' = [view EXCEPT !.busy = x]
        \/ view' = [view EXCEPT !.loading = TRUE]
    BY <1>4 DEF TagsPage!SubmitTag, TagsPage!SubmitMerge, TagsPage!SubmitDerive,
       TagsPage!QuickAdd, TagsPage!SubmitRefused, TagsPage!HandleRefresh, TagsPage!Submit,
       TagsPage!Load, TagsPage!TagsChanged, TagsPage!Follow
  <2>3. view'.color = view.color /\ view'.sources = view.sources /\ view'.target = view.target
    BY <1>1, <2>2 DEF TagViews
  <2> QED BY <2>1, <2>3, KeepsSame DEF TagsPage!Work
<1>5. CASE TagsPage!TagsLoaded
  BY <1>5, KeepsLanded DEF TagsPage!TagsLoaded, TagsPage!Answers, TagsPage!Land, LoadOps
<1>6. CASE TagsPage!TagDeleted
  <2>1. PICK r \in asked : r.state = "done" /\ TagsPage!Follow(r)
    BY <1>6 DEF TagsPage!TagDeleted, TagsPage!Answers
  <2>2. \A p \in asked \ {r} : [p EXCEPT !.alone = FALSE] \in asked'
    BY <2>1 DEF TagsPage!Follow, TagsPage!Add
  <2> QED BY <1>1, <2>1, <2>2, KeepsAsked
<1> QED BY <1>2, <1>3, <1>4, <1>5, <1>6 DEF TagsPage!Next

\* Categories.tsx: what is dropped with the form are the requests for its workers.
LEMMA CategoriesKeep ==
  ASSUME CategoriesInv, CategoriesPage!Next
  PROVE  Keeps(CategoriesPage!Work, CategoriesPage!Work')
<1>1. view \in CategoryViews
  BY DEF CategoriesInv, CategoriesTyped
<1>2. CASE \/ CategoriesPage!ChooseWorker \/ CategoriesPage!TypeRest \/ CategoriesPage!CancelDelete
           \/ \E c \in Categories : CategoriesPage!OpenDelete(c)
  BY <1>2, KeepsStill DEF CategoriesPage!ChooseWorker, CategoriesPage!TypeRest,
     CategoriesPage!CancelDelete, CategoriesPage!OpenDelete
<1>3. CASE \/ CategoriesPage!SubmitForm \/ CategoriesPage!DeleteCategory
           \/ CategoriesPage!Refused({"create", "update", "delete"})
           \/ CategoriesPage!Serve(CategoriesPage!Effect, CategoriesPage!Accepts)
  <2>1. UNCHANGED <<dialog, view>>
    BY <1>3 DEF CategoriesPage!SubmitForm, CategoriesPage!DeleteCategory, CategoriesPage!Refused,
       CategoriesPage!Serve
  <2> QED BY <2>1, KeepsSame DEF CategoriesPage!Work
<1>4. CASE CategoriesPage!LoadCategories \/ CategoriesPage!CategoriesLoaded
  <2>1. dialog' = dialog /\ view'.form = view.form
    BY <1>1, <1>4 DEF CategoriesPage!LoadCategories, CategoriesPage!CategoriesLoaded,
       CategoriesPage!Load, CategoriesPage!Loaded, CategoryViews
  <2> QED BY <2>1, KeepsSame DEF CategoriesPage!Work
<1>5. CASE CategoriesPage!RetryWorkers \/ CategoriesPage!WorkersAnswered
  <2>1. dialog' = dialog /\ view'.form = view.form
    BY <1>1, <1>5 DEF CategoriesPage!RetryWorkers, CategoriesPage!WorkersAnswered, CategoryViews
  <2> QED BY <2>1, KeepsSame DEF CategoriesPage!Work
<1>6. CASE \/ \E c \in Categories \cup {Gone} : CategoriesPage!OpenForm(c)
           \/ CategoriesPage!CloseForm \/ CategoriesPage!CategorySaved
           \/ CategoriesPage!CategoryDeleted
  <2>1. PICK r : /\ CategoriesPage!Stale \subseteq asked' \/ CategoriesPage!Stale \ {r} \subseteq asked'
                    \/ asked' = asked \ {r}
                 /\ CategoriesPage!Stale \subseteq asked' \/ r.state = "done"
    BY <1>6 DEF CategoriesPage!OpenForm, CategoriesPage!CloseForm, CategoriesPage!CategorySaved,
       CategoriesPage!CategoryDeleted, CategoriesPage!AskWorkers, CategoriesPage!Answers,
       CategoriesPage!Land
  <2>2. \A p \in asked : p.op # "workers" => p \in CategoriesPage!Stale
    BY DEF CategoriesPage!Stale
  <2> QED BY <2>1, <2>2, KeepsTaken DEF LoadOps
<1> QED BY <1>2, <1>3, <1>4, <1>5, <1>6 DEF CategoriesPage!Next

\* Workers.tsx: what a change aborts is the load of the list.
LEMMA WorkersKeep ==
  ASSUME WorkersInv, WorkersPage!Next
  PROVE  Keeps(WorkersPage!Work, WorkersPage!Work')
<1>1. view \in WorkerViews
  BY DEF WorkersInv, WorkersTyped
<1>2. CASE \/ WorkersPage!OpenAdd \/ WorkersPage!CloseDialog \/ WorkersPage!ConfirmDelete
           \/ WorkersPage!ShowEdit \/ WorkersPage!TypeEdit
  BY <1>2, KeepsStill DEF WorkersPage!OpenAdd, WorkersPage!CloseDialog, WorkersPage!ConfirmDelete,
     WorkersPage!ShowEdit, WorkersPage!TypeEdit, WorkersPage!OverDetails
<1>3. CASE \/ WorkersPage!DeleteWorker \/ WorkersPage!UpdateWorker
           \/ WorkersPage!Refused({"delete", "update"})
           \/ WorkersPage!Serve(WorkersPage!Effect, WorkersPage!Accepts)
  <2>1. UNCHANGED <<dialog, view>>
    BY <1>3 DEF WorkersPage!DeleteWorker, WorkersPage!UpdateWorker, WorkersPage!Refused,
       WorkersPage!Serve
  <2> QED BY <2>1, KeepsSame DEF WorkersPage!Work
<1>4. CASE \/ WorkersPage!LoadWorkers \/ WorkersPage!WorkersLoaded \/ WorkersPage!CreateWorker
           \/ WorkersPage!CreateRefused \/ WorkersPage!DetailsAnswered
  <2>1. dialog' = dialog /\ view'.form = view.form
    BY <1>1, <1>4 DEF WorkersPage!LoadWorkers, WorkersPage!WorkersLoaded, WorkersPage!CreateWorker,
       WorkersPage!CreateRefused, WorkersPage!DetailsAnswered, WorkerViews
  <2> QED BY <2>1, KeepsSame DEF WorkersPage!Work
<1>5. CASE WorkersPage!WorkerCreated \/ WorkersPage!WorkerDeleted \/ WorkersPage!WorkerUpdated
  <2>1. PICK r : r.state = "done" /\ asked' = WorkersPage!NoLoad \ {r}
    BY <1>5 DEF WorkersPage!WorkerCreated, WorkersPage!WorkerDeleted, WorkersPage!WorkerUpdated,
       WorkersPage!Answers, WorkersPage!Patch
  <2> QED BY <2>1, KeepsTaken DEF WorkersPage!NoLoad, LoadOps
<1>6. CASE \E w \in Workers : WorkersPage!ShowDetails(w)
  <2>1. \A p \in asked : [p EXCEPT !.alone = FALSE] \in asked'
    BY <1>6 DEF WorkersPage!ShowDetails, WorkersPage!Ask, WorkersPage!AskSeeing, WorkersPage!Add
  <2>2. SoleWork /\ \A p \in asked : Asks(p)
    BY DEF WorkersInv, WorkerAsks, WorkersSole, SoleWork
  <2> QED BY <2>1, <2>2, KeepsAsked
<1> QED BY <1>2, <1>3, <1>4, <1>5, <1>6 DEF WorkersPage!Next

\* Torrents.tsx: the dialog and the selection go with the deletions they were for.
LEMMA ListKeeps ==
  ASSUME ListInv, TorrentsPage!Next
  PROVE  TorrentsPage!FailuresKeepWork
<1> SUFFICES ASSUME \A p \in asked \ asked' : p.op # "deletions"
             PROVE  Keeps(TorrentsPage!Work, TorrentsPage!Work')
  BY DEF TorrentsPage!FailuresKeepWork, TorrentsPage!Keeps, TorrentsPage!LoadOps, Keeps, LoadOps
<1>1. view \in RowViews
  BY DEF ListInv, ListTyped
<1>2. CASE \/ TorrentsPage!Snapshot \/ TorrentsPage!ToggleSelectAll \/ TorrentsPage!CloseDialog
           \/ TorrentsPage!DeleteSelected
           \/ \E id \in TorrentsPage!Ids : TorrentsPage!ToggleSelect(id) \/ TorrentsPage!ShowDetails(id)
           \/ \E t \in Hosted : TorrentsPage!ShowLimits(t) \/ TorrentsPage!DeleteRow(t)
  <2>1. asked' = asked
    BY <1>2 DEF TorrentsPage!Snapshot, TorrentsPage!ToggleSelectAll, TorrentsPage!CloseDialog,
       TorrentsPage!DeleteSelected, TorrentsPage!ToggleSelect, TorrentsPage!ShowDetails,
       TorrentsPage!ShowLimits, TorrentsPage!DeleteRow, TorrentsPage!OpenDelete
  <2> QED BY <2>1, KeepsStill
<1>3. CASE \/ TorrentsPage!BulkAction \/ TorrentsPage!Acted \/ TorrentsPage!SaveLimits
           \/ TorrentsPage!SaveCategory \/ TorrentsPage!CategorySaved \/ TorrentsPage!DeleteTorrent
           \/ TorrentsPage!ServeDelete \/ \E id \in TorrentsPage!Ids : TorrentsPage!Act(id)
           \/ TorrentsPage!Refused({"act", "bulk", "category", "limits", "remove"})
           \/ TorrentsPage!Serve(TorrentsPage!Effect, TorrentsPage!Accepts)
  <2>1. UNCHANGED <<dialog, view>>
    BY <1>3 DEF TorrentsPage!BulkAction, TorrentsPage!Acted, TorrentsPage!SaveLimits,
       TorrentsPage!SaveCategory, TorrentsPage!CategorySaved, TorrentsPage!DeleteTorrent,
       TorrentsPage!ServeDelete, TorrentsPage!Act, TorrentsPage!Refused, TorrentsPage!Serve
  <2> QED BY <2>1, KeepsSame DEF TorrentsPage!Work
<1>4. CASE TorrentsPage!WorkersLoaded \/ TorrentsPage!ConfirmDelete
  <2>1. dialog' = dialog /\ view'.selected = view.selected
    BY <1>1, <1>4 DEF TorrentsPage!WorkersLoaded, TorrentsPage!ConfirmDelete, TorrentsPage!Loaded,
       RowViews
  <2> QED BY <2>1, KeepsSame DEF TorrentsPage!Work
<1>5. CASE TorrentsPage!LimitsSaved \/ TorrentsPage!TorrentDeleted
  BY <1>5, KeepsLanded DEF TorrentsPage!LimitsSaved, TorrentsPage!TorrentDeleted,
     TorrentsPage!Answers, TorrentsPage!Land
<1>6. CASE TorrentsPage!ConfirmedGone
  BY <1>6 DEF TorrentsPage!ConfirmedGone, TorrentsPage!Answers, TorrentsPage!Land
<1> QED BY <1>2, <1>3, <1>4, <1>5, <1>6 DEF TorrentsPage!Next

\* AddTorrentModal.tsx: the form goes when it is sent or left; what is dropped with
\* it are its loads and its parse.
LEMMA FormKeeps ==
  ASSUME FormInv, Form!Next
  PROVE  Form!FailuresKeepWork
<1> SUFFICES ASSUME \A p \in asked \ asked' : p.op # "parse"
             PROVE  Keeps(Form!Work, Form!Work')
  BY DEF Form!FailuresKeepWork, Form!Keeps, Form!LoadOps, Keeps, LoadOps
<1>1. CASE \/ \E mode \in {"magnet", "file"} : Form!OpenAddModal(mode) \/ Form!ChangeMode(mode)
           \/ \E r \in Releases \cup {Nothing} : Form!ChooseRelease(r)
           \/ Form!CloseAddModal \/ Form!HandleSubmit
  <2>1. asked \ (Form!Loads \cup Form!Parses) \subseteq asked'
    BY <1>1 DEF Form!OpenAddModal, Form!ChangeMode, Form!ChooseRelease, Form!CloseAddModal,
       Form!HandleSubmit
  <2> QED BY <2>1, KeepsTaken DEF Form!Loads, Form!Parses, LoadOps
<1>2. CASE \/ \E f \in Form!Fields : Form!Edit(f)
           \/ \E tag \in view.tags \cup {Mine} : \/ Form!EditTags(view.tags \cup {tag})
                                               \/ Form!EditTags(view.tags \ {tag})
           \/ \E c \in Form!Offered : Form!ChangeCategory(c)
           \/ \E w \in Hosts : Form!ChangeWorker(w)
  <2>1. asked' = asked
    BY <1>2 DEF Form!Edit, Form!EditTags, Form!ChangeCategory, Form!ChangeWorker, Form!Stays
  <2> QED BY <2>1, KeepsStill
<1>3. CASE Form!Parsed
  BY <1>3 DEF Form!Parsed, Form!Answers, Form!Land
<1>4. CASE Form!WorkersLoaded \/ Form!CategoriesLoaded \/ Form!LoadRefused
  <2>1. PICK r : asked' = asked \ {r} /\ r.op = "load"
    BY <1>4 DEF Form!WorkersLoaded, Form!CategoriesLoaded, Form!LoadRefused, Form!Answers, Form!Land
  <2> QED BY <2>1, KeepsLanded DEF LoadOps
<1>5. CASE \/ Form!Created \/ Form!CreateRefused \/ Form!Renamed \/ Form!RenameFailed
           \/ Form!Reconcile \/ Form!ParseRefused \/ Form!Answered
  <2>1. UNCHANGED <<dialog, view>>
    BY <1>5 DEF Form!Created, Form!CreateRefused, Form!Renamed, Form!RenameFailed,
       Form!Reconcile, Form!ParseRefused, Form!Refused, Form!Answered
  <2> QED BY <2>1, KeepsSame DEF Form!Work
<1> QED BY <1>1, <1>2, <1>3, <1>4, <1>5 DEF Form!Next

\* The tabs of TorrentDetailsModal.tsx: a tab that is opened asks for a list nobody
\* hears of yet; a form is emptied when its change is done.
LEMMA TabsKeep ==
  ASSUME TabsInv, Tabs!Next
  PROVE  Keeps(Tabs!Work, Tabs!Work')
<1>1. /\ view \in TabViews /\ TabsHear
      /\ SoleWork /\ \A p \in asked : Asks(p)
  BY DEF TabsInv, TabsTyped, TabsAgree, TabAsks, Solo, SoleWork
<1>2. CASE \E tab \in Tabs!Tabs : Tabs!OpenTab(tab)
  <2>1. PICK tab \in Tabs!Tabs : Tabs!OpenTab(tab)
    BY <1>2
  <2>2. PICK q \in asked' : q.heard /\ q.list = tab
    <3> DEFINE q == [Request("load", tab, Gone, Gone, Gone) EXCEPT
                       !.alone = ({r \in Tabs!Unheard : r.op # "load"} = {})]
    <3>1. q \in asked'
      BY <2>1 DEF Tabs!OpenTab, Tabs!Add, Tabs!Request, Request
    <3>2. q.heard /\ q.list = tab
      BY DEF Request
    <3> HIDE DEF q
    <3> QED BY <3>1, <3>2
  <2>3. q \notin asked
    BY <1>1, <2>1, <2>2 DEF TabsHear, Tabs!OpenTab
  <2> QED BY <2>3 DEF Keeps
<1>3. CASE \/ \E f \in Files, priority \in Tabs!Priorities : Tabs!SetPendingPriority(f, priority)
           \/ Tabs!SelectAll \/ Tabs!SelectNone \/ Tabs!AskToApply \/ Tabs!CancelEdit \/ Tabs!CloseDialog
           \/ \E u \in Urls : Tabs!TypeUrl(u) \/ Tabs!StartEdit(u)
           \/ \E p \in Peers : Tabs!AskToBan(p)
  <2>1. asked' = asked
    BY <1>3 DEF Tabs!SetPendingPriority, Tabs!SelectAll, Tabs!SelectNone, Tabs!AskToApply,
       Tabs!CancelEdit, Tabs!CloseDialog, Tabs!TypeUrl, Tabs!StartEdit, Tabs!AskToBan, Tabs!Choose,
       Tabs!Look
  <2> QED BY <2>1, KeepsStill
<1>4. CASE \/ Tabs!NextGroup \/ Tabs!AppliedUnheard \/ Tabs!NobodyHears({"add", "remove", "edit", "ban"})
           \/ Tabs!Serve(Tabs!Effect, Tabs!Accepts)
  <2>1. UNCHANGED <<dialog, view>>
    BY <1>4 DEF Tabs!NextGroup, Tabs!AppliedUnheard, Tabs!NobodyHears, Tabs!Serve
  <2> QED BY <2>1, KeepsSame DEF Tabs!Work
<1>5. CASE \/ Tabs!Retry \/ Tabs!Applied \/ Tabs!ApplyRefused \/ Tabs!HandleAdd \/ Tabs!AddRefused
           \/ Tabs!Removed \/ Tabs!ChangeRefused \/ Tabs!Banned
           \/ \E u \in Urls : Tabs!HandleRemove(u) \/ Tabs!HandleEditSave(u)
  <2>1. dialog' = dialog
    BY <1>5 DEF Tabs!Retry, Tabs!Applied, Tabs!ApplyRefused, Tabs!HandleAdd, Tabs!AddRefused,
       Tabs!Removed, Tabs!ChangeRefused, Tabs!Banned, Tabs!HandleRemove, Tabs!HandleEditSave
  <2>2. \/ view' = [view EXCEPT !.loading = TRUE, !.error = FALSE]
        \/ view' = [view EXCEPT !.applying = FALSE, !.applyError = TRUE]
        \/ \E x : view' = [view EXCEPT !.adding = x]
        \/ \E x : view' = [view EXCEPT !.pendingUrls = x]
        \/ view' = [view EXCEPT !.banning = Gone]
    BY <1>5 DEF Tabs!Retry, Tabs!Applied, Tabs!ApplyRefused, Tabs!HandleAdd, Tabs!AddRefused,
       Tabs!Removed, Tabs!ChangeRefused, Tabs!Banned, Tabs!HandleRemove, Tabs!HandleEditSave
  <2>3. view'.newUrl = view.newUrl /\ view'.editing = view.editing /\ view'.pending = view.pending
    BY <1>1, <2>2 DEF TabViews
  <2> QED BY <2>1, <2>3, KeepsSame DEF Tabs!Work
<1>6. CASE Tabs!TabLoaded
  <2>1. PICK r : asked' = asked \ {r} /\ r.op = "load"
    BY <1>6 DEF Tabs!TabLoaded, Tabs!Answers, Tabs!Land
  <2> QED BY <2>1, KeepsLanded DEF LoadOps
<1>7. CASE Tabs!PerformApply \/ Tabs!ConfirmBan
  <2>1. \A p \in asked : [p EXCEPT !.alone = FALSE] \in asked'
    BY <1>7 DEF Tabs!PerformApply, Tabs!ConfirmBan, Tabs!Ask, Tabs!AskSeeing, Tabs!Add
  <2> QED BY <1>1, <2>1, KeepsAsked
<1>8. CASE Tabs!Added \/ Tabs!Edited
  <2>1. PICK r \in asked : r.state = "done" /\ \E to : Tabs!LoadAfter(r, to)
    BY <1>8 DEF Tabs!Added, Tabs!Edited, Tabs!Answers
  <2>2. \A p \in asked \ {r} : [p EXCEPT !.alone = FALSE] \in asked'
    BY <2>1 DEF Tabs!LoadAfter, Tabs!Add
  <2> QED BY <1>1, <2>1, <2>2, KeepsAsked
<1> QED BY <1>2, <1>3, <1>4, <1>5, <1>6, <1>7, <1>8 DEF Tabs!Next

\* TorrentLimitModal.tsx: what is left with the modal goes on unheard, and no call
\* of its batch was unheard before.
LEMMA LimitsLeft ==
  ASSUME LimitsInv, NEW others \in SUBSET asked, Limits!Unmounted(others),
         \A p \in asked \ others : p.state = "done"
  PROVE  Keeps(Limits!Work, Limits!Work')
<1> SUFFICES ASSUME asked' \subseteq asked,
                    NEW p \in asked \ asked', p.state = "refused", p.op \notin LoadOps
             PROVE  FALSE
  BY DEF Keeps
<1>1. p \in others /\ p.op # "load" /\ Asks(p)
  BY DEF LoadOps, LimitsInv, LimitAsks
<1> DEFINE q == [p EXCEPT !.heard = FALSE]
<1>2. q \in asked'
  BY <1>1 DEF Limits!Unmounted
<1>3. q.to = p.to /\ q.heard = FALSE /\ (~p.heard => q = p)
  BY <1>1 DEF Asks, Sent
<1> HIDE DEF q
<1> QED BY <1>2, <1>3 DEF LimitsInv, Batched

LEMMA LimitsKeep ==
  ASSUME LimitsInv, Limits!Next
  PROVE  Keeps(Limits!Work, Limits!Work')
<1>1. view \in LimitViews /\ \A p \in asked : Asks(p)
  BY DEF LimitsInv, LimitAsks
<1>2. CASE Limits!HandleInputChange \/ Limits!HandleLimitModeChange
  BY <1>2, KeepsStill DEF Limits!HandleInputChange, Limits!HandleLimitModeChange, Limits!Enter
<1>3. CASE \/ \E tasks \in (SUBSET Selected) \ {{}} : Limits!HandleShowLimits(tasks)
           \/ Limits!LimitsLoaded
  <2>1. asked \subseteq asked' \/ \E to : asked' = asked \ Limits!CallsOf("load", to)
    BY <1>3 DEF Limits!HandleShowLimits, Limits!LimitsLoaded, Limits!AskAll
  <2>2. \A p \in asked : p \in asked' \/ p.op = "load"
    BY <2>1 DEF Limits!CallsOf
  <2> QED BY <2>2, KeepsTaken DEF LoadOps
<1>4. CASE Limits!Close
  BY <1>4, LimitsLeft DEF Limits!Close
<1>5. CASE Limits!Saved
  <2>1. PICK to : /\ Limits!AllAnswered(Limits!CallsOf("share", to))
                  /\ ~Limits!OneRefused(Limits!CallsOf("share", to))
                  /\ Limits!Unmounted(asked \ Limits!CallsOf("share", to))
    BY <1>5 DEF Limits!Saved
  <2>2. \A p \in Limits!CallsOf("share", to) : p.state = "done"
    BY <1>1, <2>1 DEF Limits!AllAnswered, Limits!OneRefused, Limits!CallsOf, Asks
  <2> QED BY <2>1, <2>2, LimitsLeft
<1>6. CASE \/ Limits!HandleSave \/ Limits!NextPhase \/ Limits!SaveStops
           \/ Limits!Serve(Limits!Effect, Limits!Accepts)
  <2>1. dialog' = dialog
    BY <1>6 DEF Limits!HandleSave, Limits!NextPhase, Limits!SaveStops, Limits!Serve
  <2>2. \/ view' = view \/ view' = [view EXCEPT !.saving = TRUE, !.error = FALSE]
        \/ view' = [view EXCEPT !.saving = FALSE, !.error = TRUE]
    BY <1>6 DEF Limits!HandleSave, Limits!NextPhase, Limits!SaveStops, Limits!Serve
  <2>3. view'.limits = view.limits
    BY <1>1, <2>2 DEF LimitViews
  <2> QED BY <2>1, <2>3, KeepsSame DEF Limits!Work
<1> QED BY <1>2, <1>3, <1>4, <1>5, <1>6 DEF Limits!Next

\* Profile.tsx: a password that is changed leaves its form, one that is not stays.
LEMMA ProfileKeeps ==
  ASSUME ProfileInv, Profile!Next
  PROVE  Keeps(Profile!Work, Profile!Work')
<1>1. /\ view \in ProfileViews
      /\ SoleWork /\ \A p \in asked : Asks(p)
  BY DEF ProfileInv, ProfileTyped, ProfileSole, ProfileAsks, SoleWork, LoadOps
<1>2. CASE Profile!TypePassword \/ \E c \in Swatches : Profile!UpdateColorDebounced(c)
  BY <1>2, KeepsStill DEF Profile!TypePassword, Profile!UpdateColorDebounced
<1>3. CASE Profile!Serve(Profile!Effect, Profile!Accepts) \/ Profile!PreferencesLoaded \/ Profile!HandleLogoutAll
  <2>1. UNCHANGED <<dialog, view>>
    BY <1>3 DEF Profile!Serve, Profile!PreferencesLoaded, Profile!HandleLogoutAll
  <2> QED BY <2>1, KeepsSame DEF Profile!Work
<1>4. CASE \/ Profile!SessionsLoaded \/ Profile!PreferenceUpdated \/ Profile!HandlePasswordChange
           \/ Profile!LoggedOutAll
  <2>1. dialog' = dialog
    BY <1>4 DEF Profile!SessionsLoaded, Profile!PreferenceUpdated, Profile!HandlePasswordChange,
       Profile!LoggedOutAll, Profile!Loaded
  <2>2. \/ view' = [view EXCEPT !.isLoading = FALSE] \/ view' = [view EXCEPT !.saving = FALSE]
        \/ view' = [view EXCEPT !.told = "error"] \/ view' = [view EXCEPT !.leaving = TRUE]
        \/ view' = [view EXCEPT !.changing = TRUE, !.told = "nothing"]
    BY <1>4 DEF Profile!SessionsLoaded, Profile!PreferenceUpdated, Profile!HandlePasswordChange,
       Profile!LoggedOutAll, Profile!Loaded
  <2>3. view'.password = view.password /\ view'.timers = view.timers
    BY <1>1, <2>2 DEF ProfileViews
  <2> QED BY <2>1, <2>3, KeepsSame DEF Profile!Work
<1>5. CASE Profile!PasswordChanged
  <2>1. PICK r \in asked : /\ r.state = "done" \/ view' = [view EXCEPT !.changing = FALSE]
                           /\ asked' = asked \ {r} /\ dialog' = dialog
    BY <1>5 DEF Profile!PasswordChanged, Profile!Answers, Profile!Land
  <2>2. CASE r.state = "done"
    BY <2>1, <2>2, KeepsLanded
  <2>3. CASE view' = [view EXCEPT !.changing = FALSE]
    <3>1. view'.password = view.password /\ view'.timers = view.timers
      BY <1>1, <2>3 DEF ProfileViews
    <3> QED BY <2>1, <3>1, KeepsSame DEF Profile!Work
  <2> QED BY <2>1, <2>2, <2>3
<1>6. CASE \E c \in Swatches : Profile!UpdatePreference(c)
  <2>1. \A p \in asked : [p EXCEPT !.alone = FALSE] \in asked'
    BY <1>6 DEF Profile!UpdatePreference, Profile!Ask, Profile!AskSeeing, Profile!Add
  <2> QED BY <1>1, <2>1, KeepsAsked
<1> QED BY <1>2, <1>3, <1>4, <1>5, <1>6 DEF Profile!Next

\* Requests join others, are taken, give way to loads, or are answered: what is at
\* work alone goes on having loads beside it at most.
LEMMA SoleJoins ==
  ASSUME NEW others, \A p \in others : Asks(p), NEW op, NEW list, NEW on, NEW to, NEW saw,
         asked' = Add(others, Request(op, list, on, to, saw))
  PROVE  SoleWork'
<1> DEFINE q == Request(op, list, on, to, saw)
<1>1. Asks(q) /\ asked' = Add(others, q)
  BY RequestAsks
<1> HIDE DEF q
<1>2. /\ others = {} => \A r \in asked' : asked' = {r} /\ r.alone
      /\ others # {} => \A r \in asked' : ~r.alone
  BY <1>1, JoinAsks
<1> QED BY <1>2 DEF SoleWork

LEMMA SoleStays ==
  ASSUME SoleWork, \A r \in asked' : r \in asked \/ r.op \in LoadOps
  PROVE  SoleWork'
  BY DEF SoleWork

LEMMA SoleAnswered ==
  ASSUME SoleWork, NEW r \in asked, Asks(r),
         \/ asked' = (asked \ {r}) \cup {Answer(r)}
         \/ asked' = (asked \ {r}) \cup {Refusal(r)}
  PROVE  SoleWork'
<1>1. PICK s : asked' = (asked \ {r}) \cup {s} /\ Twin(s, r) /\ s.alone = r.alone
  BY AnswerAsks
<1> QED BY <1>1 DEF SoleWork, Twin

\* Settings.tsx: the settings are asked for again beside whatever is under way.
LEMMA SettingsSoleWork ==
  ASSUME SettingsInv, SoleWork, SettingsPage!Next
  PROVE  SoleWork'
<1>1. \A p \in asked : Asks(p)
  BY SettingsPlain
<1>2. CASE \/ SettingsPage!SettingsLoaded \/ SettingsPage!SettingSaved \/ SettingsPage!SaveRefused
           \/ SettingsPage!StatsLoaded \/ SettingsPage!DeleteRefused \/ SettingsPage!CloseDialog
           \/ \E s \in SettingsPage!Settings : SettingsPage!Choose(s)
           \/ \E owner \in SettingsPage!Owners : SettingsPage!OpenDeleteDialog(owner)
  <2>1. asked' \subseteq asked \cup SettingsPage!SettingsLoads
    BY <1>2 DEF SettingsPage!SettingsLoaded, SettingsPage!SettingSaved, SettingsPage!SaveRefused,
       SettingsPage!StatsLoaded, SettingsPage!DeleteRefused, SettingsPage!CloseDialog,
       SettingsPage!Choose, SettingsPage!OpenDeleteDialog, SettingsPage!Loaded, SettingsPage!Land
  <2>2. \A r \in SettingsPage!SettingsLoads : r.op = "setting"
    BY DEF SettingsPage!SettingsLoads, SettingsPage!Request
  <2> QED BY <2>1, <2>2, SoleStays DEF LoadOps
<1>3. ASSUME NEW op, NEW list, NEW on, NEW to, SettingsPage!Ask(op, list, on, to) PROVE SoleWork'
  <2>1. asked' = Add(asked, Request(op, list, on, to, Gone))
    BY <1>3 DEF SettingsPage!Ask, SettingsPage!AskSeeing, SettingsPage!Add, SettingsPage!Request,
       Add, Request
  <2> QED BY <1>1, <2>1, SoleJoins
<1>5. CASE \E s \in SettingsPage!Settings : SettingsPage!HandleSave(s)
  <2>1. PICK s \in SettingsPage!Settings : SettingsPage!Ask("save", "settings", s, view.chosen[s])
    BY <1>5 DEF SettingsPage!HandleSave
  <2> QED BY <2>1, <1>3
<1>6. CASE SettingsPage!LoadImageStats \/ SettingsPage!HandleDeleteConfirm
  <2>1. CASE SettingsPage!LoadImageStats
    BY <2>1, <1>3 DEF SettingsPage!LoadImageStats, SettingsPage!Load
  <2>2. CASE SettingsPage!HandleDeleteConfirm
    BY <2>2, <1>3 DEF SettingsPage!HandleDeleteConfirm
  <2> QED BY <1>6, <2>1, <2>2
<1>7. CASE SettingsPage!ImagesDeleted
  <2>1. PICK r \in asked : asked' = Add(asked \ {r}, Request("load", "images", Gone, Gone, Gone))
    BY <1>7 DEF SettingsPage!ImagesDeleted, SettingsPage!Answers, SettingsPage!Add,
       SettingsPage!Request, Add, Request
  <2>2. \A p \in asked \ {r} : Asks(p)
    BY <1>1
  <2> QED BY <2>1, <2>2, SoleJoins
<1>4. CASE SettingsPage!Serve(SettingsPage!Effect, SettingsPage!Accepts)
  <2>1. PICK r \in asked : \/ asked' = (asked \ {r}) \cup {Answer(r)}
                           \/ asked' = (asked \ {r}) \cup {Refusal(r)}
    BY <1>4 DEF SettingsPage!Serve, SettingsPage!Answer, SettingsPage!Refusal, SettingsPage!Brings,
       Answer, Refusal, Brings
  <2> QED BY <1>1, <2>1, SoleAnswered
<1> QED BY <1>2, <1>4, <1>5, <1>6, <1>7 DEF SettingsPage!Next

LEMMA SettingsKeep ==
  ASSUME SettingsInv, SoleWork, SettingsPage!Next
  PROVE  Keeps(SettingsPage!Work, SettingsPage!Work')
<1>1. view \in SettingViews /\ \A p \in asked : Asks(p)
  BY SettingsPlain
<1>2. CASE \/ \E s \in SettingsPage!Settings : SettingsPage!Choose(s)
           \/ \E owner \in SettingsPage!Owners : SettingsPage!OpenDeleteDialog(owner)
           \/ SettingsPage!CloseDialog
  BY <1>2, KeepsStill DEF SettingsPage!Choose, SettingsPage!OpenDeleteDialog, SettingsPage!CloseDialog
<1>3. CASE SettingsPage!SettingsLoaded
  <2>1. \A p \in asked : p \in asked' \/ p.op = "setting"
    BY <1>3 DEF SettingsPage!SettingsLoaded
  <2> QED BY <2>1, KeepsTaken DEF LoadOps
<1>4. CASE SettingsPage!Serve(SettingsPage!Effect, SettingsPage!Accepts)
  <2>1. UNCHANGED <<dialog, view>>
    BY <1>4 DEF SettingsPage!Serve
  <2> QED BY <2>1, KeepsSame DEF SettingsPage!Work
<1>5. CASE \/ \E s \in SettingsPage!Settings : SettingsPage!HandleSave(s)
           \/ SettingsPage!SettingSaved \/ SettingsPage!SaveRefused \/ SettingsPage!LoadImageStats
           \/ SettingsPage!StatsLoaded \/ SettingsPage!HandleDeleteConfirm \/ SettingsPage!DeleteRefused
  <2>1. dialog' = dialog
    BY <1>5 DEF SettingsPage!HandleSave, SettingsPage!SettingSaved, SettingsPage!SaveRefused,
       SettingsPage!LoadImageStats, SettingsPage!StatsLoaded, SettingsPage!HandleDeleteConfirm,
       SettingsPage!DeleteRefused, SettingsPage!Load, SettingsPage!Loaded
  <2>2. \/ \E x, y : view' = [view EXCEPT !.saving = FALSE, !.loading = x, !.speaks = y]
        \/ \E x : view' = [view EXCEPT !.saving = x]
        \/ \E x : view' = [view EXCEPT !.statsLoading = x]
        \/ \E x : view' = [view EXCEPT !.deleting = x]
    BY <1>5 DEF SettingsPage!HandleSave, SettingsPage!SettingSaved, SettingsPage!SaveRefused,
       SettingsPage!LoadImageStats, SettingsPage!StatsLoaded, SettingsPage!HandleDeleteConfirm,
       SettingsPage!DeleteRefused, SettingsPage!Load, SettingsPage!Loaded
  <2>3. view'.chosen = view.chosen
    BY <1>1, <2>2 DEF SettingViews
  <2> QED BY <2>1, <2>3, KeepsSame DEF SettingsPage!Work
<1>6. CASE SettingsPage!ImagesDeleted
  <2>1. PICK r \in asked : /\ r.state = "done"
                           /\ \A p \in asked \ {r} : [p EXCEPT !.alone = FALSE] \in asked'
    BY <1>6 DEF SettingsPage!ImagesDeleted, SettingsPage!Answers, SettingsPage!Add
  <2> QED BY <1>1, <2>1, KeepsAsked
<1> QED BY <1>2, <1>3, <1>4, <1>5, <1>6 DEF SettingsPage!Next

\* The tabs of WorkerDetailsModal.tsx: what is heard of belongs to the tab that is
\* open.
ModalHear == \A r \in asked : r.heard => r.list = view.tab

LEMMA ListJoins ==
  ASSUME NEW others, \A p \in others : Asks(p), NEW op, NEW list, NEW on, NEW to, NEW saw,
         asked' = Add(others, Request(op, list, on, to, saw))
  PROVE  \A r \in asked' : r.list = list \/ \E p \in others : Same(r, p)
<1> DEFINE q == Request(op, list, on, to, saw)
<1>1. Asks(q) /\ asked' = Add(others, q)
  BY RequestAsks
<1>2. q.list = list
  BY DEF Request
<1> HIDE DEF q
<1>3. \A r \in asked' : Asks(r) /\ \E p \in others \cup {q} : Same(r, p)
  BY <1>1, JoinAsks
<1> QED BY <1>2, <1>3 DEF Same

LEMMA HearJoins ==
  ASSUME NEW others, \A p \in others : Asks(p), \A p \in others : p.heard => p.list = view'.tab,
         NEW op, NEW list, NEW on, NEW to, NEW saw,
         asked' = Add(others, Request(op, list, on, to, saw)), list = view'.tab
  PROVE  ModalHear'
<1>1. \A r \in asked' : r.list = list \/ \E p \in others : Same(r, p)
  BY ListJoins
<1> QED BY <1>1 DEF ModalHear, Same

\* No handler but one leaves the tab.
LEMMA ModalTabStays ==
  ASSUME ModalInv, Worker!Next, \A tab \in Worker!Tabs : ~Worker!ActiveTab(tab)
  PROVE  view'.tab = view.tab
<1>1. view \in ModalViews
  BY ModalPlain
<1>2. CASE \/ Worker!PrefsLoaded \/ Worker!LimitsSaved
           \/ \E form \in Worker!Forms : Worker!SetLimit(form) \/ Worker!HandleSaveLimits(form)
           \/ Worker!SchedulesLoaded \/ Worker!OpenForm(Gone)
           \/ \E s \in Schedules : Worker!OpenForm(s)
           \/ Worker!TypeForm \/ Worker!Save \/ Worker!RemoveSchedule
  BY <1>1, <1>2 DEF Worker!PrefsLoaded, Worker!LimitsSaved, Worker!SetLimit, Worker!HandleSaveLimits,
     Worker!SchedulesLoaded, Worker!Loaded, Worker!OpenForm, Worker!TypeForm, Worker!Save,
     Worker!RemoveSchedule, ModalViews
<1>3. CASE \/ Worker!ScheduleChanged \/ Worker!ScheduleRefused \/ Worker!Reorder \/ Worker!Reordered
           \/ Worker!ReorderRefused \/ Worker!Refresh \/ \E level \in Worker!Levels : Worker!ToggleLevel(level)
           \/ Worker!LogsFetched \/ Worker!LogsRefused
  BY <1>1, <1>3 DEF Worker!ScheduleChanged, Worker!ScheduleRefused, Worker!Reorder, Worker!Reordered,
     Worker!ReorderRefused, Worker!Refresh, Worker!ToggleLevel, Worker!Fetch, Worker!LogsFetched,
     Worker!LogsRefused, ModalViews
<1>4. CASE \/ \E s \in Schedules : Worker!OpenDelete(s)
           \/ Worker!CloseDialog \/ Worker!LogWritten
           \/ Worker!NobodyHears({"limits", "update", "create", "delete", "reorder", "fetch"})
           \/ Worker!Serve(Worker!Effect, Worker!Accepts)
  BY <1>4 DEF Worker!OpenDelete, Worker!CloseDialog, Worker!LogWritten, Worker!NobodyHears, Worker!Serve
<1> QED BY <1>2, <1>3, <1>4 DEF Worker!Next

LEMMA ModalHears ==
  ASSUME ModalInv, ModalHear, Worker!Next
  PROVE  ModalHear'
<1>1. \A p \in asked : Asks(p) /\ ModalAsks(p)
  BY ModalPlain
<1>2. ASSUME NEW tab \in Worker!Tabs, Worker!ActiveTab(tab) PROVE ModalHear'
  <2> DEFINE going == {r \in Worker!Unheard : r.op # "load"}
  <2>1. asked' = Add(going, Request("load", tab, Gone, Gone, Gone)) /\ view' = Worker!Fresh(tab)
    BY <1>2 DEF Worker!ActiveTab, Worker!Add, Worker!Request, Add, Request
  <2>2. \A p \in going : Asks(p)
    BY <1>1, UnheardAsks DEF Worker!Unheard
  <2>4. \A p \in going : p.heard => p.list = view'.tab
    BY <1>1, UnheardAsks DEF Worker!Unheard
  <2>3. view'.tab = tab
    BY <2>1 DEF Worker!Fresh
  <2> HIDE DEF going
  <2> QED BY <2>1, <2>2, <2>3, <2>4, HearJoins
<1> SUFFICES ASSUME \A tab \in Worker!Tabs : ~Worker!ActiveTab(tab) PROVE ModalHear'
  BY <1>2
<1>3. view'.tab = view.tab
  BY ModalTabStays
<1>4. ASSUME NEW op, NEW on, NEW to, NEW tab, tab = view.tab, Worker!Ask(op, tab, on, to)
      PROVE  ModalHear'
  <2>1. asked' = Add(asked, Request(op, tab, on, to, Gone))
    BY <1>4 DEF Worker!Ask, Worker!AskSeeing, Worker!Add, Worker!Request, Add, Request
  <2>2. \A p \in asked : Asks(p)
    BY <1>1
  <2>3. \A p \in asked : p.heard => p.list = view'.tab
    BY <1>3 DEF ModalHear
  <2> QED BY <1>3, <1>4, <2>1, <2>2, <2>3, HearJoins
<1>8. CASE \E form \in Worker!Forms : Worker!HandleSaveLimits(form)
  <2>1. PICK form \in Worker!Forms : Worker!HandleSaveLimits(form)
    BY <1>8
  <2> QED BY <2>1, <1>4 DEF Worker!HandleSaveLimits, Worker!On
<1>9. CASE Worker!Save
  <2>1. view.tab = "schedules" /\ \E op, on : Worker!Ask(op, "schedules", on, Gone)
    BY <1>9 DEF Worker!Save, Worker!Idle
  <2> QED BY <2>1, <1>4
<1>10. CASE Worker!RemoveSchedule
  BY <1>4, <1>10 DEF Worker!RemoveSchedule, Worker!Idle
<1>11. CASE Worker!Reorder
  <2>1. view.tab = "schedules" /\ \E to : Worker!Ask("reorder", "schedules", Gone, to)
    BY <1>11 DEF Worker!Reorder, Worker!Idle
  <2> QED BY <2>1, <1>4
<1>12. CASE Worker!Refresh \/ \E level \in Worker!Levels : Worker!ToggleLevel(level)
  <2>1. view.tab = "logs" /\ \E refresh, filter : Worker!Fetch(refresh, filter)
    BY <1>12 DEF Worker!Refresh, Worker!ToggleLevel, Worker!On
  <2>2. \E on, to : Worker!Ask("fetch", "logs", on, to)
    BY <2>1 DEF Worker!Fetch
  <2> QED BY <2>1, <2>2, <1>4
<1>5. CASE Worker!ScheduleChanged \/ Worker!ReorderRefused
  <2>1. PICK r \in asked : r.heard /\ r.op \in ScheduleOps \cup {"reorder"} /\ Worker!Reload(asked \ {r})
    <3>1. CASE Worker!ScheduleChanged
      BY <3>1 DEF Worker!ScheduleChanged, Worker!Answers, ScheduleOps
    <3>2. CASE Worker!ReorderRefused
      BY <3>2 DEF Worker!ReorderRefused, Worker!Answers
    <3> QED BY <1>5, <3>1, <3>2
  <2>2. asked' = Add(asked \ {r}, Request("load", "schedules", Gone, Gone, Gone))
    BY <2>1 DEF Worker!Reload, Worker!Add, Worker!Request, Add, Request
  <2>3. view.tab = "schedules"
    <3>1. ModalAsks(r) /\ r.list = view.tab
      BY <1>1, <2>1 DEF ModalHear
    <3> QED BY <2>1, <3>1 DEF ModalAsks, ScheduleOps
  <2>4. \A p \in asked \ {r} : Asks(p)
    BY <1>1
  <2>5. \A p \in asked \ {r} : p.heard => p.list = view'.tab
    BY <1>3 DEF ModalHear
  <2> QED BY <1>3, <2>2, <2>3, <2>4, <2>5, HearJoins
<1>6. CASE \/ Worker!PrefsLoaded \/ Worker!LimitsSaved \/ Worker!SchedulesLoaded
           \/ \E form \in Worker!Forms : Worker!SetLimit(form)
           \/ Worker!OpenForm(Gone) \/ \E s \in Schedules : Worker!OpenForm(s) \/ Worker!OpenDelete(s)
           \/ Worker!CloseDialog \/ Worker!TypeForm \/ Worker!ScheduleRefused \/ Worker!Reordered
           \/ Worker!LogWritten \/ Worker!LogsFetched \/ Worker!LogsRefused
           \/ Worker!NobodyHears({"limits", "update", "create", "delete", "reorder", "fetch"})
  <2>1. asked' \subseteq asked
    BY <1>6 DEF Worker!PrefsLoaded, Worker!LimitsSaved, Worker!SchedulesLoaded, Worker!Loaded,
       Worker!SetLimit, Worker!OpenForm, Worker!OpenDelete, Worker!CloseDialog, Worker!TypeForm,
       Worker!ScheduleRefused, Worker!Reordered, Worker!LogWritten, Worker!LogsFetched,
       Worker!LogsRefused, Worker!NobodyHears, Worker!Land
  <2> QED BY <1>3, <2>1 DEF ModalHear
<1>7. CASE Worker!Serve(Worker!Effect, Worker!Accepts)
  <2>1. PICK r \in asked : \/ asked' = (asked \ {r}) \cup {Answer(r)}
                           \/ asked' = (asked \ {r}) \cup {Refusal(r)}
    BY <1>7 DEF Worker!Serve, Worker!Answer, Worker!Refusal, Worker!Brings, Answer, Refusal, Brings
  <2>2. PICK s : asked' = (asked \ {r}) \cup {s} /\ Twin(s, r)
    BY <1>1, <2>1, AnswerAsks
  <2> QED BY <1>3, <2>2 DEF ModalHear, Twin
<1> QED BY <1>5, <1>6, <1>7, <1>8, <1>9, <1>10, <1>11, <1>12 DEF Worker!Next

LEMMA ModalKeeps ==
  ASSUME ModalInv, ModalHear, Worker!Next
  PROVE  Keeps(Worker!Work, Worker!Work')
<1>1. /\ view \in ModalViews
      /\ SoleWork /\ \A p \in asked : Asks(p)
  BY ModalPlain DEF ModalInv, ModalAgrees, Solo, SoleWork
<1>2. CASE \E tab \in Worker!Tabs : Worker!ActiveTab(tab)
  <2>1. PICK tab \in Worker!Tabs : Worker!ActiveTab(tab)
    BY <1>2
  <2>2. PICK q \in asked' : q.heard /\ q.list = tab
    <3> DEFINE q == [Request("load", tab, Gone, Gone, Gone) EXCEPT
                       !.alone = ({r \in Worker!Unheard : r.op # "load"} = {})]
    <3>1. q \in asked'
      BY <2>1 DEF Worker!ActiveTab, Worker!Add, Worker!Request, Request
    <3>2. q.heard /\ q.list = tab
      BY DEF Request
    <3> HIDE DEF q
    <3> QED BY <3>1, <3>2
  <2>3. q \notin asked
    BY <2>1, <2>2 DEF ModalHear, Worker!ActiveTab
  <2> QED BY <2>3 DEF Keeps
<1>3. CASE \/ \E form \in Worker!Forms : Worker!SetLimit(form)
           \/ Worker!OpenForm(Gone) \/ \E s \in Schedules : Worker!OpenForm(s) \/ Worker!OpenDelete(s)
           \/ Worker!CloseDialog \/ Worker!TypeForm \/ Worker!LogWritten
  BY <1>3, KeepsStill DEF Worker!SetLimit, Worker!OpenForm, Worker!OpenDelete, Worker!CloseDialog,
     Worker!TypeForm, Worker!LogWritten
<1>4. CASE Worker!PrefsLoaded
  BY <1>4, KeepsLanded DEF Worker!PrefsLoaded, Worker!Answers, Worker!Land, LoadOps
<1>5. CASE \/ Worker!NobodyHears({"limits", "update", "create", "delete", "reorder", "fetch"})
           \/ Worker!Serve(Worker!Effect, Worker!Accepts)
  <2>1. UNCHANGED <<dialog, view>>
    BY <1>5 DEF Worker!NobodyHears, Worker!Serve
  <2> QED BY <2>1, KeepsSame DEF Worker!Work
<1>6. CASE \/ Worker!LimitsSaved \/ \E form \in Worker!Forms : Worker!HandleSaveLimits(form)
           \/ Worker!SchedulesLoaded \/ Worker!Save \/ Worker!RemoveSchedule \/ Worker!ScheduleRefused
  <2>1. dialog' = dialog
    BY <1>6 DEF Worker!LimitsSaved, Worker!HandleSaveLimits, Worker!SchedulesLoaded, Worker!Loaded,
       Worker!Save, Worker!RemoveSchedule, Worker!ScheduleRefused
  <2>2. \/ \E x : view' = [view EXCEPT !.saving = x]
        \/ \E x : view' = [view EXCEPT !.loading = x]
        \/ \E x : view' = [view EXCEPT !.savingSchedule = x]
        \/ \E x : view' = [view EXCEPT !.deleting = x]
    BY <1>6 DEF Worker!LimitsSaved, Worker!HandleSaveLimits, Worker!SchedulesLoaded, Worker!Loaded,
       Worker!Save, Worker!RemoveSchedule, Worker!ScheduleRefused
  <2>3. view'.rest = view.rest /\ view'.form = view.form
    BY <1>1, <2>2 DEF ModalViews
  <2> QED BY <2>1, <2>3, KeepsSame DEF Worker!Work
<1>7. CASE \/ Worker!Reorder \/ Worker!Reordered \/ Worker!ReorderRefused \/ Worker!Refresh
           \/ \E level \in Worker!Levels : Worker!ToggleLevel(level)
           \/ Worker!LogsFetched \/ Worker!LogsRefused
  <2>1. dialog' = dialog
    BY <1>7 DEF Worker!Reorder, Worker!Reordered, Worker!ReorderRefused, Worker!Refresh,
       Worker!ToggleLevel, Worker!Fetch, Worker!LogsFetched, Worker!LogsRefused
  <2>2. \/ \E x : view' = [view EXCEPT !.reordering = x]
        \/ view' = [view EXCEPT !.reordering = FALSE, !.loading = TRUE]
        \/ \E x, y : view' = [view EXCEPT !.loading = TRUE, !.filter = x, !.lastKnown = y]
        \/ \E x : view' = [view EXCEPT !.loading = FALSE, !.lastKnown = x]
        \/ view' = [view EXCEPT !.loading = FALSE]
    BY <1>7 DEF Worker!Reorder, Worker!Reordered, Worker!ReorderRefused, Worker!Refresh,
       Worker!ToggleLevel, Worker!Fetch, Worker!LogsFetched, Worker!LogsRefused
  <2>3. view'.rest = view.rest /\ view'.form = view.form
    BY <1>1, <2>2 DEF ModalViews
  <2> QED BY <2>1, <2>3, KeepsSame DEF Worker!Work
<1>8. CASE Worker!ScheduleChanged
  <2>1. PICK r \in asked : r.state = "done" /\ Worker!Reload(asked \ {r})
    BY <1>8 DEF Worker!ScheduleChanged, Worker!Answers
  <2>2. \A p \in asked \ {r} : [p EXCEPT !.alone = FALSE] \in asked'
    BY <2>1 DEF Worker!Reload, Worker!Add
  <2> QED BY <1>1, <2>1, <2>2, KeepsAsked
<1> QED BY <1>2, <1>3, <1>4, <1>5, <1>6, <1>7, <1>8 DEF Worker!Next

\* The edits of TorrentDetailsModal.tsx: what a patch of the page asks for, and all
\* it drops, are look-ups of a category.
LEMMA EditPatched ==
  ASSUME NEW part, NEW value, NEW others \in SUBSET asked, NEW v, Editing!Patch(part, value, others, v)
  PROVE  /\ \A p \in others : p \in asked' \/ p.op = "categories"
         /\ \A p \in asked' : p \in asked \/ p.op = "categories"
<1>1. \A category : \A p \in Editing!LookUp(category) : p.op = "categories"
  BY DEF Editing!LookUp, Editing!Request
<1>2. \/ asked' = others
      \/ \E category : asked' = {p \in others : p.op # "categories"} \cup Editing!LookUp(category)
  BY DEF Editing!Patch
<1> QED BY <1>1, <1>2

\* One more request beside the others.
LEMMA EditAsked ==
  ASSUME EditInv, SoleWork, NEW op, NEW list, NEW on, NEW to, NEW saw,
         Editing!AskSeeing(op, list, on, to, saw), NEW w, NEW v
  PROVE  SoleWork' /\ Keeps(w, v)
<1>1. \A p \in asked : Asks(p)
  BY EditPlain
<1>2. asked' = Add(asked, Request(op, list, on, to, saw))
  BY DEF Editing!AskSeeing, Editing!Add, Editing!Request, Add, Request
<1>3. SoleWork'
  BY <1>1, <1>2, SoleJoins
<1>4. \A p \in asked : [p EXCEPT !.alone = FALSE] \in asked'
  BY <1>2 DEF Add
<1> QED BY <1>1, <1>3, <1>4, KeepsAsked

\* A patch with what was done, or found out, for a request.
LEMMA EditTaken ==
  ASSUME EditInv, SoleWork, NEW part, NEW value, NEW r \in asked, NEW u,
         Editing!Patch(part, value, asked \ {r}, u), NEW w, NEW v
  PROVE  SoleWork' /\ (r.state = "done" => Keeps(w, v))
<1>1. /\ \A p \in asked \ {r} : p \in asked' \/ p.op = "categories"
      /\ \A p \in asked' : p \in asked \/ p.op = "categories"
  BY EditPatched
<1>2. SoleWork'
  BY <1>1, SoleStays DEF LoadOps
<1>3. CASE r.state = "done"
  BY <1>1, <1>2, <1>3, KeepsTaken DEF LoadOps
<1> QED BY <1>2, <1>3

\* A field is left: what is sent is what was typed.
LEMMA FieldLeft ==
  ASSUME EditInv, SoleWork, NEW field \in {"name", "path"}, NEW draft, Editing!Leave(field, draft),
         NEW w, NEW v
  PROVE  SoleWork' /\ Keeps(w, v)
<1>1. CASE asked' = asked
  BY <1>1, KeepsStill DEF SoleWork
<1>2. CASE \E op, list, on, to : Editing!AskSeeing(op, list, on, to, Gone)
  BY <1>2, EditAsked
<1>3. \/ asked' = asked
      \/ Editing!Ask("metadata", "metadata", "name", view.name.draft)
      \/ Editing!Ask("path", "task", "path", view.path.draft)
  BY DEF Editing!Leave, Editing!Look
<1> QED BY <1>1, <1>2, <1>3 DEF Editing!Ask

\* Only what hangs in the header is heard of in another tab.
LEMMA TabSoleWork ==
  ASSUME EditInv, SoleWork, NEW tab, Editing!ActiveTab(tab) PROVE SoleWork'
<1> DEFINE after(r) == [r EXCEPT !.heard = r.on = "name"]
<1>1. \A p \in Editing!LookUp(shown.task.category) : p.op = "categories"
  BY DEF Editing!LookUp, Editing!Request
<1>2. \A p \in asked' : p.op = "categories" \/ \E r \in asked : p = after(r)
  BY <1>1 DEF Editing!ActiveTab
<1>3. \A r \in asked : after(r).op = r.op /\ after(r).alone = r.alone
  <2> SUFFICES ASSUME NEW r \in asked PROVE after(r).op = r.op /\ after(r).alone = r.alone
    OBVIOUS
  <2> DEFINE h == r.on = "name"
  <2>1. Asks(r) /\ h \in BOOLEAN
    BY EditPlain
  <2> HIDE DEF h
  <2>2. [r EXCEPT !.heard = h].op = r.op /\ [r EXCEPT !.heard = h].alone = r.alone
    BY <2>1, HeardAsks
  <2> QED BY <2>2 DEF h
<1> HIDE DEF after
<1> QED BY <1>2, <1>3 DEF SoleWork, LoadOps

\* The card numbers its choices anew.
LEMMA CardSoleWork ==
  ASSUME EditInv, NEW op, NEW value, NEW previous, Editing!ChangeCard(op, value, previous)
  PROVE  SoleWork'
<1> DEFINE older(r) == IF r.op = op /\ r.heard THEN [r EXCEPT !.to = <<"older", r.to[2], r.to[3]>>] ELSE r
           others == {older(r) : r \in asked}
           to == <<"latest", value, previous>>
           list == "task"
<1>1. asked' = Add(others, Request(op, list, op, to, Gone))
  BY DEF Editing!ChangeCard, Editing!Older, Editing!Add, Editing!Request, Add, Request
<1>2. \A r \in asked : Asks(older(r))
  <2> SUFFICES ASSUME NEW r \in asked PROVE Asks(older(r))
    OBVIOUS
  <2> DEFINE aim == <<"older", r.to[2], r.to[3]>>
  <2>1. older(r) = IF r.op = op /\ r.heard THEN [r EXCEPT !.to = aim] ELSE r
    OBVIOUS
  <2> HIDE DEF aim, older
  <2>2. Asks(r)
    BY EditPlain
  <2>3. Asks([r EXCEPT !.to = aim])
    BY <2>2, AimAsks
  <2> QED BY <2>1, <2>2, <2>3
<1>3. \A p \in others : Asks(p)
  <2> HIDE DEF older
  <2> QED BY <1>2
<1> HIDE DEF others, older, to, list
<1> QED BY <1>1, <1>3, SoleJoins

LEMMA EditKeeps ==
  ASSUME EditInv, SoleWork, Editing!Next
  PROVE  SoleWork' /\ Editing!FailuresKeepWork
<1> DEFINE Goal == SoleWork' /\ (view'.tab # view.tab \/ Keeps(Editing!Work, Editing!Work'))
<1>1. SUFFICES Goal
  BY DEF Editing!FailuresKeepWork, Editing!Keeps, Editing!LoadOps, Keeps, LoadOps
<1>2. /\ view \in EditViews /\ view.name \in EditFields /\ view.path \in EditFields
      /\ \A p \in asked : Asks(p)
  BY EditPlain DEF EditViews
<1>3. CASE \E tab \in {"overview", "files", "image"} : Editing!ActiveTab(tab)
  <2>1. PICK tab : Editing!ActiveTab(tab)
    BY <1>3
  <2>2. view'.tab # view.tab
    BY <2>1 DEF Editing!ActiveTab, Editing!Fresh
  <2> QED BY <2>1, <2>2, TabSoleWork
<1>4. CASE \/ \E field \in Editing!Fields : Editing!Focus(field) \/ Editing!Type(field)
           \/ Editing!FlashOver \/ Editing!ClearSelected
           \/ Editing!MouseDown \/ Editing!MouseMove \/ Editing!MouseLeave
  <2>1. asked' = asked
    BY <1>4 DEF Editing!Focus, Editing!Type, Editing!FlashOver, Editing!ClearSelected,
       Editing!MouseDown, Editing!MouseMove, Editing!MouseLeave, Editing!Look
  <2> QED BY <2>1, KeepsStill DEF SoleWork
<1>5. CASE \E field \in Editing!Fields : Editing!Escape(field) \/ Editing!Commit(field)
  <2>1. PICK field \in {"name", "path"} : \E draft : Editing!Leave(field, draft)
    BY <1>5 DEF Editing!Fields, Editing!Escape, Editing!Commit
  <2> QED BY <2>1, FieldLeft
<1>6. CASE \/ Editing!HandleFileSelect \/ Editing!HandleDeleteImage
           \/ Editing!MouseUp \/ Editing!HandleBrightnessChange
  <2>1. CASE asked' = asked
    BY <2>1, KeepsStill DEF SoleWork
  <2>2. CASE \E op, list, on, to, saw : Editing!AskSeeing(op, list, on, to, saw)
    BY <2>2, EditAsked
  <2>3. CASE Editing!HandleFileSelect
    BY <2>2, <2>3 DEF Editing!HandleFileSelect, Editing!Ask
  <2>4. CASE Editing!HandleDeleteImage
    BY <2>2, <2>4 DEF Editing!HandleDeleteImage, Editing!AskPatching
  <2>5. CASE \E field, value, v : Editing!Send(field, value, v)
    <3>1. PICK field, value, v : Editing!Send(field, value, v)
      BY <2>5
    <3>2. asked' = asked \/ Editing!Ask("metadata", "metadata", field, value)
      BY <3>1 DEF Editing!Send
    <3> QED BY <2>1, <2>2, <3>2 DEF Editing!Ask
  <2>6. CASE Editing!MouseUp
    BY <2>5, <2>6 DEF Editing!MouseUp
  <2>7. CASE Editing!HandleBrightnessChange
    BY <2>5, <2>7 DEF Editing!HandleBrightnessChange
  <2> QED BY <1>6, <2>3, <2>4, <2>6, <2>7
<1>7. CASE \/ Editing!CategoryChanged \/ Editing!Uploaded \/ Editing!ImageDeleted \/ Editing!ShadeSaved
  <2>1. ASSUME NEW part, NEW value, NEW r \in asked, NEW u, Editing!Patch(part, value, asked \ {r}, u),
               r.state = "done"
        PROVE  Goal
    BY <2>1, EditTaken
  <2> HIDE DEF Goal
  <2>2. CASE Editing!CategoryChanged
    BY <2>1, <2>2 DEF Editing!CategoryChanged
  <2>3. CASE Editing!Uploaded
    BY <2>1, <2>3 DEF Editing!Uploaded
  <2>4. CASE Editing!ImageDeleted
    BY <2>1, <2>4 DEF Editing!ImageDeleted
  <2>5. CASE Editing!ShadeSaved
    BY <2>1, <2>5 DEF Editing!ShadeSaved
  <2> QED BY <1>7, <2>2, <2>3, <2>4, <2>5
<1>8. ASSUME UNCHANGED dialog, view'.name.draft = view.name.draft, view'.path.draft = view.path.draft
      PROVE  Keeps(Editing!Work, Editing!Work')
  BY <1>8, KeepsSame DEF Editing!Work
<1>9. CASE Editing!NameSaved
  <2>1. PICK r \in asked : /\ r.state = "done" =>
                                \E u : Editing!Patch("metadata", r.saw, asked \ {r}, u)
                           /\ r.state # "done" => /\ view' = [view EXCEPT !.name.state = "saved"]
                                                  /\ asked' = asked \ {r} /\ dialog' = dialog
    BY <1>9 DEF Editing!NameSaved, Editing!Land
  <2>2. CASE r.state = "done"
    BY <2>1, <2>2, EditTaken
  <2>3. CASE r.state # "done"
    <3>1. SoleWork'
      BY <2>1, <2>3 DEF SoleWork
    <3>2. view'.name.draft = view.name.draft /\ view'.path.draft = view.path.draft
      BY <1>2, <2>1, <2>3 DEF EditViews, EditFields
    <3> QED BY <1>8, <2>1, <2>3, <3>1, <3>2
  <2> QED BY <2>2, <2>3
<1>10. CASE Editing!TagsChanged
  <2>1. PICK r \in asked : \E value, state : Editing!Patch("task", value, asked \ {r}, Editing!Card(r, state))
    BY <1>10 DEF Editing!TagsChanged
  <2>2. PICK value, state : Editing!Patch("task", value, asked \ {r}, Editing!Card(r, state))
    BY <2>1
  <2>3. SoleWork'
    BY <2>2, EditTaken
  <2>4. dialog' = dialog /\ shown'.metadata = shown.metadata
    BY <2>2, EditPlain DEF Editing!Patch, EditLists
  <2> DEFINE v == Editing!Card(r, state)
  <2>5. /\ v.name = view.name /\ v.path = view.path
        /\ \E x, y : v = [view EXCEPT !.card = x] \/ v = view
    BY <1>2 DEF Editing!Card, EditViews
  <2>6. DOMAIN v = DOMAIN view
    BY <2>5
  <2>7. \E x, y : view' = [v EXCEPT !.tags = x, !.category = y, !.name.draft = v.name.draft]
    BY <2>2, <2>4 DEF Editing!Patch
  <2> HIDE DEF v
  <2>8. view'.name.draft = view.name.draft /\ view'.path.draft = view.path.draft
    BY <1>2, <2>5, <2>6, <2>7 DEF EditViews, EditFields
  <2> QED BY <1>8, <2>3, <2>4, <2>8
<1>11. CASE \/ \E category \in Labels \cup {Gone} : Editing!HandleCategoryChange(category)
            \/ \E tags \in Editing!Shades : Editing!HandleTagsChange(tags)
  <2>1. PICK op, value, previous : Editing!ChangeCard(op, value, previous)
    BY <1>11 DEF Editing!HandleCategoryChange, Editing!HandleTagsChange
  <2>2. SoleWork'
    BY <2>1, CardSoleWork
  <2>3. dialog' = dialog
    BY <2>1 DEF Editing!ChangeCard
  <2>4. \E x : \/ view' = [view EXCEPT !.category = x, !.card = "saving"]
               \/ view' = [view EXCEPT !.tags = x, !.card = "saving"]
    BY <1>11 DEF Editing!HandleCategoryChange, Editing!HandleTagsChange
  <2>5. view'.name.draft = view.name.draft /\ view'.path.draft = view.path.draft
    BY <1>2, <2>4 DEF EditViews
  <2> QED BY <1>8, <2>2, <2>3, <2>5
<1>12. CASE \/ Editing!CategoriesAnswered \/ Editing!PathSaved \/ Editing!Stale \/ Editing!CategoryRefused
            \/ Editing!UploadRefused \/ Editing!DeleteRefused \/ Editing!ShadeRefused
  <2>1. asked' \subseteq asked /\ dialog' = dialog
    BY <1>12 DEF Editing!CategoriesAnswered, Editing!PathSaved, Editing!Stale, Editing!CategoryRefused,
       Editing!UploadRefused, Editing!DeleteRefused, Editing!ShadeRefused, Editing!Land
  <2>2. SoleWork'
    BY <2>1, SoleStays
  <2>3. \/ view' = view \/ view' = [view EXCEPT !.path.state = "saved"]
        \/ \E x : view' = [view EXCEPT !.category = x] \/ view' = [view EXCEPT !.category = x, !.card = "error"]
        \/ view' = [view EXCEPT !.deleting = FALSE]
        \/ \E x : view' = [view EXCEPT !.preview = x, !.selected = FALSE, !.uploading = FALSE]
    BY <1>12 DEF Editing!CategoriesAnswered, Editing!PathSaved, Editing!Stale, Editing!CategoryRefused,
       Editing!UploadRefused, Editing!DeleteRefused, Editing!ShadeRefused
  <2>4. CASE view' = [view EXCEPT !.path.state = "saved"]
    <3>1. view'.name = view.name /\ view'.path = [view.path EXCEPT !.state = "saved"]
      BY <1>2, <2>4 DEF EditViews
    <3>2. view'.path.draft = view.path.draft
      BY <1>2, <3>1 DEF EditFields
    <3> QED BY <1>8, <2>1, <2>2, <3>1, <3>2
  <2>5. CASE view' # [view EXCEPT !.path.state = "saved"]
    <3>1. view'.name = view.name /\ view'.path = view.path
      BY <1>2, <2>3, <2>5 DEF EditViews
    <3> QED BY <1>8, <2>1, <2>2, <3>1
  <2> QED BY <2>4, <2>5
<1>13. CASE Editing!Serve(Editing!Effect, Editing!Accepts)
  <2>1. PICK r \in asked : \/ asked' = (asked \ {r}) \cup {Answer(r)}
                           \/ asked' = (asked \ {r}) \cup {Refusal(r)}
    BY <1>13 DEF Editing!Serve, Editing!Answer, Editing!Refusal, Editing!Brings, Answer, Refusal, Brings
  <2>2. UNCHANGED <<dialog, view>>
    BY <1>13 DEF Editing!Serve
  <2> QED BY <1>2, <1>8, <2>1, <2>2, SoleAnswered
<1> HIDE DEF Goal
<1> QED BY <1>3, <1>4, <1>5, <1>6, <1>7, <1>9, <1>10, <1>11, <1>12, <1>13 DEF Editing!Next

\* What the invariants of these pages leave open: settings and edits are loaded
\* again beside what is under way; of the tabs of a worker only the one on screen
\* hears.
WorkHolds ==
  /\ page \in {"settings", "editing"} => SoleWork
  /\ page = "worker" => ModalHear

LEMMA WorkAlways == Spec => []WorkHolds
<1>1. ASSUME Init PROVE WorkHolds
  <2>1. CASE page = "settings"
    <3>1. SettingsPage!Init
      BY <1>1, <2>1 DEF Init
    <3>2. \A r \in asked : r.op \in LoadOps
      BY <3>1 DEF SettingsPage!Init, SettingsPage!SettingsLoads, SettingsPage!Request, LoadOps
    <3> QED BY <2>1, <3>2 DEF WorkHolds, SoleWork
  <2>2. CASE page = "editing"
    <3>1. Editing!Init
      BY <1>1, <2>2 DEF Init
    <3>2. \A r \in asked : r.op \in LoadOps
      BY <3>1 DEF Editing!Init, Editing!LookUp, Editing!Request, LoadOps
    <3> QED BY <2>2, <3>2 DEF WorkHolds, SoleWork
  <2>3. CASE page = "worker"
    <3>1. Worker!Init
      BY <1>1, <2>3 DEF Init
    <3>2. PICK tab \in Worker!Tabs : view = Worker!Fresh(tab) /\ Worker!Mounted(tab)
      BY <3>1 DEF Worker!Init
    <3>3. view.tab = tab /\ \A r \in asked : r.list = tab
      BY <3>2 DEF Worker!Fresh, Worker!Mounted, Worker!Request
    <3> QED BY <2>3, <3>3 DEF WorkHolds, ModalHear
  <2> QED BY <2>1, <2>2, <2>3 DEF WorkHolds
<1>2. ASSUME ClientInv, WorkHolds, [Next]_vars PROVE WorkHolds'
  <2>1. CASE UNCHANGED vars
    <3>1. asked' = asked /\ view' = view /\ page' = page
      BY <2>1 DEF vars, pageVars
    <3> QED BY <1>2, <3>1 DEF WorkHolds, SoleWork, ModalHear
  <2>2. CASE Next
    <3>1. page' = page
      BY <2>2 DEF Next
    <3>2. CASE page = "settings"
      <4>1. SettingsPage!Next /\ SettingsInv /\ SoleWork
        BY <1>2, <2>2, <3>2 DEF Next, ClientInv, SettingsHold, WorkHolds
      <4>2. SoleWork'
        BY <4>1, SettingsSoleWork
      <4> QED BY <3>1, <3>2, <4>2 DEF WorkHolds
    <3>3. CASE page = "editing"
      <4>1. Editing!Next /\ EditInv /\ SoleWork
        BY <1>2, <2>2, <3>3 DEF Next, ClientInv, EditHolds, WorkHolds
      <4>2. SoleWork'
        BY <4>1, EditKeeps
      <4> QED BY <3>1, <3>3, <4>2 DEF WorkHolds
    <3>4. CASE page = "worker"
      <4>1. Worker!Next /\ ModalInv /\ ModalHear
        BY <1>2, <2>2, <3>4 DEF Next, ClientInv, ModalHolds, WorkHolds
      <4>2. ModalHear'
        BY <4>1, ModalHears
      <4> QED BY <3>1, <3>4, <4>2 DEF WorkHolds
    <3> QED BY <3>1, <3>2, <3>3, <3>4 DEF WorkHolds
  <2> QED BY <1>2, <2>1, <2>2
<1> QED BY <1>1, <1>2, ClientAlways, PTL DEF Spec

\* A refused request costs the user nothing, on any page, whatever else is under
\* way: open dialogs, and what was typed, chosen or gathered, stay as they are
\* (the handlers of the pages close and reset only after "ok").
THEOREM FailuresKeepWorkCorrect == Spec => FailuresKeepWork
<1> DEFINE Kept ==
      /\ page = "users" => Keeps(UsersPage!Work, UsersPage!Work')
      /\ page = "tags" => Keeps(TagsPage!Work, TagsPage!Work')
      /\ page = "categories" => Keeps(CategoriesPage!Work, CategoriesPage!Work')
      /\ page = "workers" => Keeps(WorkersPage!Work, WorkersPage!Work')
      /\ page = "torrents" => TorrentsPage!FailuresKeepWork
      /\ page = "form" => Form!FailuresKeepWork
      /\ page = "tabs" => Keeps(Tabs!Work, Tabs!Work')
      /\ page = "editing" => Editing!FailuresKeepWork
      /\ page = "limits" => Keeps(Limits!Work, Limits!Work')
      /\ page = "worker" => Keeps(Worker!Work, Worker!Work')
      /\ page = "settings" => Keeps(SettingsPage!Work, SettingsPage!Work')
      /\ page = "profile" => Keeps(Profile!Work, Profile!Work')
<1>1. ASSUME ClientInv, WorkHolds, Next PROVE Kept
  <2>1. page = "users" => Keeps(UsersPage!Work, UsersPage!Work')
    BY <1>1, UsersKeep DEF Next, ClientInv, UsersHold
  <2>2. page = "tags" => Keeps(TagsPage!Work, TagsPage!Work')
    BY <1>1, TagsKeep DEF Next, ClientInv, TagsHold
  <2>3. page = "categories" => Keeps(CategoriesPage!Work, CategoriesPage!Work')
    BY <1>1, CategoriesKeep DEF Next, ClientInv, CategoriesHold
  <2>4. page = "workers" => Keeps(WorkersPage!Work, WorkersPage!Work')
    BY <1>1, WorkersKeep DEF Next, ClientInv, WorkersHold
  <2>5. page = "torrents" => TorrentsPage!FailuresKeepWork
    BY <1>1, ListKeeps DEF Next, ClientInv, ListHolds
  <2>6. page = "form" => Form!FailuresKeepWork
    BY <1>1, FormKeeps DEF Next, ClientInv, FormsHold
  <2>7. page = "tabs" => Keeps(Tabs!Work, Tabs!Work')
    BY <1>1, TabsKeep DEF Next, ClientInv, TabListsHold
  <2>8. page = "editing" => Editing!FailuresKeepWork
    BY <1>1, EditKeeps DEF Next, ClientInv, EditHolds, WorkHolds
  <2>9. page = "limits" => Keeps(Limits!Work, Limits!Work')
    BY <1>1, LimitsKeep DEF Next, ClientInv, LimitsHold
  <2>10. page = "worker" => Keeps(Worker!Work, Worker!Work')
    BY <1>1, ModalKeeps DEF Next, ClientInv, ModalHolds, WorkHolds
  <2>11. page = "settings" => Keeps(SettingsPage!Work, SettingsPage!Work')
    BY <1>1, SettingsKeep DEF Next, ClientInv, SettingsHold, WorkHolds
  <2>12. page = "profile" => Keeps(Profile!Work, Profile!Work')
    BY <1>1, ProfileKeeps DEF Next, ClientInv, ProfileHolds
  <2> QED BY <2>1, <2>2, <2>3, <2>4, <2>5, <2>6, <2>7, <2>8, <2>9, <2>10, <2>11, <2>12
<1> HIDE DEF Kept
<1>2. ClientInv /\ WorkHolds /\ [Next]_vars => [Kept]_vars
  BY <1>1
<1>3. Spec => [][Kept]_vars
  BY <1>2, ClientAlways, WorkAlways, PTL DEF Spec
<1> QED BY <1>3 DEF Kept, FailuresKeepWork

=============================================================================
