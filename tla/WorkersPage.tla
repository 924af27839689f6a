---------------------------- MODULE WorkersPage ----------------------------
(***************************************************************************)
(* Workers.tsx, AddWorkerModal.tsx and WorkerDetailsModal.tsx.  Handlers   *)
(* patch the list that is current, not the one they closed over, and every *)
(* change aborts the load under way, whose answer would be older.  The     *)
(* page's list has the rows of each worker, none, one or several; the      *)
(* order among workers is left out.                                        *)
(***************************************************************************)
EXTENDS WebPage

CONSTANTS Workers, Nobody

Forms == {"plain", "edited"}

\* view: [loading: nothing to show yet, refreshing, creating, form,
\* details: the worker the details dialog shows, detailsLoading, twice: (history)
\* a creation was sent beside a load, and no list has replaced the page's since]
Init ==
  /\ \E fresh \in Workers :
       server = [workers |-> [w \in Workers |-> IF w = fresh THEN Gone ELSE "plain"]]
  /\ shown = [workers |-> [w \in Workers |-> <<>>]]
  /\ view = [loading |-> TRUE, refreshing |-> TRUE, creating |-> FALSE, form |-> "plain",
             details |-> Nobody, detailsLoading |-> FALSE, twice |-> FALSE]
  /\ Mounted("workers")

-----------------------------------------------------------------------------
Rows == {w \in Workers : shown.workers[w] # <<>>}
Visible == ~view.loading /\ Rows # {}
On(is) == Visible /\ Top.is = is

\* listRequest.current?.abort(): nobody hears of the answer.
NoLoad == {r \in asked : r.op # "load"}

\* A loaded list has a row for each worker the backend holds.
Listed(list) == [w \in Workers |-> IF list[w] = Gone THEN <<>> ELSE <<list[w]>>]

LoadWorkers ==
  /\ dialog = Closed /\ ~view.refreshing
  /\ sent < MaxSent /\ sent' = sent + 1
  /\ asked' = Add(NoLoad, Request("load", "workers", Gone, Gone, Gone))
  /\ view' = [view EXCEPT !.refreshing = TRUE]
  /\ UNCHANGED <<server, shown, dialog, apart>>

WorkersLoaded ==
  /\ \E r \in Answers("load", "done") \cup Answers("load", "refused") :
       /\ shown' = IF r.state = "done" THEN [shown EXCEPT !.workers = Listed(r.saw)] ELSE shown
       /\ Land(r)
       /\ view' = [view EXCEPT !.loading = FALSE, !.refreshing = FALSE,
                               !.twice = @ /\ (r.state = "refused" \/ Waiting("create"))]
  /\ UNCHANGED <<server, dialog>>

\* Mistake: the load under way goes on.
PatchOnly(r, list) ==
  /\ asked' = asked \ {r}
  /\ shown' = [shown EXCEPT !.workers = list]
  /\ UNCHANGED <<server, apart, sent>>

\* A change whose answer is good aborts the load and patches the current list.
Patch(r, list) ==
  /\ asked' = NoLoad \ {r}
  /\ shown' = [shown EXCEPT !.workers = list]
  /\ UNCHANGED <<server, apart, sent>>

\* Only two updates of one worker can leave the wrong one of them in the list.
AskChange(op, w, to) ==
  /\ Cardinality(asked) < MaxAsked /\ sent < MaxSent
  /\ asked' = Add(asked, Request(op, "workers", w, to, Gone))
  /\ sent' = sent + 1
  /\ apart' = IF \E r \in asked : r.op = op /\ r.on = w THEN {"workers"} ELSE apart

-----------------------------------------------------------------------------
OpenAdd ==
  /\ dialog = Closed \/ ~Visible
  /\ Top.is # "add"
  /\ dialog' = Over(Dialog("add", Nobody))
  /\ UNCHANGED <<server, shown, asked, view, apart, sent>>

CreateWorker ==
  /\ Top.is = "add" /\ ~view.creating
  /\ \E w \in Workers : \* an id of its own
       /\ server.workers[w] = Gone /\ w \notin Rows /\ \A r \in asked : r.on # w
       /\ AskChange("create", w, "plain")
  /\ view' = [view EXCEPT !.creating = TRUE, !.twice = @ \/ Waiting("load")]
  /\ UNCHANGED <<server, shown, dialog>>

\* Appended as it comes: a load that was served after the creation may have
\* brought the worker before.
WorkerCreated ==
  /\ \E r \in Answers("create", "done") : Patch(r, [shown.workers EXCEPT ![r.on] = Append(@, r.to)])
  /\ view' = [view EXCEPT !.creating = FALSE, !.refreshing = FALSE]
  /\ dialog' = Without({"add"})

\* Mistake: the dialog closes however its request ended.
CreateRefusedClosing ==
  /\ \E r \in Answers("create", "refused") : Land(r)
  /\ view' = [view EXCEPT !.creating = FALSE]
  /\ dialog' = Without({"add"})
  /\ UNCHANGED <<server, shown>>

CreateRefused ==
  /\ \E r \in Answers("create", "refused") : Land(r)
  /\ view' = [view EXCEPT !.creating = FALSE]
  /\ UNCHANGED <<server, shown, dialog>>

-----------------------------------------------------------------------------
\* The details stand at once as the list has them, and are checked behind.
ShowDetails(w) ==
  /\ Visible /\ dialog = Closed /\ w \in Rows
  /\ Ask("details", "none", w, Gone)
  /\ dialog' = Over(Dialog("details", w))
  /\ view' = [view EXCEPT !.details = w, !.detailsLoading = TRUE]
  /\ UNCHANGED <<server, shown>>

\* Whichever worker the answer is about, and whichever dialog is open: a
\* refusal shows it with an error.
DetailsAnswered ==
  /\ \E r \in Answers("details", "done") \cup Answers("details", "refused") :
       /\ view' = [view EXCEPT !.details = r.on, !.detailsLoading = FALSE]
       /\ Land(r)
  /\ UNCHANGED <<server, shown, dialog>>

CloseDialog ==
  /\ dialog # Closed /\ (Top.is = "add" => ~view.creating) /\ (Top.is # "add" => Visible)
  /\ dialog' = CloseTop
  /\ view' = IF Top.is = "details" THEN [view EXCEPT !.details = Nobody] ELSE view
  /\ UNCHANGED <<server, shown, asked, apart, sent>>

\* The buttons of the details are about the worker they show.
OverDetails(is) ==
  /\ On("details") /\ view.details # Nobody
  /\ dialog' = Over(Dialog(is, view.details))
  /\ UNCHANGED <<server, shown, asked, apart, sent>>

ConfirmDelete == OverDetails("delete") /\ UNCHANGED view
ShowEdit == OverDetails("edit") /\ view' = [view EXCEPT !.form = "plain"]

TypeEdit ==
  /\ On("edit")
  /\ \E form \in Forms : view' = [view EXCEPT !.form = form]
  /\ UNCHANGED <<server, shown, asked, dialog, apart, sent>>

DeleteWorker ==
  /\ On("delete")
  /\ AskChange("delete", Top.on, Gone)
  /\ UNCHANGED <<server, shown, dialog, view>>

UpdateWorker ==
  /\ On("edit") /\ view.form # "plain"
  /\ AskChange("update", Top.on, view.form)
  /\ UNCHANGED <<server, shown, dialog, view>>

\* Both close their own dialog and the details with it.
Finished(is) ==
  /\ dialog' = Without({is, "details"})
  /\ view' = [view EXCEPT !.refreshing = FALSE, !.details = Nobody]

WorkerDeleted ==
  /\ \E r \in Answers("delete", "done") : Patch(r, [shown.workers EXCEPT ![r.on] = <<>>])
  /\ Finished("delete")

WorkerUpdated ==
  /\ \E r \in Answers("update", "done") :
       Patch(r, [shown.workers EXCEPT ![r.on] = [i \in DOMAIN @ |-> r.to]])
  /\ Finished("edit")

Effect(r) == IF r.op \in {"load", "details"} THEN server
             ELSE [server EXCEPT !.workers[r.on] = r.to]
Accepts(r) == CASE r.op \in {"update", "delete"} -> Present(r)
                [] r.op = "create" -> ~Present(r)
                [] OTHER -> TRUE

Next ==
  \/ LoadWorkers \/ WorkersLoaded
  \/ OpenAdd \/ CreateWorker \/ WorkerCreated \/ CreateRefused
  \/ \E w \in Workers : ShowDetails(w)
  \/ DetailsAnswered \/ CloseDialog \/ ConfirmDelete \/ ShowEdit \/ TypeEdit
  \/ DeleteWorker \/ UpdateWorker \/ WorkerDeleted \/ WorkerUpdated
  \/ Refused({"delete", "update"})
  \/ Serve(Effect, Accepts)

-----------------------------------------------------------------------------
Lists == [workers : [Workers -> Forms \cup {Gone}]]
Copies == [workers : [Workers -> Seq(Forms)]]
TypeOK ==
  /\ server \in Lists /\ shown \in Copies
  /\ view \in [loading : BOOLEAN, refreshing : BOOLEAN, creating : BOOLEAN, form : Forms,
               details : Workers \cup {Nobody}, detailsLoading : BOOLEAN, twice : BOOLEAN]

\* The rows of a worker, however many, show it as the backend has it; and they
\* are one at most, unless a creation was sent beside a load.
ListsShowServer ==
  /\ asked = {} /\ "workers" \notin apart => \A w \in Workers :
       {shown.workers[w][i] : i \in DOMAIN shown.workers[w]} = {server.workers[w]} \ {Gone}
  /\ ~view.twice => \A w \in Workers : Len(shown.workers[w]) <= 1

\* "loading" is not among the spinners: a worker that is added before the first
\* list arrived aborts the load that would end it.
SpinnersHaveRequests ==
  /\ view.refreshing => Waiting("load")
  /\ view.creating => Waiting("create")
  /\ view.detailsLoading => Waiting("details")
Work == <<dialog, view.form>>

=============================================================================
