--------------------------- MODULE CategoriesPage ---------------------------
(***************************************************************************)
(* Categories.tsx and AddCategoryModal.tsx: a list that handlers patch, and *)
(* a form that asks for the workers whenever it opens.  A category is its  *)
(* preferred worker and the rest of its form.  An answer with workers      *)
(* counts only for the opening that asked for it (workerRequestId).        *)
(***************************************************************************)
EXTENDS WebPage

CONSTANTS Categories, Workers, NoWorker

Rests == {"plain", "typed"}
Blank == [worker |-> NoWorker, rest |-> "plain"]

\* view: [loading, form, workersLoading, workersLoadFailed, workers: listed in the form]
Init ==
  /\ \E fresh \in Categories :
       server = [categories |-> [c \in Categories |-> IF c = fresh THEN Gone ELSE Blank]]
  /\ shown = [categories |-> [c \in Categories |-> Gone]]
  /\ view = [loading |-> TRUE, form |-> Blank, workersLoading |-> FALSE, workersLoadFailed |-> FALSE,
             workers |-> {}]
  /\ Mounted("categories")

-----------------------------------------------------------------------------
Rows == {c \in Categories : shown.categories[c] # Gone}
Visible == ~view.loading /\ Rows # {}

LoadCategories == dialog = Closed /\ Load("categories", "loading")
CategoriesLoaded == Loaded("categories", "loading")

\* Every opening and every closing makes the requests for workers stale.
Stale == {IF r.op = "workers" THEN [r EXCEPT !.to = "stale"] ELSE r : r \in asked}

\* Opening the form asks for the workers; so does its button after a failure.
AskWorkers(requests) ==
  /\ Cardinality(requests) < MaxAsked /\ sent < MaxSent
  /\ asked' = requests \cup {Request("workers", "none", Gone, "current", Gone)}
  /\ sent' = sent + 1

OpenForm(c) ==
  /\ dialog = Closed /\ (c = Gone \/ (Visible /\ c \in Rows))
  /\ AskWorkers(Stale)
  /\ dialog' = Over(Dialog("category", c))
  /\ view' = [view EXCEPT !.form = IF c = Gone THEN Blank ELSE shown.categories[c], !.workers = {},
                          !.workersLoading = TRUE, !.workersLoadFailed = FALSE]
  /\ UNCHANGED <<server, shown, apart>>

RetryWorkers ==
  /\ Top.is = "category" /\ view.workersLoadFailed
  /\ AskWorkers(Stale)
  /\ view' = [view EXCEPT !.workersLoading = TRUE, !.workersLoadFailed = FALSE]
  /\ UNCHANGED <<server, shown, dialog, apart>>

WorkersAnswered ==
  /\ \E r \in Answers("workers", "done") \cup Answers("workers", "refused") :
       /\ view' = IF r.to = "stale" THEN view
                  ELSE [view EXCEPT !.workersLoading = FALSE, !.workersLoadFailed = r.state = "refused",
                                    !.workers = IF r.state = "done" THEN Workers ELSE @]
       /\ Land(r)
  /\ UNCHANGED <<server, shown, dialog>>

ChooseWorker ==
  /\ Top.is = "category" /\ ~view.workersLoading /\ ~view.workersLoadFailed
  /\ \E w \in view.workers \cup {NoWorker} : view' = [view EXCEPT !.form.worker = w]
  /\ UNCHANGED <<server, shown, asked, dialog, apart, sent>>

TypeRest ==
  /\ Top.is = "category"
  /\ \E rest \in Rests : view' = [view EXCEPT !.form.rest = rest]
  /\ UNCHANGED <<server, shown, asked, dialog, apart, sent>>

\* The form goes with the dialog, by hand or after a save.
FormGone ==
  /\ dialog' = Without({"category"})
  /\ view' = [view EXCEPT !.form = Blank]

CloseForm ==
  /\ Top.is = "category" /\ FormGone
  /\ asked' = Stale
  /\ UNCHANGED <<server, shown, apart, sent>>

-----------------------------------------------------------------------------
\* Nothing keeps the button from being pressed twice.
SubmitForm ==
  /\ Top.is = "category"
  /\ IF Top.on = Gone
     THEN \E c \in Categories \ Rows : AskPatching("create", "categories", c, view.form)
     ELSE AskPatching("update", "categories", Top.on, view.form)
  /\ UNCHANGED <<server, shown, dialog, view>>

CategorySaved ==
  /\ \E r \in Answers("create", "done") \cup Answers("update", "done") :
       /\ shown' = [shown EXCEPT !.categories =
                      [c \in Categories |-> IF c = r.on /\ (r.op = "update" => r.saw[c] # Gone) THEN r.to
                                            ELSE r.saw[c]]]
       /\ asked' = Stale \ {r}
  /\ FormGone
  /\ UNCHANGED <<server, apart, sent>>

OpenDelete(c) ==
  /\ Visible /\ dialog = Closed /\ c \in Rows
  /\ dialog' = Over(Dialog("delete", c))
  /\ UNCHANGED <<server, shown, asked, view, apart, sent>>

CancelDelete ==
  /\ Visible /\ Top.is = "delete"
  /\ dialog' = CloseTop
  /\ UNCHANGED <<server, shown, asked, view, apart, sent>>

DeleteCategory ==
  /\ Visible /\ Top.is = "delete"
  /\ AskPatching("delete", "categories", Top.on, Gone)
  /\ UNCHANGED <<server, shown, dialog, view>>

CategoryDeleted ==
  /\ \E r \in Answers("delete", "done") :
       /\ shown' = [shown EXCEPT !.categories = [r.saw EXCEPT ![r.on] = Gone]]
       /\ Land(r)
  /\ dialog' = Without({"delete"})
  /\ UNCHANGED <<server, view>>

Effect(r) == IF r.op \in {"load", "workers"} THEN server
             ELSE [server EXCEPT !.categories[r.on] = r.to]
Accepts(r) == CASE r.op \in {"update", "delete"} -> Present(r)
                [] r.op = "create" -> ~Present(r)
                [] OTHER -> TRUE

Next ==
  \/ LoadCategories \/ CategoriesLoaded
  \/ \E c \in Categories : OpenForm(c) \/ OpenDelete(c)
  \/ OpenForm(Gone) \/ RetryWorkers \/ WorkersAnswered \/ ChooseWorker \/ TypeRest \/ CloseForm
  \/ SubmitForm \/ CategorySaved \/ CancelDelete \/ DeleteCategory \/ CategoryDeleted
  \/ Refused({"create", "update", "delete"})
  \/ Serve(Effect, Accepts)

-----------------------------------------------------------------------------
Forms == [worker : Workers \cup {NoWorker}, rest : Rests]
Lists == [categories : [Categories -> Forms \cup {Gone}]]
TypeOK ==
  /\ server \in Lists /\ shown \in Lists
  /\ view \in [loading : BOOLEAN, form : Forms, workersLoading : BOOLEAN, workersLoadFailed : BOOLEAN,
               workers : SUBSET Workers]

ListsShowServer == ShowsServer(DOMAIN shown)
SpinnersHaveRequests ==
  /\ view.loading => Waiting("load")
  /\ Top.is = "category" => (view.workersLoading <=> \E r \in asked : r.op = "workers" /\ r.to = "current")
Work == <<dialog, view.form>>

=============================================================================
