--------------------------- MODULE AddTorrentForm ---------------------------
(***************************************************************************)
(* The form that adds a torrent (AddTorrentModal.tsx): a magnet link or a  *)
(* file names a release; what the backend makes of that name fills in the  *)
(* display name, the category, the tags and the directory, except where    *)
(* the user has been first; the category proposes a worker.  The lists of  *)
(* workers and categories arrive beside all this.  A magnet leaves a       *)
(* placeholder on the page until its torrent is reported.                  *)
(*                                                                         *)
(* Tags and directories are known here by what they come from: a release,  *)
(* a category, or the user.                                                *)
(***************************************************************************)
EXTENDS WebPage

CONSTANTS Releases, Categories, Workers, Mine, Nothing,
          Fits,        \* of a release: its category, or Nothing
          Vague,       \* the releases whose names are parsed with low confidence
          Prefers      \* of a category: the worker it prefers, or Nothing

Fields == {"displayName", "category", "tags", "directory"}

\* view: [mode; release: of the magnet or the file; suggestion; edited: fields;
\* the fields; worker, manual: was it chosen?; workers, categories: loaded]
Blank(mode) ==
  [mode |-> mode, release |-> Nothing, suggestion |-> Nothing, edited |-> {}, displayName |-> Nothing,
   category |-> Nothing, tags |-> {}, directory |-> Nothing, worker |-> Nothing, manual |-> FALSE,
   workers |-> {}, workersLoaded |-> FALSE, categories |-> {}]

Init ==
  /\ \E active \in SUBSET Workers :
       server = [tasks |-> [r \in Releases |-> Gone], workers |-> active]
  /\ shown = [pending |-> {}]
  /\ view = Blank("magnet")
  /\ asked = {} /\ dialog = Closed /\ apart = {} /\ sent = 0

Open == dialog # Closed
Opening == {Request("load", "workers", Gone, Gone, Gone), Request("load", "categories", Gone, Gone, Gone)}
Loads == {r \in asked : r.op = "load"}
Parses == {r \in asked : r.op = "parse"}

\* The dialog opens on an empty form, cancelling earlier loads and parses.  What
\* a closed form still holds nobody sees: here it is emptied when it closes.
OpenAddModal(mode) ==
  /\ ~Open /\ sent < MaxSent
  /\ dialog' = Over([is |-> "add"])
  /\ view' = Blank(mode)
  /\ asked' = asked \cup Opening
  /\ sent' = sent + 1
  /\ UNCHANGED <<server, shown, apart>>

CloseAddModal ==
  /\ Open
  /\ dialog' = Closed
  /\ view' = Blank("magnet")
  /\ asked' = asked \ (Loads \cup Parses)
  /\ UNCHANGED <<server, shown, apart, sent>>

-----------------------------------------------------------------------------
\* The worker the category prefers, or else the first that is active; once one
\* was chosen by hand it stays.
Settled(v) ==
  IF v.manual \/ ~v.workersLoaded THEN {v}
  ELSE LET preferred == IF v.category = Nothing THEN Nothing ELSE Prefers[v.category] IN
       IF preferred # Nothing
       THEN {[v EXCEPT !.worker = IF preferred \in v.workers THEN preferred ELSE Nothing]}
       ELSE IF v.workers = {} THEN {[v EXCEPT !.worker = Nothing]}
            ELSE {[v EXCEPT !.worker = CHOOSE w \in v.workers : TRUE]}

Becomes(v) == view' \in Settled(v)
Stays == UNCHANGED <<server, shown, asked, dialog, apart, sent>>

Kept(v, f, new) == IF f \in v.edited THEN v[f] ELSE new

\* Clear what was filled in and not edited since.
ClearAutoFilledFields(v) ==
  [v EXCEPT !.suggestion = Nothing,
            !.displayName = Kept(v, "displayName", Nothing),
            !.category = Kept(v, "category", Nothing),
            !.tags = Kept(v, "tags", {}),
            !.directory = Kept(v, "directory", Nothing)]

Known(v, c) == IF c \in v.categories THEN {c} ELSE {}

\* Mistake: the tags of the category that fits replace the user's.
ApplySuggestionToTags(v, r) ==
  IF r \in Vague THEN ClearAutoFilledFields(v)
  ELSE LET match == "category" \notin v.edited /\ Fits[r] \in v.categories
           category == IF match THEN Fits[r] ELSE v.category IN
       [v EXCEPT !.suggestion = r,
                 !.displayName = Kept(v, "displayName", r),
                 !.tags = IF match THEN {Fits[r], r} ELSE Kept(v, "tags", Known(v, category) \cup {r}),
                 !.category = category,
                 !.directory = IF match THEN Kept(v, "directory", Fits[r]) ELSE @]

ApplySuggestion(v, r) ==
  IF r \in Vague THEN ClearAutoFilledFields(v)
  ELSE LET match == "category" \notin v.edited /\ Fits[r] \in v.categories
           category == IF match THEN Fits[r] ELSE v.category IN
       [v EXCEPT !.suggestion = r,
                 !.displayName = Kept(v, "displayName", r),
                 !.tags = Kept(v, "tags", Known(v, category) \cup {r}),
                 !.category = category,
                 !.directory = IF match THEN Kept(v, "directory", Fits[r]) ELSE @]

-----------------------------------------------------------------------------
\* A different release: the parse of the last one is cancelled; without one the
\* filled-in fields are cleared, with one they wait for its parse.
ChooseRelease(r) ==
  /\ Open /\ r # view.release
  /\ IF r = Nothing
     THEN /\ Becomes(ClearAutoFilledFields([view EXCEPT !.release = Nothing]))
          /\ asked' = asked \ Parses
          /\ UNCHANGED sent
     ELSE /\ sent < MaxSent
          /\ Becomes([view EXCEPT !.release = r])
          /\ asked' = (asked \ Parses) \cup {Request("parse", "tasks", r, Gone, Gone)}
          /\ sent' = sent + 1
  /\ UNCHANGED <<server, shown, dialog, apart>>

Parsed ==
  /\ \E r \in Answers("parse", "done") : Becomes(ApplySuggestion(view, r.on)) /\ Land(r)
  /\ UNCHANGED <<server, shown, dialog>>

WorkersLoaded ==
  /\ \E r \in Answers("load", "done") :
       /\ r.list = "workers"
       /\ Becomes([view EXCEPT !.workers = r.saw, !.workersLoaded = TRUE])
       /\ Land(r)
  /\ UNCHANGED <<server, shown, dialog>>

\* The categories may come after a suggestion that could not use them.
CategoriesLoaded ==
  /\ \E r \in Answers("load", "done") :
       LET v == [view EXCEPT !.categories = Categories] IN
       /\ r.list = "categories"
       /\ Becomes(IF view.suggestion = Nothing THEN v ELSE ApplySuggestion(v, view.suggestion))
       /\ Land(r)
  /\ UNCHANGED <<server, shown, dialog>>

\* listWorkers() does not throw: an error is an empty list.
LoadRefused ==
  /\ \E r \in Answers("load", "refused") :
       /\ IF r.list = "workers" THEN Becomes([view EXCEPT !.workers = {}, !.workersLoaded = TRUE])
          ELSE UNCHANGED view
       /\ Land(r)
  /\ UNCHANGED <<server, shown, dialog>>

-----------------------------------------------------------------------------
ChangeMode(mode) ==
  /\ Open /\ mode # view.mode
  /\ Becomes([Blank(mode) EXCEPT !.worker = view.worker, !.manual = view.manual, !.workers = view.workers,
                                 !.workersLoaded = view.workersLoaded, !.categories = view.categories])
  /\ asked' = asked \ Parses
  /\ UNCHANGED <<server, shown, dialog, apart, sent>>

Edit(f) ==
  /\ Open /\ f \in {"displayName", "directory"}
  /\ Becomes([view EXCEPT !.edited = @ \cup {f}, ![f] = Mine])
  /\ Stays

\* Tags are added to what is there and taken off it.
EditTags(tags) ==
  /\ Open /\ tags # view.tags
  /\ Becomes([view EXCEPT !.edited = @ \cup {"tags"}, !.tags = tags])
  /\ Stays

\* The picker of a category has loaded a list of its own.
Offered == Categories

\* A category brings its tags and its directory along, whatever was there.
\* SelectCategory.tsx only offers what it has listed or just created: the choice
\* of none, which would clear the three fields, is never made.
ChangeCategory(c) ==
  /\ Open
  /\ Becomes([view EXCEPT !.edited = @ \cup {"category"}, !.category = c, !.categories = @ \cup {c},
                          !.tags = {c} \cup ({view.suggestion} \ {Nothing}), !.directory = c])
  /\ Stays

ChangeWorker(w) ==
  /\ Open /\ w \in view.workers
  /\ Becomes([view EXCEPT !.manual = TRUE, !.worker = w])
  /\ Stays

-----------------------------------------------------------------------------
\* A worker is wanted, and the one the category prefers if none was chosen.
PreferredUnavailable ==
  /\ view.workersLoaded /\ ~view.manual /\ view.category # Nothing
  /\ Prefers[view.category] \notin view.workers \cup {Nothing}
Valid == view.release # Nothing /\ view.worker \in view.workers /\ ~PreferredUnavailable

HandleSubmit ==
  /\ Open /\ Valid
  /\ Cardinality(asked \ (Loads \cup Parses)) < MaxAsked
  /\ asked' = (asked \ (Loads \cup Parses)) \cup
       {Request("create", "tasks", view.release, [name |-> view.displayName, worker |-> view.worker], Gone)}
  /\ shown' = IF view.mode = "magnet" THEN [shown EXCEPT !.pending = @ \cup {view.release}] ELSE shown
  /\ dialog' = Closed
  /\ view' = Blank("magnet")
  /\ UNCHANGED <<server, apart, sent>>

\* A torrent that was not there before is given the display name, at the second
\* attempt if the first one fails.
Created ==
  /\ \E r \in Answers("create", "done") :
       asked' = (asked \ {r}) \cup
         IF r.saw = Gone /\ r.to.name # Nothing THEN {[r EXCEPT !.op = "rename", !.state = "asked"]} ELSE {}
  /\ UNCHANGED <<server, shown, dialog, view, apart, sent>>

CreateRefused ==
  /\ \E r \in Answers("create", "refused") :
       /\ shown' = [shown EXCEPT !.pending = @ \ {r.on}]
       /\ Land(r)
  /\ UNCHANGED <<server, dialog, view>>

Renamed ==
  /\ \E r \in Answers("rename", "done") \cup Answers("rename again", "done") \cup Answers("rename again", "refused") :
       Land(r)
  /\ UNCHANGED <<server, shown, dialog, view>>

RenameFailed ==
  /\ \E r \in Answers("rename", "refused") :
       asked' = (asked \ {r}) \cup {[r EXCEPT !.op = "rename again", !.state = "asked"]}
  /\ UNCHANGED <<server, shown, dialog, view, apart, sent>>

\* The page takes a placeholder away when its torrent is listed, or in time.
Reconcile ==
  /\ \E r \in shown.pending : shown' = [shown EXCEPT !.pending = @ \ {r}]
  /\ UNCHANGED <<server, asked, dialog, view, apart, sent>>

ParseRefused == Refused({"parse"})

-----------------------------------------------------------------------------
Named(r) == [server EXCEPT !.tasks[r.on] = [name |-> r.to.name, worker |-> @.worker]]
Answered ==
  /\ \E r \in asked :
       /\ r.state = "asked"
       /\ \/ /\ asked' = (asked \ {r}) \cup
                  {[r EXCEPT !.state = "done", !.saw = CASE r.op = "load" /\ r.list = "workers" -> server.workers
                                                         [] r.op = "create" -> server.tasks[r.on]
                                                         [] OTHER -> @]}
             /\ server' = CASE r.op = "create" /\ server.tasks[r.on] = Gone ->
                                 [server EXCEPT !.tasks[r.on] = [name |-> Nothing, worker |-> r.to.worker]]
                            [] r.op \in {"rename", "rename again"} -> Named(r)
                            [] OTHER -> server
          \/ /\ asked' = (asked \ {r}) \cup {Refusal(r)}
             /\ server' = server
          \/ /\ r.op = "create" /\ server.tasks[r.on] = Gone
             /\ asked' = (asked \ {r}) \cup {Refusal(r)}
             /\ server' = [server EXCEPT !.tasks[r.on] = [name |-> Nothing, worker |-> r.to.worker]]
  /\ UNCHANGED <<shown, dialog, view, apart, sent>>

Next ==
  \/ \E mode \in {"magnet", "file"} : OpenAddModal(mode) \/ ChangeMode(mode)
  \/ \E r \in Releases \cup {Nothing} : ChooseRelease(r)
  \/ \E f \in Fields : Edit(f)
  \/ \E tag \in view.tags \cup {Mine} : EditTags(view.tags \cup {tag}) \/ EditTags(view.tags \ {tag})
  \/ \E c \in Offered : ChangeCategory(c)
  \/ \E w \in Workers : ChangeWorker(w)
  \/ CloseAddModal \/ Parsed \/ ParseRefused \/ WorkersLoaded \/ CategoriesLoaded \/ LoadRefused
  \/ HandleSubmit \/ Created \/ CreateRefused \/ Renamed \/ RenameFailed \/ Reconcile
  \/ Answered

-----------------------------------------------------------------------------
TypeOK ==
  /\ server.tasks \in [Releases -> [name : Releases \cup {Mine, Nothing}, worker : Workers] \cup {Gone}]
  /\ shown \in [pending : SUBSET Releases]
  /\ view \in [mode : {"magnet", "file"}, release : Releases \cup {Nothing}, suggestion : Releases \cup {Nothing},
               edited : SUBSET Fields, displayName : Releases \cup {Mine, Nothing},
               category : Categories \cup {Nothing}, tags : SUBSET (Releases \cup Categories \cup {Mine}),
               directory : Categories \cup {Mine, Nothing}, worker : Workers \cup {Nothing}, manual : BOOLEAN,
               workers : SUBSET Workers, workersLoaded : BOOLEAN, categories : SUBSET Categories]

Work == <<dialog, view.edited, [f \in view.edited |-> view[f]]>>
\* A form that is left cancels its parse, whatever became of it.
FailuresKeepWork == (\E r \in asked \ asked' : r.op = "parse") \/ Keeps(Work, Work')

\* What the user has edited stays when an answer comes in.
AnswersKeepEdits ==
  (/\ asked' \subseteq asked /\ asked' # asked
   /\ dialog # Closed /\ dialog' = dialog /\ view'.mode = view.mode) =>
    \A f \in view.edited : view'[f] = view[f]

=============================================================================
