--------------------------- MODULE TorrentEditing ---------------------------
(***************************************************************************)
(* Where TorrentDetailsModal.tsx edits one torrent: the name in its header *)
(* and the path (AutoSaveField.tsx), category and tags                     *)
(* (CategoryTagsCard.tsx) and the image (TorrentImageEditor.tsx).  Nothing *)
(* has a button to save: a change is shown at once and sent, and the list  *)
(* patched when the answer comes.  "heard" requests are those of a         *)
(* component that is still mounted; the others still patch the list.       *)
(***************************************************************************)
EXTENDS WebPage

CONSTANTS Categories

Shades == {"plain", "changed"}
Fields == {"name", "path"}
NoImage(metadata) == [metadata EXCEPT !.image = Gone, !.position = "plain", !.brightness = "plain"]

Value(field) == IF field = "name" THEN shown.metadata.name ELSE shown.task.path
Field(value) == [draft |-> value, editing |-> FALSE, state |-> "idle"]

\* What is mounted with a tab.  view: the tab, the two fields, the card and
\* the image editor.
Fresh(tab, name) ==
  [tab |-> tab, name |-> name, path |-> Field(shown.task.path),
   category |-> Gone, tags |-> shown.task.tags, card |-> "idle",
   preview |-> shown.metadata.image, selected |-> FALSE, uploading |-> FALSE, deleting |-> FALSE,
   dragging |-> FALSE, position |-> shown.metadata.position, brightness |-> shown.metadata.brightness]

\* The category's name is looked up when the card is mounted.
LookUp(category) == IF category = Gone THEN {} ELSE {Request("categories", "none", category, Gone, Gone)}

Init ==
  /\ \E category \in Categories \cup {Gone}, image \in {Gone, "image"} :
       server = [task |-> [category |-> category, tags |-> "plain", path |-> "plain"],
                 metadata |-> [name |-> "plain", image |-> image, position |-> "plain", brightness |-> "plain"]]
  /\ shown = server
  /\ view = Fresh("overview", Field("plain"))
  /\ asked = LookUp(shown.task.category)
  /\ dialog = Closed /\ apart = DOMAIN shown /\ sent = 0

-----------------------------------------------------------------------------
Look(v) == view' = v /\ UNCHANGED <<server, shown, asked, dialog, apart, sent>>

\* Only what hangs in the header stays mounted.
ActiveTab(tab) ==
  /\ tab # view.tab
  /\ asked' = {[r EXCEPT !.heard = r.on = "name"] : r \in {q \in asked : q.op # "categories"}}
              \cup (IF tab = "overview" THEN LookUp(shown.task.category) ELSE {})
  /\ view' = Fresh(tab, view.name)
  /\ UNCHANGED <<server, shown, dialog, apart, sent>>

\* The page patches its torrent, and the effects of what is mounted run: the
\* drafts nobody is typing, the tags and the image follow, a changed category
\* is looked up again and the answer to an older look-up ignored.
Patch(part, value, others, v) ==
  /\ shown' = [shown EXCEPT ![part] = value]
  /\ LET moved == part = "task" /\ value.category # shown.task.category
         followed == [v EXCEPT
           !.tags = shown'.task.tags,
           !.category = IF moved /\ value.category = Gone THEN Gone ELSE @,
           !.name.draft = IF shown'.metadata.name # shown.metadata.name /\ ~v.name.editing
                          THEN shown'.metadata.name ELSE @]
     IN /\ view' = IF part # "metadata" THEN followed
                   ELSE [followed EXCEPT !.preview = value.image, !.selected = FALSE,
                           !.position = value.position, !.brightness = value.brightness]
        /\ asked' = IF moved /\ view.tab = "overview"
                    THEN {r \in others : r.op # "categories"} \cup LookUp(value.category) ELSE others
  /\ UNCHANGED <<server, dialog, apart, sent>>

CategoriesAnswered ==
  /\ \E r \in Answers("categories", "done") \cup Answers("categories", "refused") :
       /\ view' = [view EXCEPT !.category = IF r.state = "done" THEN r.on ELSE Gone]
       /\ Land(r)
  /\ UNCHANGED <<server, shown, dialog>>

-----------------------------------------------------------------------------
\* AutoSaveField: a draft is saved when the user leaves the field.
InPlace(field) == field = "name" \/ view.tab = "files"

Focus(field) ==
  /\ InPlace(field) /\ ~view[field].editing
  /\ Look([view EXCEPT ![field].editing = TRUE, ![field].state = "idle"])

Type(field) ==
  /\ view[field].editing
  /\ \E draft \in Shades : Look([view EXCEPT ![field].draft = draft])

\* Leaving with what is saved already, or with nothing typed, asks nothing.
Leave(field, draft) ==
  /\ view[field].editing
  /\ IF view[field].draft = Value(field)
     THEN Look([view EXCEPT ![field].editing = FALSE])
     ELSE /\ IF field = "name" THEN Ask("metadata", "metadata", "name", view.name.draft)
             ELSE Ask("path", "task", "path", view.path.draft)
          /\ view' = [view EXCEPT ![field] = [draft |-> draft, editing |-> FALSE, state |-> "saving"]]
          /\ UNCHANGED <<server, shown, dialog>>

Commit(field) == Leave(field, view[field].draft)

\* The draft is put back, but the blur that follows at once still sees the one
\* that was typed, and saves it.
Escape(field) == Leave(field, Value(field))

FlashOver ==
  \/ \E field \in Fields : view[field].state = "saved" /\ Look([view EXCEPT ![field].state = "idle"])
  \/ view.card = "saved" /\ Look([view EXCEPT !.card = "idle"])

\* Neither handler tells the field of a refusal: request() does not throw, and
\* what it returned is not looked at (a new name) or not passed on (a path).
NameSaved ==
  /\ \E r \in asked :
       /\ r.op = "metadata" /\ r.on = "name" /\ r.state # "asked"
       /\ LET v == [view EXCEPT !.name.state = "saved"] IN
          IF r.state = "done" THEN Patch("metadata", r.saw, asked \ {r}, v)
          ELSE view' = v /\ Land(r) /\ UNCHANGED <<server, shown, dialog>>

PathSaved ==
  /\ \E r \in asked :
       /\ r.op = "path" /\ r.state # "asked" /\ Land(r)
       /\ view' = IF r.heard THEN [view EXCEPT !.path.state = "saved"] ELSE view
  /\ UNCHANGED <<server, shown, dialog>>

-----------------------------------------------------------------------------
\* CategoryTagsCard: only the answer to the card's last choice counts ("to":
\* whether it is the last one, what was chosen, and what to go back to).  A card
\* that is mounted anew numbers its choices anew.
Older(op) ==
  {IF r.op = op /\ r.heard THEN [r EXCEPT !.to = <<"older", @[2], @[3]>>] ELSE r : r \in asked}

ChangeCard(op, value, previous) ==
  /\ view.tab = "overview"
  /\ Cardinality(asked) < MaxAsked /\ sent < MaxSent
  /\ asked' = Add(Older(op), Request(op, "task", op, <<"latest", value, previous>>, Gone))
  /\ sent' = sent + 1
  /\ UNCHANGED <<server, shown, dialog, apart>>

HandleCategoryChange(category) ==
  /\ ChangeCard("category", category, view.category)
  /\ view' = [view EXCEPT !.category = category, !.card = "saving"]

HandleTagsChange(tags) ==
  /\ ChangeCard("tags", tags, Gone)
  /\ view' = [view EXCEPT !.tags = tags, !.card = "saving"]

Stale ==
  /\ \E r \in asked : r.op \in {"category", "tags"} /\ r.state # "asked" /\ r.to[1] = "older" /\ Land(r)
  /\ UNCHANGED <<server, shown, dialog, view>>

Card(r, state) == IF r.heard THEN [view EXCEPT !.card = state] ELSE view

CategoryChanged ==
  \E r \in asked :
    /\ r.op = "category" /\ r.state = "done" /\ r.to[1] = "latest"
    /\ Patch("task", [shown.task EXCEPT !.category = r.to[2]], asked \ {r}, Card(r, "saved"))

CategoryRefused ==
  /\ \E r \in asked :
       /\ r.op = "category" /\ r.state = "refused" /\ r.to[1] = "latest" /\ Land(r)
       /\ view' = IF r.heard THEN [view EXCEPT !.category = r.to[3], !.card = "error"] ELSE view
  /\ UNCHANGED <<server, shown, dialog>>

\* The answer is not looked at: refused tags are taken over as well.
TagsChanged ==
  \E r \in asked :
    /\ r.op = "tags" /\ r.state # "asked" /\ r.to[1] = "latest"
    /\ Patch("task", [shown.task EXCEPT !.tags = r.to[2]], asked \ {r}, Card(r, "saved"))

-----------------------------------------------------------------------------
\* TorrentImageEditor.
OnImage == view.tab = "image"

HandleFileSelect ==
  /\ OnImage /\ ~view.uploading /\ (view.preview # Gone => ~view.deleting)
  /\ Ask("metadata", "metadata", "image", "image")
  /\ view' = [view EXCEPT !.preview = "image", !.selected = TRUE, !.uploading = TRUE]
  /\ UNCHANGED <<server, shown, dialog>>

ClearSelected ==
  /\ OnImage /\ view.selected
  /\ Look([view EXCEPT !.selected = FALSE, !.preview = shown.metadata.image])

Uploaded ==
  \E r \in asked :
    /\ r.op = "metadata" /\ r.on = "image" /\ r.state = "done"
    /\ Patch("metadata", r.saw, asked \ {r}, IF r.heard THEN [view EXCEPT !.uploading = FALSE] ELSE view)

UploadRefused ==
  /\ \E r \in asked :
       /\ r.op = "metadata" /\ r.on = "image" /\ r.state = "refused" /\ Land(r)
       /\ view' = IF r.heard THEN [view EXCEPT !.preview = shown.metadata.image, !.selected = FALSE,
                                               !.uploading = FALSE] ELSE view
  /\ UNCHANGED <<server, shown, dialog>>

\* The answer has no body: the page clears the metadata its handler closed over.
HandleDeleteImage ==
  /\ OnImage /\ shown.metadata.image # Gone /\ ~view.selected /\ ~view.uploading /\ ~view.deleting
  /\ AskPatching("unimage", "metadata", "image", Gone)
  /\ view' = [view EXCEPT !.deleting = TRUE]
  /\ UNCHANGED <<server, shown, dialog>>

ImageDeleted ==
  \E r \in asked :
    /\ r.op = "unimage" /\ r.state = "done"
    /\ Patch("metadata", NoImage(r.saw), asked \ {r}, IF r.heard THEN [view EXCEPT !.deleting = FALSE] ELSE view)

DeleteRefused ==
  /\ \E r \in asked :
       /\ r.op = "unimage" /\ r.state = "refused" /\ Land(r)
       /\ view' = IF r.heard THEN [view EXCEPT !.deleting = FALSE] ELSE view
  /\ UNCHANGED <<server, shown, dialog>>

\* The image is dragged into place and its place sent when it is let go.
MouseDown ==
  /\ OnImage /\ view.preview # Gone /\ ~view.selected /\ ~view.dragging
  /\ Look([view EXCEPT !.dragging = TRUE])
MouseMove == view.dragging /\ \E position \in Shades : Look([view EXCEPT !.position = position])
MouseLeave == view.dragging /\ Look([view EXCEPT !.dragging = FALSE])

Send(field, value, v) ==
  /\ view' = v
  /\ IF shown.metadata.image = Gone THEN UNCHANGED <<asked, apart, sent>>
     ELSE Ask("metadata", "metadata", field, value)
  /\ UNCHANGED <<server, shown, dialog>>

MouseUp == view.dragging /\ Send("position", view.position, [view EXCEPT !.dragging = FALSE])

HandleBrightnessChange ==
  /\ OnImage /\ shown.metadata.image # Gone /\ ~view.selected
  /\ \E brightness \in Shades : Send("brightness", brightness, [view EXCEPT !.brightness = brightness])

ShadeSaved ==
  \E r \in asked : /\ r.op = "metadata" /\ r.on \in {"position", "brightness"} /\ r.state = "done"
                   /\ Patch("metadata", r.saw, asked \ {r}, view)

ShadeRefused ==
  /\ \E r \in asked : r.op = "metadata" /\ r.on \in {"position", "brightness"} /\ r.state = "refused" /\ Land(r)
  /\ UNCHANGED <<server, shown, dialog, view>>

-----------------------------------------------------------------------------
Effect(r) ==
  CASE r.op = "categories" -> server
    [] r.op = "unimage" -> [server EXCEPT !.metadata = NoImage(@)]
    [] r.op \in {"category", "tags"} -> [server EXCEPT !.task[r.op] = r.to[2]]
    [] OTHER -> [server EXCEPT ![r.list][r.on] = r.to]
Accepts(r) == TRUE

Next ==
  \/ \E tab \in {"overview", "files", "image"} : ActiveTab(tab)
  \/ CategoriesAnswered \/ FlashOver
  \/ \E field \in Fields : Focus(field) \/ Type(field) \/ Escape(field) \/ Commit(field)
  \/ NameSaved \/ PathSaved
  \/ \E category \in Categories \cup {Gone} : HandleCategoryChange(category)
  \/ \E tags \in Shades : HandleTagsChange(tags)
  \/ Stale \/ CategoryChanged \/ CategoryRefused \/ TagsChanged
  \/ HandleFileSelect \/ ClearSelected \/ Uploaded \/ UploadRefused
  \/ HandleDeleteImage \/ ImageDeleted \/ DeleteRefused
  \/ MouseDown \/ MouseMove \/ MouseLeave \/ MouseUp \/ HandleBrightnessChange \/ ShadeSaved \/ ShadeRefused
  \/ Serve(Effect, Accepts)

-----------------------------------------------------------------------------
TypeOK ==
  /\ \A part \in {server, shown} :
       /\ part.task \in [category : Categories \cup {Gone}, tags : Shades, path : Shades]
       /\ part.metadata \in [name : Shades, image : {"image", Gone}, position : Shades, brightness : Shades]
  /\ \A field \in Fields :
       view[field] \in [draft : Shades, editing : BOOLEAN, state : {"idle", "saving", "saved"}]
  /\ view.card \in {"idle", "saving", "saved", "error"} /\ view.category \in Categories \cup {Gone}

Heard(op, on) == \E r \in asked : r.op = op /\ r.on = on /\ r.heard
SpinnersHaveRequests ==
  /\ view.name.state = "saving" => Heard("metadata", "name")
  /\ view.path.state = "saving" => Heard("path", "path")
  /\ view.card = "saving" => Heard("category", "category") \/ Heard("tags", "tags")
  /\ view.uploading => Heard("metadata", "image")
  /\ view.deleting => Heard("unimage", "image")
Work == <<dialog, view.name.draft, view.path.draft>>
\* Another tab drops what it is left with.
FailuresKeepWork == view'.tab # view.tab \/ Keeps(Work, Work')

\* A field that says "saved", with nothing under way, shows what is stored.
SavedIsStored ==
  asked = {} => /\ view.name.state = "saved" => server.metadata.name = view.name.draft
                /\ view.path.state = "saved" => server.task.path = view.path.draft

=============================================================================
