------------------------------ MODULE TagsPage ------------------------------
(***************************************************************************)
(* Tags.tsx and its dialogs.  Nothing is patched here: every operation     *)
(* that succeeds loads the whole list again, and its dialog closes only    *)
(* when that load is over.  The dialogs outlive their closing, so their    *)
(* "submitting" does too.  The report of conflicts and the colours of the  *)
(* chips elsewhere are refreshed by calls of their own and left out, and   *)
(* so are scopes, which can only be edited and deleted.                    *)
(***************************************************************************)
EXTENDS WebPage

CONSTANTS Tags,      \* the names in use or about to be
          Alike      \* those that differ in case only

Colors == {"plain", "painted"}
None == "none"
Ops == {"create", "update", "merge", "derive", "quick"}
Form(op) == IF op \in {"create", "update"} THEN "tag" ELSE op

\* The forms are filled whenever a dialog opens.
Blank(v) == [v EXCEPT !.color = "plain", !.sources = {}, !.target = None]

\* view: [loading, busy: the dialogs (and the quick form) that are submitting,
\* color: the form of a tag, sources and target: the form of a merge]
Init ==
  /\ server \in [tags : {[g \in Tags |-> IF g \in Alike THEN "plain" ELSE Gone]}]
  /\ shown = [tags |-> [g \in Tags |-> Gone]]
  /\ view = [loading |-> TRUE, busy |-> {}, color |-> "plain", sources |-> {}, target |-> None]
  /\ Mounted("tags")

-----------------------------------------------------------------------------
Rows == {g \in Tags : shown.tags[g] # Gone}
Visible == ~view.loading /\ Rows # {}
MergeCandidates == IF Alike \subseteq Rows THEN Alike ELSE {}

Open(is, on, form) ==
  /\ dialog = Closed
  /\ dialog' = Over(Dialog(is, on))
  /\ view' = form
  /\ UNCHANGED <<server, shown, asked, apart, sent>>

HandleRefresh == dialog = Closed /\ Load("tags", "loading")

NewTag == Open("tag", None, [view EXCEPT !.color = "plain"])
StartEditTag(g) == Visible /\ g \in Rows /\ Open("tag", g, [view EXCEPT !.color = shown.tags[g]])
OpenRename(g) == Visible /\ g \in Rows /\ Open("merge", None, [view EXCEPT !.sources = {g}, !.target = None])
OpenMergeForCluster == \E g \in MergeCandidates :
  Open("merge", None, [view EXCEPT !.sources = MergeCandidates \ {g}, !.target = g])
OpenDerive(g) == Visible /\ g \in Rows /\ Open("derive", g, view)
OpenDelete(g) == Visible /\ g \in Rows /\ Open("delete", g, view)

CloseDialog ==
  /\ dialog # Closed /\ (Top.is = "delete" => Visible)
  /\ dialog' = CloseTop
  /\ view' = Blank(view)
  /\ UNCHANGED <<server, shown, asked, apart, sent>>

Type(form) ==
  /\ view' = form
  /\ UNCHANGED <<server, shown, asked, dialog, apart, sent>>

ChooseColor == Top.is = "tag" /\ \E c \in Colors : Type([view EXCEPT !.color = c])
EditSources == Top.is = "merge" /\ \E g \in Tags : \/ Type([view EXCEPT !.sources = @ \cup {g}])
                                                  \/ Type([view EXCEPT !.sources = @ \ {g}])
TypeTarget == Top.is = "merge" /\ \E g \in Tags : Type([view EXCEPT !.target = g])

-----------------------------------------------------------------------------
\* A dialog that is submitting keeps its button disabled, however often it
\* is closed and opened meanwhile.
Submit(op, on, to) ==
  /\ Form(op) \notin view.busy
  /\ Ask(op, "tags", on, to)
  /\ view' = [view EXCEPT !.busy = @ \cup {Form(op)}]
  /\ UNCHANGED <<server, shown, dialog>>

SubmitTag ==
  /\ Top.is = "tag"
  /\ IF Top.on = None THEN \E g \in Tags \ Rows : Submit("create", {g}, view.color)
                      ELSE Submit("update", {Top.on}, view.color)

SubmitMerge ==
  /\ Top.is = "merge"
  /\ view.sources # {} /\ view.target \notin view.sources \cup {None}
  /\ Submit("merge", view.sources, view.target)

SubmitDerive ==
  /\ Top.is = "derive"
  /\ \E g \in Tags \ {Top.on} : Submit("derive", {g}, "plain")

QuickAdd == dialog = Closed /\ \E g \in Tags \ Rows : Submit("quick", {g}, "plain")

DeleteTag ==
  /\ Top.is = "delete" /\ Visible
  /\ Ask("delete", "tags", {Top.on}, Gone)
  /\ UNCHANGED <<server, shown, dialog, view>>

-----------------------------------------------------------------------------
\* await loadTags(): the handler goes on with a load.
Follow(r) ==
  /\ asked' = Add(asked \ {r}, Request("load", "tags", Gone, Form(r.op), Gone))
  /\ apart' = DOMAIN shown
  /\ view' = [view EXCEPT !.loading = TRUE]
  /\ UNCHANGED <<server, shown, sent>>

TagsChanged ==
  /\ \E op \in Ops : \E r \in Answers(op, "done") : Follow(r)
  /\ UNCHANGED dialog

TagDeleted ==
  /\ \E r \in Answers("delete", "done") : Follow(r)
  /\ dialog' = Without({"delete"})

\* The load at the end of a handler closes the dialog the handler belongs to.
TagsLoaded ==
  /\ \E r \in Answers("load", "done") \cup Answers("load", "refused") :
       /\ shown' = IF r.state = "done" THEN [shown EXCEPT !.tags = r.saw] ELSE shown
       /\ dialog' = Without({r.to} \ {"delete"})
       /\ LET over == [view EXCEPT !.loading = FALSE, !.busy = @ \ {r.to}]
          IN  view' = IF dialog' = Closed THEN Blank(over) ELSE over
       /\ Land(r)
  /\ UNCHANGED server

SubmitRefused ==
  /\ \E r \in asked : /\ r.op \in Ops /\ r.state = "refused"
                      /\ view' = [view EXCEPT !.busy = @ \ {Form(r.op)}]
                      /\ Land(r)
  /\ UNCHANGED <<server, shown, dialog>>

Merged(r) == [g \in Tags |-> IF g \in r.on THEN Gone
                             ELSE IF g = r.to /\ server.tags[g] = Gone THEN "plain" ELSE server.tags[g]]
Effect(r) ==
  CASE r.op = "load" -> server
    [] r.op = "merge" -> [server EXCEPT !.tags = Merged(r)]
    [] r.op = "derive" -> [server EXCEPT !.tags = [g \in Tags |-> IF g \in r.on /\ @[g] = Gone THEN r.to ELSE @[g]]]
    [] OTHER -> [server EXCEPT !.tags = [g \in Tags |-> IF g \in r.on THEN r.to ELSE @[g]]]

\* A derivation that meets a name in use reports it, and is done all the same.
Accepts(r) ==
  CASE r.op \in {"update", "delete"} -> \A g \in r.on : server.tags[g] # Gone
    [] r.op \in {"create", "quick"} -> \A g \in r.on : server.tags[g] = Gone
    [] OTHER -> TRUE

Next ==
  \/ HandleRefresh \/ NewTag \/ OpenMergeForCluster \/ CloseDialog
  \/ \E g \in Tags : StartEditTag(g) \/ OpenRename(g) \/ OpenDerive(g) \/ OpenDelete(g)
  \/ ChooseColor \/ EditSources \/ TypeTarget
  \/ SubmitTag \/ SubmitMerge \/ SubmitDerive \/ QuickAdd \/ DeleteTag
  \/ TagsChanged \/ TagDeleted \/ TagsLoaded \/ SubmitRefused
  \/ Refused({"delete"})
  \/ Serve(Effect, Accepts)

-----------------------------------------------------------------------------
Lists == [tags : [Tags -> Colors \cup {Gone}]]
TypeOK ==
  /\ server \in Lists /\ shown \in Lists
  /\ view \in [loading : BOOLEAN, busy : SUBSET {Form(op) : op \in Ops}, color : Colors,
               sources : SUBSET Tags, target : Tags \cup {None}]

ListsShowServer == ShowsServer(DOMAIN shown)
SpinnersHaveRequests ==
  /\ view.loading => Waiting("load")
  /\ \A f \in view.busy : \E r \in asked : Form(r.op) = f \/ (r.op = "load" /\ r.to = f)
Work == <<dialog, view.color, view.sources, view.target>>

=============================================================================
