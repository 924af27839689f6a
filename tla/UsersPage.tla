----------------------------- MODULE UsersPage -----------------------------
(***************************************************************************)
(* Users.tsx: the accounts and the magic links, their dialogs, and the     *)
(* handlers that patch the lists they closed over.  Only the role of an    *)
(* account can be edited here (its e-mail field is disabled).              *)
(***************************************************************************)
EXTENDS WebPage

CONSTANTS Users, Founders, Links, Nobody

Roles == {"user", "admin"}

\* view: [loading, linksLoading: spinners, found: the accounts the search
\* leaves, role: the edit form, linkForm: is the form of a link open?,
\* link: whose password-reset link the edit dialog shows]
Init ==
  /\ server \in [users : {[u \in Users |-> IF u \in Founders THEN "admin" ELSE "user"]},
                 links : [Links -> {Gone, "used"}]]
  /\ shown = [users |-> [u \in Users |-> Gone], links |-> [l \in Links |-> Gone]]
  /\ view = [loading |-> TRUE, linksLoading |-> FALSE, found |-> Users, role |-> "user",
             linkForm |-> FALSE, link |-> Nobody]
  /\ Mounted("users")

-----------------------------------------------------------------------------
\* The dialogs are rendered with the list: not while it loads, nor without rows.
Rows == {u \in view.found : shown.users[u] # Gone}
Visible == ~view.loading /\ Rows # {}
On(is) == Visible /\ Top.is = is
PageFree == dialog = Closed \/ ~Visible

LoadUsers == PageFree /\ Load("users", "loading")
UsersLoaded == Loaded("users", "loading")

Search ==
  /\ PageFree
  /\ \E found \in {Users, {}} : view' = [view EXCEPT !.found = found]
  /\ UNCHANGED <<server, shown, asked, dialog, apart, sent>>

OpenDetails(u) ==
  /\ Visible /\ dialog = Closed /\ u \in Rows
  /\ dialog' = Over([is |-> "details", on |-> u, was |-> shown.users[u]])
  /\ UNCHANGED <<server, shown, asked, view, apart, sent>>

\* Cancel, Close, or a click beside the dialog.
CloseDialog ==
  /\ Visible /\ dialog # Closed
  /\ dialog' = CloseTop
  /\ UNCHANGED <<server, shown, asked, view, apart, sent>>

-----------------------------------------------------------------------------
ConfirmDelete ==
  /\ On("details") /\ Top.on \notin Founders
  /\ dialog' = Over(Dialog("delete", Top.on))
  /\ UNCHANGED <<server, shown, asked, view, apart, sent>>

DeleteUser ==
  /\ On("delete") /\ Top.on \notin Founders
  /\ AskPatching("delete", "users", Top.on, Gone)
  /\ UNCHANGED <<server, shown, dialog, view>>

UserDeleted ==
  /\ \E r \in Answers("delete", "done") :
       /\ shown' = [shown EXCEPT !.users = [r.saw EXCEPT ![r.on] = Gone]]
       /\ Land(r)
  /\ dialog' = Without({"delete", "details"})
  /\ UNCHANGED <<server, view>>

ShowEdit ==
  /\ On("details")
  /\ dialog' = Over([Top EXCEPT !.is = "edit"])
  /\ view' = [view EXCEPT !.role = IF Top.on \in Founders THEN "admin" ELSE Top.was,
                          !.link = Nobody]
  /\ UNCHANGED <<server, shown, asked, apart, sent>>

ChooseRole ==
  /\ On("edit") /\ Top.on \notin Founders
  /\ \E role \in Roles : view' = [view EXCEPT !.role = role]
  /\ UNCHANGED <<server, shown, asked, dialog, apart, sent>>

UpdateUser ==
  /\ On("edit") /\ Top.on \notin Founders
  /\ view.role # Top.was
  /\ AskPatching("update", "users", Top.on, view.role)
  /\ UNCHANGED <<server, shown, dialog, view>>

UserUpdated ==
  /\ \E r \in Answers("update", "done") :
       /\ shown' = [shown EXCEPT !.users = [r.saw EXCEPT ![r.on] = r.to]]
       /\ Land(r)
  /\ dialog' = Without({"edit", "details"})
  /\ UNCHANGED <<server, view>>

RequestPasswordReset ==
  /\ On("edit") /\ Top.on \notin Founders
  /\ Ask("reset", "users", Top.on, Gone)
  /\ UNCHANGED <<server, shown, dialog, view>>

\* Whatever dialog is open by now shows the link.
ResetLinkShown ==
  /\ \E r \in Answers("reset", "done") :
       /\ view' = [view EXCEPT !.link = r.on]
       /\ Land(r)
  /\ UNCHANGED <<server, shown, dialog>>

-----------------------------------------------------------------------------
OpenMagicLinks ==
  /\ PageFree
  /\ Ask("load", "links", Gone, Gone)
  /\ view' = [view EXCEPT !.linksLoading = TRUE]
  /\ dialog' = IF Top.is = "links" THEN dialog ELSE Over(Dialog("links", Nobody))
  /\ UNCHANGED <<server, shown>>

LinksLoaded == Loaded("links", "linksLoading")

LinkForm ==
  /\ On("links")
  /\ \E open \in BOOLEAN : view' = [view EXCEPT !.linkForm = open]
  /\ UNCHANGED <<server, shown, asked, dialog, apart, sent>>

CreateLink ==
  /\ On("links") /\ view.linkForm
  /\ \E l \in Links :
       /\ server.links[l] = Gone /\ \A r \in asked : r.on # l
       /\ AskPatching("create", "links", l, "open")
  /\ UNCHANGED <<server, shown, dialog, view>>

LinkCreated ==
  /\ \E r \in Answers("create", "done") :
       /\ shown' = [shown EXCEPT !.links = [r.saw EXCEPT ![r.on] = "open"]]
       /\ Land(r)
  /\ view' = [view EXCEPT !.linkForm = FALSE]
  /\ UNCHANGED <<server, dialog>>

RevokeLink(l) ==
  /\ On("links") /\ ~view.linksLoading /\ shown.links[l] = "open"
  /\ AskPatching("revoke", "links", l, Gone)
  /\ UNCHANGED <<server, shown, dialog, view>>

LinkRevoked ==
  /\ \E r \in Answers("revoke", "done") :
       /\ shown' = [shown EXCEPT !.links = [r.saw EXCEPT ![r.on] = Gone]]
       /\ Land(r)
  /\ UNCHANGED <<server, dialog, view>>

-----------------------------------------------------------------------------
Effect(r) == IF r.op \in {"load", "reset"} THEN server ELSE [server EXCEPT ![r.list][r.on] = r.to]
Accepts(r) == r.op \in {"update", "delete", "revoke", "reset"} => Present(r)

Next ==
  \/ LoadUsers \/ UsersLoaded \/ Search \/ CloseDialog
  \/ \E u \in Users : OpenDetails(u)
  \/ ConfirmDelete \/ DeleteUser \/ UserDeleted
  \/ ShowEdit \/ ChooseRole \/ UpdateUser \/ UserUpdated
  \/ RequestPasswordReset \/ ResetLinkShown
  \/ OpenMagicLinks \/ LinksLoaded \/ LinkForm \/ CreateLink \/ LinkCreated
  \/ \E l \in Links : RevokeLink(l)
  \/ LinkRevoked
  \/ Refused({"delete", "update", "reset", "create", "revoke"})
  \/ Serve(Effect, Accepts)

-----------------------------------------------------------------------------
Lists == [users : [Users -> Roles \cup {Gone}], links : [Links -> {Gone, "open", "used"}]]
TypeOK ==
  /\ server \in Lists /\ shown \in Lists
  /\ view \in [loading : BOOLEAN, linksLoading : BOOLEAN, found : {Users, {}}, role : Roles,
               linkForm : BOOLEAN, link : Users \cup {Nobody}]

ListsShowServer == ShowsServer(DOMAIN shown)
SpinnersHaveRequests == view.loading \/ view.linksLoading => Waiting("load")
Work == <<dialog, view.role, view.linkForm>>

=============================================================================
