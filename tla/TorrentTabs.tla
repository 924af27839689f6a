---------------------------- MODULE TorrentTabs ----------------------------
(***************************************************************************)
(* The tabs of TorrentDetailsModal.tsx that load what the worker holds of  *)
(* one torrent: TorrentFilesList.tsx, TrackersTab.tsx and PeersTab.tsx.    *)
(* A tab is mounted when it is opened and unmounted when another one is;   *)
(* what it started goes on without it.  The priorities of files are set    *)
(* one group after the other, and a batch stops where one is refused.      *)
(***************************************************************************)
EXTENDS WebPage

CONSTANTS Files, Urls, Peers

Tabs == {"files", "trackers", "peers"}
Priorities == {"skip", "normal", "high"}
Members(tab) == CASE tab = "files" -> Files [] tab = "trackers" -> Urls [] OTHER -> Peers
Blank(tab) == [x \in Members(tab) |-> Gone]

\* view: the tab, its load, and what the user has in hand on it
\* (pending: priorities not yet applied; newUrl, editing: forms of trackers;
\* pendingUrls, banning: rows with a request under way).
Fresh(tab) == [tab |-> tab, loading |-> TRUE, error |-> FALSE,
               pending |-> Blank("files"), applying |-> FALSE, applyError |-> FALSE,
               newUrl |-> Gone, adding |-> FALSE, pendingUrls |-> {}, editing |-> Gone, banning |-> Gone]

Init ==
  /\ \E files \in [Files -> {"skip", "normal"}], new \in Urls :
       server = [files |-> files, trackers |-> [u \in Urls |-> IF u = new THEN Gone ELSE "there"],
                 peers |-> [p \in Peers |-> "there"]]
  /\ shown = [tab \in Tabs |-> Blank(tab)]
  /\ \E tab \in Tabs : view = Fresh(tab) /\ Mounted(tab)

-----------------------------------------------------------------------------
On(tab) == view.tab = tab /\ dialog = Closed
Rows == {x \in Members(view.tab) : shown[view.tab][x] # Gone}
Visible == ~view.loading /\ ~view.error /\ Rows # {}
Look(v) == view' = v /\ UNCHANGED <<server, shown, asked, dialog, apart, sent>>

OpenTab(tab) ==
  /\ dialog = Closed /\ tab # view.tab /\ sent < MaxSent
  /\ LET going == {r \in Unheard : r.op # "load"} IN
       /\ Cardinality(going) < MaxAsked
       /\ asked' = Add(going, Request("load", tab, Gone, Gone, Gone))
  /\ sent' = sent + 1
  /\ shown' = [shown EXCEPT ![tab] = Blank(tab)]
  /\ view' = Fresh(tab)
  /\ apart' = DOMAIN shown
  /\ UNCHANGED <<server, dialog>>

\* A load that follows a change ends that change's spinner as well ("to").
LoadAfter(r, to) ==
  /\ asked' = Add(asked \ {r}, Request("load", view.tab, Gone, to, Gone))
  /\ sent < MaxSent /\ sent' = sent + 1
  /\ apart' = apart \cup {view.tab}

Retry ==
  /\ view.error /\ Ask("load", view.tab, Gone, Gone)
  /\ view' = [view EXCEPT !.loading = TRUE, !.error = FALSE]
  /\ UNCHANGED <<server, shown, dialog>>

TabLoaded ==
  /\ \E r \in Answers("load", "done") \cup Answers("load", "refused") :
       /\ shown' = IF r.state = "done" THEN [shown EXCEPT ![r.list] = r.saw] ELSE shown
       /\ view' = [view EXCEPT !.loading = FALSE, !.error = @ \/ r.state = "refused",
                     !.pending = IF r.list = "files" /\ r.state = "done" THEN Blank("files") ELSE @,
                     !.applying = @ /\ r.to # "applying", !.adding = @ /\ r.to # "adding",
                     !.pendingUrls = @ \ {r.to}]
       /\ Land(r)
  /\ UNCHANGED <<server, dialog>>

-----------------------------------------------------------------------------
\* Files: the user gathers priorities, then confirms the batch.
Pending == {f \in Files : view.pending[f] # Gone}
Effective(f) == IF f \in Pending THEN view.pending[f] ELSE shown.files[f]
Choose(pending) == Look([view EXCEPT !.pending = pending, !.applyError = FALSE])

SetPendingPriority(f, priority) ==
  /\ On("files") /\ Visible /\ ~view.applying
  /\ Effective(f) = "skip" => priority = "normal"
  /\ Choose([view.pending EXCEPT ![f] = priority])

SelectAll ==
  /\ On("files") /\ Rows # {} /\ ~view.applying
  /\ Choose([f \in Files |-> IF Effective(f) = "skip" THEN "normal" ELSE view.pending[f]])

SelectNone ==
  /\ On("files") /\ Rows # {} /\ ~view.applying
  /\ Choose([f \in Files |-> "skip"])

AskToApply ==
  /\ On("files") /\ Rows # {} /\ Pending # {} /\ ~view.applying
  /\ dialog' = Over(Dialog("confirm", Gone))
  /\ UNCHANGED <<server, shown, asked, view, apart, sent>>

\* One call for each priority, in the order the user came to them, the files
\* to skip last: the worker turns down a torrent with no file selected.
Group(priority) == [priority |-> priority, files |-> {f \in Files : view.pending[f] = priority}]
Grouped(order) == [i \in DOMAIN order |-> Group(order[i])]
Chosen == {view.pending[f] : f \in Pending}
Orders(S) == {order \in [1..Cardinality(S) -> S] :
                \A i, j \in 1..Cardinality(S) : i # j => order[i] # order[j]}
Skipped == IF "skip" \in Chosen THEN <<"skip">> ELSE <<>>

\* Mistake: the groups go in any order.
UnorderedGroups == {Grouped(order) : order \in Orders(Chosen)}

OrderedGroups == {Grouped(order \o Skipped) : order \in Orders(Chosen \ {"skip"})}

\* What the files come to if nothing else happens ("saw", for the properties).
Outcome == [f \in Files |-> IF f \in Pending THEN view.pending[f] ELSE server.files[f]]

PerformApply ==
  /\ Top.is = "confirm" /\ Pending # {}
  /\ \E groups \in OrderedGroups : AskSeeing("apply", "files", Gone, groups, Outcome)
  /\ dialog' = CloseTop
  /\ view' = [view EXCEPT !.applying = TRUE, !.applyError = FALSE]
  /\ UNCHANGED <<server, shown>>

\* The next call goes out even when the tab is no longer there; if it is
\* refused, what was done before it is not loaded again.
NextGroup ==
  /\ \E r \in asked :
       /\ r.op = "apply" /\ r.state = "done" /\ Len(r.to) > 1
       /\ asked' = (asked \ {r}) \cup {[r EXCEPT !.to = Tail(r.to), !.state = "asked"]}
  /\ apart' = apart \cup {"files"}
  /\ UNCHANGED <<server, shown, dialog, view, sent>>

Applied ==
  /\ \E r \in Answers("apply", "done") : Len(r.to) = 1 /\ LoadAfter(r, "applying")
  /\ view' = [view EXCEPT !.loading = TRUE, !.error = FALSE]
  /\ UNCHANGED <<server, shown, dialog>>

AppliedUnheard ==
  /\ \E r \in asked : r.op = "apply" /\ ~r.heard /\ r.state # "asked"
                    /\ (r.state = "done" => Len(r.to) = 1) /\ Land(r)
  /\ UNCHANGED <<server, shown, dialog, view>>

ApplyRefused ==
  /\ \E r \in Answers("apply", "refused") : Land(r)
  /\ view' = [view EXCEPT !.applying = FALSE, !.applyError = TRUE]
  /\ UNCHANGED <<server, shown, dialog>>

-----------------------------------------------------------------------------
\* Trackers.
TypeUrl(u) == On("trackers") /\ ~view.adding /\ Look([view EXCEPT !.newUrl = u])

HandleAdd ==
  /\ On("trackers") /\ ~view.adding /\ view.newUrl # Gone
  /\ Ask("add", "trackers", view.newUrl, "there")
  /\ view' = [view EXCEPT !.adding = TRUE]
  /\ UNCHANGED <<server, shown, dialog>>

Added ==
  /\ \E r \in Answers("add", "done") : LoadAfter(r, "adding")
  /\ view' = [view EXCEPT !.newUrl = Gone, !.loading = TRUE, !.error = FALSE]
  /\ UNCHANGED <<server, shown, dialog>>

AddRefused ==
  /\ \E r \in Answers("add", "refused") : Land(r)
  /\ view' = [view EXCEPT !.adding = FALSE]
  /\ UNCHANGED <<server, shown, dialog>>

HandleRemove(u) ==
  /\ On("trackers") /\ Visible /\ u \in Rows \ (view.pendingUrls \cup {view.editing})
  /\ Ask("remove", "trackers", u, Gone)
  /\ view' = [view EXCEPT !.pendingUrls = @ \cup {u}]
  /\ UNCHANGED <<server, shown, dialog>>

Removed ==
  /\ \E r \in Answers("remove", "done") :
       /\ shown' = [shown EXCEPT !.trackers[r.on] = Gone]
       /\ view' = [view EXCEPT !.pendingUrls = @ \ {r.on}]
       /\ Land(r)
  /\ UNCHANGED <<server, dialog>>

StartEdit(u) == On("trackers") /\ Visible /\ u \in Rows /\ Look([view EXCEPT !.editing = u])
CancelEdit ==
  /\ On("trackers") /\ Visible /\ view.editing \in Rows
  /\ Look([view EXCEPT !.editing = Gone])

\* The same address again only ends the edit, as CancelEdit does.
HandleEditSave(u) ==
  /\ On("trackers") /\ Visible /\ view.editing \in Rows \ (view.pendingUrls \cup {u})
  /\ Ask("edit", "trackers", view.editing, u)
  /\ view' = [view EXCEPT !.pendingUrls = @ \cup {view.editing}]
  /\ UNCHANGED <<server, shown, dialog>>

Edited ==
  /\ \E r \in Answers("edit", "done") : LoadAfter(r, r.on)
  /\ view' = [view EXCEPT !.editing = Gone, !.loading = TRUE, !.error = FALSE]
  /\ UNCHANGED <<server, shown, dialog>>

ChangeRefused ==
  /\ \E r \in Answers("remove", "refused") \cup Answers("edit", "refused") :
       view' = [view EXCEPT !.pendingUrls = @ \ {r.on}] /\ Land(r)
  /\ UNCHANGED <<server, shown, dialog>>

-----------------------------------------------------------------------------
\* Peers.
AskToBan(p) ==
  /\ On("peers") /\ Visible /\ p \in Rows /\ view.banning # p
  /\ dialog' = Over(Dialog("ban", p))
  /\ UNCHANGED <<server, shown, asked, view, apart, sent>>

CloseDialog ==
  /\ dialog # Closed /\ dialog' = CloseTop
  /\ UNCHANGED <<server, shown, asked, view, apart, sent>>

ConfirmBan ==
  /\ Top.is = "ban"
  /\ Ask("ban", "peers", Top.on, Gone)
  /\ dialog' = CloseTop
  /\ view' = [view EXCEPT !.banning = Top.on]
  /\ UNCHANGED <<server, shown>>

Banned ==
  /\ \E r \in Answers("ban", "done") \cup Answers("ban", "refused") :
       /\ shown' = IF r.state = "done" THEN [shown EXCEPT !.peers[r.on] = Gone] ELSE shown
       /\ Land(r)
  /\ view' = [view EXCEPT !.banning = Gone]
  /\ UNCHANGED <<server, dialog>>

-----------------------------------------------------------------------------
Effect(r) ==
  CASE r.op = "load" -> server
    [] r.op = "apply" -> [server EXCEPT !.files = [f \in Files |-> IF f \in Head(r.to).files
                                                                   THEN Head(r.to).priority ELSE @[f]]]
    [] r.op = "edit" -> [server EXCEPT !.trackers[r.on] = Gone, !.trackers[r.to] = "there"]
    [] OTHER -> [server EXCEPT ![r.list][r.on] = r.to]
Accepts(r) == r.op = "edit" => Present(r)

Next ==
  \/ \E tab \in Tabs : OpenTab(tab)
  \/ Retry \/ TabLoaded
  \/ \E f \in Files, priority \in Priorities : SetPendingPriority(f, priority)
  \/ SelectAll \/ SelectNone \/ AskToApply \/ PerformApply \/ NextGroup \/ Applied \/ AppliedUnheard \/ ApplyRefused
  \/ \E u \in Urls : TypeUrl(u) \/ HandleRemove(u) \/ StartEdit(u) \/ HandleEditSave(u)
  \/ HandleAdd \/ Added \/ AddRefused \/ Removed \/ CancelEdit \/ Edited \/ ChangeRefused
  \/ \E p \in Peers : AskToBan(p)
  \/ CloseDialog \/ ConfirmBan \/ Banned
  \/ NobodyHears({"add", "remove", "edit", "ban"})
  \/ Serve(Effect, Accepts)

-----------------------------------------------------------------------------
TypeOK ==
  /\ server.files \in [Files -> Priorities] /\ shown.files \in [Files -> Priorities \cup {Gone}]
  /\ \A list \in {server, shown} : /\ list.trackers \in [Urls -> {"there", Gone}]
                                   /\ list.peers \in [Peers -> {"there", Gone}]
  /\ view \in [tab : Tabs, loading : BOOLEAN, error : BOOLEAN, pending : [Files -> Priorities \cup {Gone}],
               applying : BOOLEAN, applyError : BOOLEAN, newUrl : Urls \cup {Gone}, adding : BOOLEAN,
               pendingUrls : SUBSET Urls, editing : Urls \cup {Gone}, banning : Peers \cup {Gone}]

ListsShowServer == ShowsServer(DOMAIN shown)
SpinnersHaveRequests ==
  /\ view.loading => Waiting("load")
  /\ view.applying => Waiting("apply") \/ Waiting("load")
  /\ view.adding => Waiting("add") \/ Waiting("load")
  /\ \A u \in view.pendingUrls : \E r \in asked : r.on = u \/ r.to = u
  /\ view.banning # Gone => Waiting("ban")
Work == <<dialog, view.newUrl, view.editing, view.pending>>

\* A torrent is not left without a selected file on the way to a batch that
\* leaves some selected, unless another request, of whatever kind, was under way
\* beside the batch at some time (~r.alone): it may have changed the files.
NothingSelected == \A f \in Files : server.files[f] = "skip"
BatchKeepsASelection ==
  (~NothingSelected /\ NothingSelected') =>
    \E r \in asked : r.op = "apply" /\ (~r.alone \/ \A f \in Files : r.saw[f] = "skip")

=============================================================================
