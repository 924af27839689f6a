--------------------------- MODULE WebAdminProofs ---------------------------
(***************************************************************************)
(* The administration pages of the web client, and the lists in the tabs   *)
(* of a torrent's details, for any lists and any number of requests: every *)
(* variable keeps its type, a list shows what the backend holds when       *)
(* nothing is under way, and no spinner turns without the request that     *)
(* will end it.                                                            *)
(***************************************************************************)
EXTENDS WebPagesProofs

-----------------------------------------------------------------------------
(* Tags.tsx. *)

TagForms == {"tag", "merge", "derive", "quick"}
TagAsks(r) ==
  /\ Asks(r)
  /\ r.list = "tags" /\ r.op \in TagsPage!Ops \cup {"load", "delete"}
  /\ r.op \in TagsPage!Ops \cup {"delete"} => r.on \in SUBSET Tags
  /\ r.op \in {"create", "update", "derive", "quick"} => r.to \in TagsPage!Colors
  /\ r.op = "merge" => r.to \in Tags
  /\ r.op = "delete" => r.to = Gone
  /\ r.op = "load" /\ r.state = "done" => r.saw \in [Tags -> TagsPage!Colors \cup {Gone}]
TagDialogs ==
  [is : {"tag"}, on : Tags \cup {"none"}] \cup [is : {"merge"}, on : {"none"}]
    \cup [is : {"derive", "delete"}, on : Tags]
TagViews ==
  [loading : BOOLEAN, busy : SUBSET TagForms, color : TagsPage!Colors, sources : SUBSET Tags,
   target : Tags \cup {"none"}]

\* Nothing is patched here: the list is what the backend holds until a change is
\* done, and the load that follows it shows it.
TagsAgree ==
  /\ Solo /\ FreshLoads
  /\ "tags" \notin apart =>
       shown.tags = server.tags \/ \E r \in asked : r.op # "load" /\ r.state = "done"
TagsWait ==
  /\ view.loading => \E r \in asked : r.op = "load"
  /\ \A f \in view.busy : \E r \in asked : TagsPage!Form(r.op) = f \/ (r.op = "load" /\ r.to = f)
TagsInv ==
  /\ server \in TagsPage!Lists /\ shown \in TagsPage!Lists
  /\ view \in TagViews /\ dialog \in Seq(TagDialogs)
  /\ \A r \in asked : TagAsks(r)
  /\ TagsAgree /\ TagsWait

LEMMA TagsIdle ==
  ASSUME TagsInv, UNCHANGED <<server, shown, asked, apart>>,
         view' \in TagViews, dialog' \in Seq(TagDialogs),
         view'.loading = view.loading, view'.busy = view.busy
  PROVE  TagsInv'
<1>1. TagsAgree'
  BY DEF TagsInv, TagsAgree, Solo, FreshLoads
<1>2. TagsWait'
  BY DEF TagsInv, TagsWait
<1> QED BY <1>1, <1>2 DEF TagsInv

LEMMA TagsOpen ==
  ASSUME TagsInv, NEW is, NEW on, NEW form, [is |-> is, on |-> on] \in TagDialogs,
         form \in TagViews, form.loading = view.loading, form.busy = view.busy,
         TagsPage!Open(is, on, form)
  PROVE  TagsInv'
<1>1. dialog' = Append(dialog, [is |-> is, on |-> on]) /\ view' = form
      /\ UNCHANGED <<server, shown, asked, apart>>
  BY DEF TagsPage!Open, TagsPage!Over, TagsPage!Dialog
<1>2. dialog' \in Seq(TagDialogs)
  BY <1>1 DEF TagsInv
<1> QED BY <1>1, <1>2, TagsIdle

LEMMA TagsType ==
  ASSUME TagsInv, NEW form \in TagViews, form.loading = view.loading, form.busy = view.busy,
         TagsPage!Type(form)
  PROVE  TagsInv'
  BY TagsIdle DEF TagsPage!Type, TagsInv

LEMMA TagsTop ==
  ASSUME TagsInv, TagsPage!Top.is # "none"
  PROVE  TagsPage!Top \in TagDialogs
<1>1. dialog # <<>>
  BY DEF TagsPage!Top, TagsPage!Closed
<1>2. Len(dialog) \in 1..Len(dialog) /\ TagsPage!Top = dialog[Len(dialog)]
  BY <1>1 DEF TagsInv, TagsPage!Top, TagsPage!Closed
<1> QED BY <1>2 DEF TagsInv

LEMMA TagsLook ==
  ASSUME TagsInv,
         \/ TagsPage!NewTag \/ TagsPage!OpenMergeForCluster \/ TagsPage!CloseDialog
         \/ \E g \in Tags : \/ TagsPage!StartEditTag(g) \/ TagsPage!OpenRename(g)
                            \/ TagsPage!OpenDerive(g) \/ TagsPage!OpenDelete(g)
         \/ TagsPage!ChooseColor \/ TagsPage!EditSources \/ TagsPage!TypeTarget
  PROVE  TagsInv'
<1>1. view \in TagViews /\ dialog \in Seq(TagDialogs) /\ shown \in TagsPage!Lists
  BY DEF TagsInv
<1>2. CASE TagsPage!NewTag
  <2> DEFINE form == [view EXCEPT !.color = "plain"]
  <2>1. form \in TagViews /\ form.loading = view.loading /\ form.busy = view.busy
    BY <1>1 DEF TagViews, TagsPage!Colors
  <2>2. [is |-> "tag", on |-> "none"] \in TagDialogs
    BY DEF TagDialogs
  <2> HIDE DEF form
  <2> QED BY <1>2, <2>1, <2>2, TagsOpen DEF TagsPage!NewTag, TagsPage!None, form
<1>3. CASE TagsPage!OpenMergeForCluster
  <2>1. PICK g \in TagsPage!MergeCandidates :
          TagsPage!Open("merge", "none",
            [view EXCEPT !.sources = TagsPage!MergeCandidates \ {g}, !.target = g])
    BY <1>3 DEF TagsPage!OpenMergeForCluster, TagsPage!None
  <2>2. TagsPage!MergeCandidates \subseteq Tags
    BY DEF TagsPage!MergeCandidates, TagsPage!Rows
  <2> DEFINE form == [view EXCEPT !.sources = TagsPage!MergeCandidates \ {g}, !.target = g]
  <2>3. form \in TagViews /\ form.loading = view.loading /\ form.busy = view.busy
    BY <1>1, <2>2 DEF TagViews
  <2>4. [is |-> "merge", on |-> "none"] \in TagDialogs
    BY DEF TagDialogs
  <2>5. TagsPage!Open("merge", "none", form)
    BY <2>1
  <2> HIDE DEF form
  <2> QED BY <2>3, <2>4, <2>5, TagsOpen
<1>4. CASE TagsPage!CloseDialog
  <2>1. view' \in TagViews /\ view'.loading = view.loading /\ view'.busy = view.busy
    BY <1>1, <1>4 DEF TagsPage!CloseDialog, TagsPage!Blank, TagsPage!None, TagViews, TagsPage!Colors
  <2>2. dialog' \in Seq(TagDialogs)
    <3>1. Len(dialog) \in Nat /\ dialog' = SubSeq(dialog, 1, Len(dialog) - 1)
      BY <1>1, <1>4 DEF TagsPage!CloseDialog, TagsPage!CloseTop
    <3> QED BY <1>1, <3>1
  <2> QED BY <1>4, <2>1, <2>2, TagsIdle DEF TagsPage!CloseDialog
<1>5. ASSUME NEW g \in Tags, TagsPage!StartEditTag(g) PROVE TagsInv'
  <2> DEFINE form == [view EXCEPT !.color = shown.tags[g]]
  <2>1. shown.tags[g] \in TagsPage!Colors
    BY <1>1, <1>5 DEF TagsPage!StartEditTag, TagsPage!Rows, TagsPage!Lists
  <2>2. form \in TagViews /\ form.loading = view.loading /\ form.busy = view.busy
    BY <1>1, <2>1 DEF TagViews
  <2>3. [is |-> "tag", on |-> g] \in TagDialogs
    BY DEF TagDialogs
  <2> HIDE DEF form
  <2> QED BY <1>5, <2>2, <2>3, TagsOpen DEF TagsPage!StartEditTag, form
<1>6. ASSUME NEW g \in Tags, TagsPage!OpenRename(g) PROVE TagsInv'
  <2> DEFINE form == [view EXCEPT !.sources = {g}, !.target = "none"]
  <2>1. form \in TagViews /\ form.loading = view.loading /\ form.busy = view.busy
    BY <1>1 DEF TagViews
  <2>2. [is |-> "merge", on |-> "none"] \in TagDialogs
    BY DEF TagDialogs
  <2> HIDE DEF form
  <2> QED BY <1>6, <2>1, <2>2, TagsOpen DEF TagsPage!OpenRename, TagsPage!None, form
<1>7. ASSUME NEW g \in Tags, TagsPage!OpenDerive(g) \/ TagsPage!OpenDelete(g) PROVE TagsInv'
  <2>1. [is |-> "derive", on |-> g] \in TagDialogs /\ [is |-> "delete", on |-> g] \in TagDialogs
    BY DEF TagDialogs
  <2> QED BY <1>1, <1>7, <2>1, TagsOpen DEF TagsPage!OpenDerive, TagsPage!OpenDelete
<1>8. CASE TagsPage!ChooseColor
  <2>1. PICK c \in TagsPage!Colors : TagsPage!Type([view EXCEPT !.color = c])
    BY <1>8 DEF TagsPage!ChooseColor
  <2> DEFINE form == [view EXCEPT !.color = c]
  <2>2. form \in TagViews /\ form.loading = view.loading /\ form.busy = view.busy
    BY <1>1 DEF TagViews
  <2> HIDE DEF form
  <2> QED BY <2>1, <2>2, TagsType DEF form
<1>9. CASE TagsPage!EditSources
  <2>1. PICK g \in Tags : \/ TagsPage!Type([view EXCEPT !.sources = view.sources \cup {g}])
                          \/ TagsPage!Type([view EXCEPT !.sources = view.sources \ {g}])
    BY <1>9 DEF TagsPage!EditSources
  <2> DEFINE more == [view EXCEPT !.sources = view.sources \cup {g}]
             less == [view EXCEPT !.sources = view.sources \ {g}]
  <2>2. /\ more \in TagViews /\ more.loading = view.loading /\ more.busy = view.busy
        /\ less \in TagViews /\ less.loading = view.loading /\ less.busy = view.busy
    BY <1>1 DEF TagViews
  <2> HIDE DEF more, less
  <2> QED BY <2>1, <2>2, TagsType DEF more, less
<1>10. CASE TagsPage!TypeTarget
  <2>1. PICK g \in Tags : TagsPage!Type([view EXCEPT !.target = g])
    BY <1>10 DEF TagsPage!TypeTarget
  <2> DEFINE form == [view EXCEPT !.target = g]
  <2>2. form \in TagViews /\ form.loading = view.loading /\ form.busy = view.busy
    BY <1>1 DEF TagViews
  <2> HIDE DEF form
  <2> QED BY <2>1, <2>2, TagsType DEF form
<1> QED BY <1>2, <1>3, <1>4, <1>5, <1>6, <1>7, <1>8, <1>9, <1>10

LEMMA TagRequest ==
  ASSUME NEW op \in TagsPage!Ops \cup {"load", "delete"}, NEW on, NEW to,
         op \in TagsPage!Ops \cup {"delete"} => on \in SUBSET Tags,
         op \in {"create", "update", "derive", "quick"} => to \in TagsPage!Colors,
         op = "merge" => to \in Tags,
         op = "delete" => to = Gone
  PROVE  TagAsks(Request(op, "tags", on, to, Gone))
<1> DEFINE q == Request(op, "tags", on, to, Gone)
<1>1. Asks(q)
  BY RequestAsks
<1>2. q.op = op /\ q.list = "tags" /\ q.on = on /\ q.to = to /\ q.state = "asked"
  BY DEF Request
<1> HIDE DEF q
<1> QED BY <1>1, <1>2 DEF TagAsks, q

LEMMA TagsAsk ==
  ASSUME TagsInv, NEW op \in TagsPage!Ops \cup {"load", "delete"}, NEW on, NEW to,
         TagsPage!Ask(op, "tags", on, to), UNCHANGED <<server, shown, dialog>>,
         op \in TagsPage!Ops \cup {"delete"} => on \in SUBSET Tags,
         op \in {"create", "update", "derive", "quick"} => to \in TagsPage!Colors,
         op = "merge" => to \in Tags,
         op = "delete" => to = Gone,
         view' \in TagViews, view'.loading => view.loading \/ op = "load",
         \A f \in view'.busy : f \in view.busy \/ f = TagsPage!Form(op)
  PROVE  TagsInv'
<1> DEFINE q == Request(op, "tags", on, to, Gone)
<1>1. asked' = Add(asked, q) /\ apart' = IF asked = {} THEN apart ELSE DOMAIN shown
  BY DEF TagsPage!Ask, TagsPage!AskSeeing, TagsPage!Add, TagsPage!Request, Add, Request
<1>2. TagAsks(q) /\ q.op = op /\ q.state = "asked"
  BY TagRequest DEF Request
<1>3. \A r \in asked : TagAsks(r) /\ Asks(r)
  BY DEF TagsInv, TagAsks
<1>4. /\ \A r \in asked' : Asks(r) /\ \E p \in asked \cup {q} : Same(r, p)
      /\ \A p \in asked \cup {q} : \E r \in asked' : Twin(r, p)
      /\ Solo'
      /\ \/ asked = {} /\ apart' = apart /\ \A r \in asked' : Same(r, q)
         \/ Crowded'
  <2> HIDE DEF q
  <2>1. Solo
    BY DEF TagsInv, TagsAgree
  <2> QED BY <1>1, <1>3, <2>1, AskSolo DEF q
<1> HIDE DEF q
<1>5. \A r \in asked' : TagAsks(r)
  BY <1>2, <1>3, <1>4 DEF TagAsks, Same
<1>6. TagsAgree'
  <2>1. CASE Crowded'
    BY <1>4, <2>1 DEF Crowded, FreshLoads, TagsAgree, TagsInv, TagsPage!Lists
  <2>2. CASE asked = {} /\ apart' = apart /\ \A r \in asked' : Same(r, q)
    BY <1>2, <1>4, <2>2 DEF FreshLoads, TagsAgree, TagsInv, Same
  <2> QED BY <1>4, <2>1, <2>2
<1>7. TagsWait'
  BY <1>2, <1>4 DEF TagsWait, TagsInv, Twin
<1> QED BY <1>5, <1>6, <1>7 DEF TagsInv

LEMMA TagsAsks ==
  ASSUME TagsInv,
         \/ TagsPage!HandleRefresh \/ TagsPage!SubmitTag \/ TagsPage!SubmitMerge
         \/ TagsPage!SubmitDerive \/ TagsPage!QuickAdd \/ TagsPage!DeleteTag
  PROVE  TagsInv'
<1>1. view \in TagViews
  BY DEF TagsInv
<1>2. CASE TagsPage!HandleRefresh
  <2>1. view' = [view EXCEPT !.loading = TRUE]
    BY <1>2 DEF TagsPage!HandleRefresh, TagsPage!Load
  <2>2. view' \in TagViews /\ view'.busy = view.busy
    BY <1>1, <2>1 DEF TagViews
  <2>3. "load" \notin TagsPage!Ops \cup {"delete"}
    BY DEF TagsPage!Ops
  <2> QED BY <1>2, <2>2, <2>3, TagsAsk DEF TagsPage!HandleRefresh, TagsPage!Load
<1>3. ASSUME NEW op \in TagsPage!Ops, NEW on \in SUBSET Tags, NEW to,
             op = "merge" => to \in Tags, op # "merge" => to \in TagsPage!Colors,
             TagsPage!Submit(op, on, to)
      PROVE  TagsInv'
  <2>1. /\ TagsPage!Ask(op, "tags", on, to) /\ UNCHANGED <<server, shown, dialog>>
        /\ view' = [view EXCEPT !.busy = view.busy \cup {TagsPage!Form(op)}]
    BY <1>3 DEF TagsPage!Submit
  <2>2. TagsPage!Form(op) \in TagForms
    BY DEF TagsPage!Form, TagsPage!Ops, TagForms
  <2>3. /\ view' \in TagViews /\ view'.loading = view.loading
        /\ view'.busy = view.busy \cup {TagsPage!Form(op)}
    BY <1>1, <2>1, <2>2 DEF TagViews
  <2>4. op # "delete"
    BY DEF TagsPage!Ops
  <2> QED BY <1>3, <2>1, <2>3, <2>4, TagsAsk
<1>4. /\ {"create", "update", "merge", "derive", "quick"} = TagsPage!Ops
      /\ view.color \in TagsPage!Colors /\ "plain" \in TagsPage!Colors
      /\ view.sources \in SUBSET Tags /\ view.target \in Tags \cup {"none"}
  BY <1>1 DEF TagsPage!Ops, TagsPage!Colors, TagViews
<1>5. CASE TagsPage!SubmitTag
  <2>1. TagsPage!Top \in TagDialogs /\ TagsPage!Top.is = "tag"
    BY <1>5, TagsTop DEF TagsPage!SubmitTag
  <2>2. TagsPage!Top.on \in Tags \cup {"none"}
    BY <2>1 DEF TagDialogs
  <2>3. \/ \E g \in Tags : TagsPage!Submit("create", {g}, view.color)
        \/ TagsPage!Top.on \in Tags /\ TagsPage!Submit("update", {TagsPage!Top.on}, view.color)
    BY <1>5, <2>2 DEF TagsPage!SubmitTag, TagsPage!None
  <2> QED BY <1>3, <1>4, <2>3
<1>6. CASE TagsPage!SubmitMerge
  BY <1>3, <1>4, <1>6 DEF TagsPage!SubmitMerge, TagsPage!None
<1>7. CASE TagsPage!SubmitDerive
  BY <1>3, <1>4, <1>7 DEF TagsPage!SubmitDerive
<1>8. CASE TagsPage!QuickAdd
  BY <1>3, <1>4, <1>8 DEF TagsPage!QuickAdd
<1>9. CASE TagsPage!DeleteTag
  <2>1. TagsPage!Top \in TagDialogs /\ TagsPage!Top.is = "delete"
    BY <1>9, TagsTop DEF TagsPage!DeleteTag
  <2>2. {TagsPage!Top.on} \in SUBSET Tags
    BY <2>1 DEF TagDialogs
  <2> QED BY <1>1, <1>9, <2>2, TagsAsk DEF TagsPage!DeleteTag
<1> QED BY <1>2, <1>5, <1>6, <1>7, <1>8, <1>9

\* A handler has its answer, and loads the list again.
LEMMA TagsFollow ==
  ASSUME TagsInv, NEW r \in asked, r.op # "load", TagsPage!Follow(r), dialog' \in Seq(TagDialogs)
  PROVE  TagsInv'
<1> DEFINE others == asked \ {r}
           to == TagsPage!Form(r.op)
           q == Request("load", "tags", Gone, to, Gone)
<1>1. /\ asked' = Add(others, q) /\ apart' = DOMAIN shown
      /\ view' = [view EXCEPT !.loading = TRUE] /\ UNCHANGED <<server, shown>>
  BY DEF TagsPage!Follow, TagsPage!Add, TagsPage!Request, Add, Request
<1>2. TagAsks(q) /\ q.op = "load" /\ q.state = "asked" /\ q.to = to
  <2>1. "load" \notin TagsPage!Ops \cup {"delete"}
    BY DEF TagsPage!Ops
  <2> HIDE DEF to
  <2> QED BY <2>1, TagRequest DEF Request
<1>3. /\ \A p \in asked : TagAsks(p) /\ Asks(p)
      /\ view \in TagViews /\ DOMAIN shown = {"tags"} /\ others \in SUBSET asked
  BY DEF TagsInv, TagAsks, TagsPage!Lists
<1> HIDE DEF others, to
<1>4. /\ \A p \in asked' : Asks(p) /\ \E x \in others \cup {q} : Same(p, x)
      /\ \A p \in others \cup {q} : \E x \in asked' : Twin(x, p)
      /\ Solo'
  BY <1>1, <1>3, FollowSolo
<1> HIDE DEF q
<1>5. \A p \in asked' : TagAsks(p)
  BY <1>2, <1>3, <1>4 DEF TagAsks, Same
<1>6. TagsAgree'
  <2>1. FreshLoads'
    <3>1. ASSUME NEW p \in asked', p.state = "done", p.alone PROVE FALSE
      <4>1. PICK x \in others \cup {q} : Same(p, x)
        BY <1>4
      <4>2. asked' = {p}
        BY <1>4, <3>1 DEF Solo
      <4>3. PICK y \in asked' : Same(y, q)
        <5>1. q \in others \cup {q}
          OBVIOUS
        <5>2. \E y \in asked' : Same(y, q)
          BY <1>1, <1>3, <5>1, AddAsks, <1>2 DEF TagAsks
        <5> QED BY <5>2
      <4> QED BY <1>2, <3>1, <4>2, <4>3 DEF Same
    <3> QED BY <3>1 DEF FreshLoads
  <2> QED BY <1>1, <1>3, <1>4, <2>1 DEF TagsAgree
<1>7. view' \in TagViews /\ view'.busy = view.busy
  BY <1>1, <1>3 DEF TagViews
<1>8. TagsWait'
  <2>1. \E x \in asked' : x.op = "load" /\ x.to = to
    BY <1>2, <1>4 DEF Twin
  <2>2. ASSUME NEW f \in view'.busy
        PROVE  \E x \in asked' : TagsPage!Form(x.op) = f \/ (x.op = "load" /\ x.to = f)
    <3>1. PICK p \in asked : TagsPage!Form(p.op) = f \/ (p.op = "load" /\ p.to = f)
      BY <1>7, <2>2 DEF TagsInv, TagsWait
    <3>2. CASE p = r
      BY <2>1, <3>1, <3>2 DEF to
    <3>3. CASE p # r
      BY <1>4, <3>1, <3>3 DEF Twin, others
    <3> QED BY <3>2, <3>3
  <2> QED BY <2>1, <2>2 DEF TagsWait
<1> QED BY <1>1, <1>5, <1>6, <1>7, <1>8 DEF TagsInv

\* An answer is taken that leaves the list as it is, or brings it.
LEMMA TagsLand ==
  ASSUME TagsInv, NEW r \in asked, TagsPage!Land(r), server' = server,
         \/ shown' = shown /\ r.state = "refused"
         \/ r.op = "load" /\ r.state = "done" /\ shown' = [shown EXCEPT !.tags = r.saw]
  PROVE  /\ shown' \in TagsPage!Lists /\ server' \in TagsPage!Lists
         /\ asked' = asked \ {r} /\ \A q \in asked' : TagAsks(q)
         /\ TagsAgree'
<1>1. /\ TagAsks(r) /\ DOMAIN shown = {"tags"} /\ shown \in TagsPage!Lists
      /\ server \in TagsPage!Lists /\ DOMAIN server = {"tags"}
  BY DEF TagsInv, TagsPage!Lists
<1>2. /\ asked' = asked \ {r}
      /\ apart' = IF r.op = "load" /\ r.state = "done" /\ r.alone THEN apart \ {r.list} ELSE apart
  BY DEF TagsPage!Land
<1>3. /\ shown' \in TagsPage!Lists /\ DOMAIN shown' = DOMAIN shown
      /\ r.state = "done" => shown'.tags = r.saw
  BY <1>1 DEF TagAsks, TagsPage!Lists
<1>4. Solo' /\ ((r.alone /\ asked' = {}) \/ (~r.alone /\ apart' = apart /\ Crowded'))
  <2>1. apart' = apart \/ (r.alone /\ apart' = apart \ {r.list})
    BY <1>2
  <2> QED BY <1>2, <1>3, <2>1, LandSolo DEF TagsInv, TagsAgree
<1>5. TagsAgree'
  <2>1. CASE Crowded'
    BY <1>1, <1>3, <1>4, <2>1 DEF Crowded, FreshLoads, TagsAgree
  <2>2. CASE r.alone /\ asked' = {}
    <3>1. asked = {r} /\ r.list = "tags"
      BY <1>1, <1>2, <2>2 DEF TagAsks
    <3>2. CASE r.state = "done"
      <4>1. r.saw = server.tags
        BY <2>2, <3>1, <3>2 DEF TagsInv, TagsAgree, FreshLoads
      <4> QED BY <1>3, <1>4, <2>2, <3>2, <4>1 DEF TagsAgree, FreshLoads
    <3>3. CASE r.state = "refused"
      <4>1. "tags" \notin apart => shown.tags = server.tags
        BY <3>1, <3>3 DEF TagsInv, TagsAgree
      <4> QED BY <1>2, <1>4, <2>2, <3>3, <4>1 DEF TagsAgree, FreshLoads
    <3> QED BY <3>2, <3>3
  <2> QED BY <1>4, <2>1, <2>2
<1> QED BY <1>1, <1>2, <1>3, <1>5 DEF TagsInv

LEMMA TagsLands ==
  ASSUME TagsInv,
         \/ TagsPage!TagsChanged \/ TagsPage!TagDeleted \/ TagsPage!TagsLoaded
         \/ TagsPage!SubmitRefused \/ TagsPage!Refused({"delete"})
  PROVE  TagsInv'
<1>1. view \in TagViews /\ dialog \in Seq(TagDialogs) /\ \A r \in asked : TagAsks(r)
  BY DEF TagsInv
<1>2. \A kinds : TagsPage!Without(kinds) \in Seq(TagDialogs)
  <2>1. \A kinds : Without(kinds) \in Seq(TagDialogs)
    BY <1>1, WithoutTakes
  <2>2. \A kinds : TagsPage!Without(kinds) = Without(kinds)
    BY DEF TagsPage!Without, TagsPage!Only, TagsPage!Cardinality, Without, Only, Cardinality
  <2> QED BY <2>1, <2>2
<1>3. CASE TagsPage!TagsChanged
  <2>1. PICK r \in asked : r.op \in TagsPage!Ops /\ TagsPage!Follow(r) /\ dialog' = dialog
    BY <1>3 DEF TagsPage!TagsChanged, TagsPage!Answers
  <2>2. r.op # "load"
    BY <2>1 DEF TagsPage!Ops
  <2> QED BY <1>1, <2>1, <2>2, TagsFollow
<1>4. CASE TagsPage!TagDeleted
  <2>1. PICK r \in asked : r.op = "delete" /\ TagsPage!Follow(r)
    BY <1>4 DEF TagsPage!TagDeleted, TagsPage!Answers
  <2> QED BY <1>2, <1>4, <2>1, TagsFollow DEF TagsPage!TagDeleted
<1>5. CASE TagsPage!TagsLoaded
  <2>1. PICK r \in asked :
          /\ r.op = "load" /\ r.state \in {"done", "refused"}
          /\ shown' = IF r.state = "done" THEN [shown EXCEPT !.tags = r.saw] ELSE shown
          /\ dialog' = TagsPage!Without({r.to} \ {"delete"})
          /\ LET over == [view EXCEPT !.loading = FALSE, !.busy = view.busy \ {r.to}]
             IN  view' = IF dialog' = <<>> THEN TagsPage!Blank(over) ELSE over
          /\ TagsPage!Land(r) /\ server' = server
    BY <1>5 DEF TagsPage!TagsLoaded, TagsPage!Answers, TagsPage!Closed
  <2>2. /\ shown' \in TagsPage!Lists /\ server' \in TagsPage!Lists
        /\ asked' = asked \ {r} /\ \A q \in asked' : TagAsks(q)
        /\ TagsAgree'
    BY <2>1, TagsLand
  <2>3. view' \in TagViews /\ view'.loading = FALSE /\ view'.busy = view.busy \ {r.to}
    <3> DEFINE over == [view EXCEPT !.loading = FALSE, !.busy = view.busy \ {r.to}]
    <3>1. over \in TagViews /\ over.loading = FALSE /\ over.busy = view.busy \ {r.to}
      BY <1>1 DEF TagViews
    <3>2. view' = over \/ view' = TagsPage!Blank(over)
      BY <2>1
    <3> HIDE DEF over
    <3>3. LET v == TagsPage!Blank(over) IN v \in TagViews /\ v.loading = over.loading /\ v.busy = over.busy
      BY <3>1 DEF TagsPage!Blank, TagsPage!None, TagViews, TagsPage!Colors
    <3> QED BY <3>1, <3>2, <3>3
  <2>4. TagsWait'
    <3>1. ASSUME NEW f \in view'.busy
          PROVE  \E q \in asked' : TagsPage!Form(q.op) = f \/ (q.op = "load" /\ q.to = f)
      <4>1. f \in view.busy /\ f # r.to /\ f \in TagForms
        BY <1>1, <2>3, <3>1 DEF TagViews
      <4>2. PICK q \in asked : TagsPage!Form(q.op) = f \/ (q.op = "load" /\ q.to = f)
        BY <4>1 DEF TagsInv, TagsWait
      <4>3. TagsPage!Form("load") \notin TagForms
        BY DEF TagsPage!Form, TagForms
      <4> QED BY <2>1, <2>2, <4>1, <4>2, <4>3
    <3> QED BY <2>3, <3>1 DEF TagsWait
  <2>5. dialog' \in Seq(TagDialogs)
    BY <1>2, <2>1
  <2> QED BY <2>2, <2>3, <2>4, <2>5 DEF TagsInv
<1>6. CASE TagsPage!SubmitRefused
  <2>1. PICK r \in asked :
          /\ r.op \in TagsPage!Ops /\ r.state = "refused"
          /\ view' = [view EXCEPT !.busy = view.busy \ {TagsPage!Form(r.op)}]
          /\ TagsPage!Land(r) /\ UNCHANGED <<server, shown, dialog>>
    BY <1>6 DEF TagsPage!SubmitRefused
  <2>2. /\ shown' \in TagsPage!Lists /\ server' \in TagsPage!Lists
        /\ asked' = asked \ {r} /\ \A q \in asked' : TagAsks(q)
        /\ TagsAgree'
    BY <2>1, TagsLand
  <2>3. /\ view' \in TagViews /\ view'.loading = view.loading
        /\ view'.busy = view.busy \ {TagsPage!Form(r.op)}
    BY <1>1, <2>1 DEF TagViews
  <2>4. TagsWait'
    <3>1. r.op # "load"
      BY <2>1 DEF TagsPage!Ops
    <3> QED BY <2>2, <2>3, <3>1 DEF TagsWait, TagsInv
  <2> QED BY <1>1, <2>1, <2>2, <2>3, <2>4 DEF TagsInv
<1>7. CASE TagsPage!Refused({"delete"})
  <2>1. PICK r \in asked :
          /\ r.op = "delete" /\ r.state = "refused"
          /\ TagsPage!Land(r) /\ UNCHANGED <<server, shown, dialog, view>>
    BY <1>7 DEF TagsPage!Refused
  <2>2. /\ shown' \in TagsPage!Lists /\ server' \in TagsPage!Lists
        /\ asked' = asked \ {r} /\ \A q \in asked' : TagAsks(q)
        /\ TagsAgree'
    BY <2>1, TagsLand
  <2>3. TagsWait'
    <3>1. TagsPage!Form("delete") \notin TagForms /\ view.busy \subseteq TagForms
      BY <1>1 DEF TagsPage!Form, TagForms, TagViews
    <3> QED BY <2>1, <2>2, <3>1 DEF TagsWait, TagsInv
  <2> QED BY <1>1, <2>1, <2>2, <2>3 DEF TagsInv
<1> QED BY <1>3, <1>4, <1>5, <1>6, <1>7

LEMMA TagsEffect ==
  ASSUME TagsInv, NEW r, TagAsks(r)
  PROVE  TagsPage!Effect(r) \in TagsPage!Lists /\ (r.op = "load" => TagsPage!Effect(r) = server)
<1>1. server \in TagsPage!Lists /\ server.tags \in [Tags -> TagsPage!Colors \cup {Gone}]
  BY DEF TagsInv, TagsPage!Lists
<1>2. CASE r.op = "load"
  BY <1>1, <1>2 DEF TagsPage!Effect
<1>3. CASE r.op = "merge"
  <2>1. TagsPage!Merged(r) \in [Tags -> TagsPage!Colors \cup {Gone}]
    BY <1>1 DEF TagsPage!Merged, TagsPage!Colors
  <2>2. TagsPage!Effect(r) = [server EXCEPT !.tags = TagsPage!Merged(r)]
    BY <1>3 DEF TagsPage!Effect
  <2> QED BY <1>1, <1>3, <2>1, <2>2 DEF TagsPage!Lists
<1>4. CASE r.op = "derive"
  <2>1. r.to \in TagsPage!Colors
    BY <1>4 DEF TagAsks
  <2> DEFINE after == [g \in Tags |-> IF g \in r.on /\ server.tags[g] = Gone THEN r.to ELSE server.tags[g]]
  <2>2. after \in [Tags -> TagsPage!Colors \cup {Gone}]
    BY <1>1, <2>1
  <2>3. TagsPage!Effect(r) = [server EXCEPT !.tags = after]
    BY <1>4 DEF TagsPage!Effect
  <2> HIDE DEF after
  <2> QED BY <1>1, <1>4, <2>2, <2>3 DEF TagsPage!Lists
<1>5. CASE r.op \in {"create", "update", "quick", "delete"}
  <2>1. r.to \in TagsPage!Colors \cup {Gone}
    BY <1>5 DEF TagAsks
  <2> DEFINE after == [g \in Tags |-> IF g \in r.on THEN r.to ELSE server.tags[g]]
  <2>2. after \in [Tags -> TagsPage!Colors \cup {Gone}]
    BY <1>1, <2>1
  <2>3. TagsPage!Effect(r) = [server EXCEPT !.tags = after]
    BY <1>5 DEF TagsPage!Effect
  <2> HIDE DEF after
  <2> QED BY <1>1, <1>5, <2>2, <2>3 DEF TagsPage!Lists
<1> QED BY <1>2, <1>3, <1>4, <1>5 DEF TagAsks, TagsPage!Ops

LEMMA TagsServed ==
  ASSUME TagsInv, TagsPage!Serve(TagsPage!Effect, TagsPage!Accepts)
  PROVE  TagsInv'
<1>1. PICK r \in asked :
        /\ r.state = "asked"
        /\ \/ /\ TagsPage!Accepts(r)
              /\ server' = TagsPage!Effect(r)
              /\ asked' = (asked \ {r}) \cup {Answer(r)}
              /\ apart' = apart
           \/ /\ asked' = (asked \ {r}) \cup {Refusal(r)}
              /\ server' = server /\ apart' = apart
           \/ /\ TagsPage!Accepts(r)
              /\ server' = TagsPage!Effect(r)
              /\ asked' = (asked \ {r}) \cup {Refusal(r)}
              /\ apart' = DOMAIN shown
  BY DEF TagsPage!Serve, TagsPage!Answer, TagsPage!Refusal, TagsPage!Brings, Answer, Refusal, Brings
<1>2. UNCHANGED <<shown, dialog, view, sent>>
  BY DEF TagsPage!Serve
<1>3. /\ TagAsks(r) /\ Asks(r) /\ \A q \in asked : TagAsks(q)
      /\ server \in TagsPage!Lists /\ shown \in TagsPage!Lists /\ DOMAIN shown = {"tags"}
  BY DEF TagsInv, TagAsks, TagsPage!Lists
<1>4. PICK s :
        /\ asked' = (asked \ {r}) \cup {s}
        /\ Asks(s) /\ Twin(s, r) /\ s.alone = r.alone
        /\ \/ /\ s.state = "done" /\ server' = TagsPage!Effect(r) /\ apart' = apart
              /\ s.saw = IF r.op \in Brings THEN server'[r.list] ELSE r.saw
           \/ /\ s.state = "refused" /\ s.saw = Gone
              /\ \/ server' = server /\ apart' = apart
                 \/ server' = TagsPage!Effect(r) /\ apart' = DOMAIN shown
  <2> DEFINE accepts == TagsPage!Accepts(r)
             effect == TagsPage!Effect(r)
  <2>1. \/ accepts /\ server' = effect /\ asked' = (asked \ {r}) \cup {Answer(r)} /\ apart' = apart
        \/ asked' = (asked \ {r}) \cup {Refusal(r)} /\ server' = server /\ apart' = apart
        \/ /\ accepts /\ server' = effect /\ asked' = (asked \ {r}) \cup {Refusal(r)}
           /\ apart' = DOMAIN shown
    BY <1>1
  <2> HIDE DEF accepts, effect
  <2> QED BY <1>3, <2>1, Answering DEF accepts, effect
<1>5. server' \in TagsPage!Lists /\ server'.tags \in [Tags -> TagsPage!Colors \cup {Gone}]
  <2>1. server' \in TagsPage!Lists
    BY <1>3, <1>4, TagsEffect
  <2> QED BY <2>1 DEF TagsPage!Lists
<1>6. Solo' /\ ((r.alone /\ asked = {r} /\ asked' = {s}) \/ Crowded')
  <2>1. Solo /\ DOMAIN shown' = DOMAIN shown /\ (apart' = apart \/ apart' = DOMAIN shown)
    BY <1>2, <1>4 DEF TagsInv, TagsAgree
  <2> QED BY <1>4, <2>1, ServeSolo
<1>7. \A q \in asked' : TagAsks(q)
  <2>1. s.op = "load" /\ s.state = "done" => s.saw \in [Tags -> TagsPage!Colors \cup {Gone}]
    BY <1>3, <1>4, <1>5 DEF Twin, TagAsks, Brings
  <2>2. TagAsks(s)
    BY <1>3, <1>4, <2>1 DEF Twin, TagAsks
  <2> QED BY <1>3, <1>4, <2>2
<1>8. TagsAgree'
  <2>1. CASE Crowded'
    BY <1>2, <1>3, <1>6, <2>1 DEF Crowded, FreshLoads, TagsAgree
  <2>2. CASE r.alone /\ asked = {r} /\ asked' = {s}
    <3>1. FreshLoads'
      BY <1>4, <2>2 DEF FreshLoads, Twin, Brings
    <3>2. ASSUME "tags" \notin apart'
          PROVE  shown'.tags = server'.tags \/ \E q \in asked' : q.op # "load" /\ q.state = "done"
      <4>1. apart' = apart /\ shown.tags = server.tags
        BY <1>1, <1>3, <1>4, <2>2, <3>2 DEF TagsInv, TagsAgree
      <4>2. r.op = "load" => server' = server
        BY <1>3, <1>4, TagsEffect
      <4>3. s.state = "refused" => server' = server
        BY <1>3, <1>4, <3>2
      <4> QED BY <1>2, <1>4, <2>2, <4>1, <4>2, <4>3 DEF Twin
    <3> QED BY <1>6, <3>1, <3>2 DEF TagsAgree
  <2> QED BY <1>6, <2>1, <2>2
<1>9. TagsWait'
  BY <1>2, <1>4 DEF TagsInv, TagsWait, Twin
<1> QED BY <1>2, <1>3, <1>5, <1>7, <1>8, <1>9 DEF TagsInv

LEMMA TagsStart == ASSUME TagsPage!Init PROVE TagsInv
<1> DEFINE q == Request("load", "tags", Gone, Gone, Gone)
<1>1. /\ asked = {q} /\ dialog = <<>> /\ apart = DOMAIN shown
      /\ view = [loading |-> TRUE, busy |-> {}, color |-> "plain", sources |-> {}, target |-> "none"]
      /\ shown = [tags |-> [g \in Tags |-> Gone]]
      /\ server = [tags |-> [g \in Tags |-> IF g \in Alike THEN "plain" ELSE Gone]]
  BY DEF TagsPage!Init, TagsPage!Mounted, TagsPage!Request, TagsPage!Closed, TagsPage!None, Request
<1>2. TagAsks(q) /\ q.op = "load" /\ q.list = "tags" /\ q.state = "asked"
  BY TagRequest DEF Request, TagsPage!Ops
<1> HIDE DEF q
<1>3. view \in TagViews /\ dialog \in Seq(TagDialogs)
  BY <1>1 DEF TagViews, TagsPage!Colors
<1>4. server \in TagsPage!Lists /\ shown \in TagsPage!Lists /\ DOMAIN shown = {"tags"}
  BY <1>1 DEF TagsPage!Lists, TagsPage!Colors
<1>5. TagsAgree
  BY <1>1, <1>2, <1>4 DEF TagsAgree, Solo, FreshLoads
<1>6. TagsWait
  BY <1>1, <1>2 DEF TagsWait
<1> QED BY <1>1, <1>2, <1>3, <1>4, <1>5, <1>6 DEF TagsInv

LEMMA TagsStep == ASSUME TagsInv, [TagsPage!Next]_pageVars PROVE TagsInv'
<1>1. CASE UNCHANGED pageVars
  <2>1. UNCHANGED <<server, shown, asked, apart, dialog, view>>
    BY <1>1 DEF pageVars
  <2>2. view \in TagViews /\ dialog \in Seq(TagDialogs)
    BY DEF TagsInv
  <2> QED BY <2>1, <2>2, TagsIdle
<1>2. CASE TagsPage!Next
  BY <1>2, TagsLook, TagsAsks, TagsLands, TagsServed DEF TagsPage!Next
<1> QED BY <1>1, <1>2

TagsHold == page = "tags" => TagsInv

LEMMA TagsAlways == Spec => []TagsHold
<1>1. Init => TagsHold
  BY TagsStart DEF Init, TagsHold
<1>2. ASSUME TagsHold, [Next]_vars PROVE TagsHold'
  <2>1. page' = page /\ (page = "tags" => [TagsPage!Next]_pageVars)
    BY <1>2 DEF Next, vars
  <2> QED BY <1>2, <2>1, TagsStep DEF TagsHold
<1> QED BY <1>1, <1>2, PTL DEF Spec

-----------------------------------------------------------------------------
(* Categories.tsx. *)

CategoryPatches == {"create", "update", "delete"}
CategoryCopies == [Categories -> CategoriesPage!Forms \cup {Gone}]
CategoryAsks(r) ==
  /\ Asks(r)
  /\ r.op \in CategoryPatches \cup {"load", "workers"}
  /\ r.list = IF r.op = "workers" THEN "none" ELSE "categories"
  /\ r.op = "workers" => r.to \in {"current", "stale"}
  /\ r.op \in CategoryPatches => r.on \in Categories
  /\ r.op \in {"create", "update"} => r.to \in CategoriesPage!Forms
  /\ r.op = "delete" => r.to = Gone
  /\ r.op \in CategoryPatches /\ r.state # "refused" => r.saw \in CategoryCopies
  /\ r.op = "load" /\ r.state = "done" => r.saw \in CategoryCopies
CategoryDialogs ==
  [is : {"category"}, on : Categories \cup {Gone}] \cup [is : {"delete"}, on : Categories]
CategoryViews ==
  [loading : BOOLEAN, form : CategoriesPage!Forms, workersLoading : BOOLEAN,
   workersLoadFailed : BOOLEAN, workers : SUBSET Hosts]

\* The requests that are about the list; the others ask for the workers that the
\* form offers, and of those one at most is current.
Saves == {r \in asked : r.op # "workers"}
Currents == {r \in asked : r.op = "workers" /\ r.to = "current"}

CategoriesAgree ==
  /\ \A r \in Saves : IF r.alone THEN Saves = {r} ELSE "categories" \in apart
  /\ \A r \in Saves : r.op = "load" /\ r.state = "done" /\ r.alone => r.saw = server.categories
  /\ "categories" \notin apart =>
       /\ \A r \in Saves : r.op \in CategoryPatches =>
            /\ r.state # "refused" => r.saw = shown.categories
            /\ r.state = "done" =>
                 /\ server.categories = [shown.categories EXCEPT ![r.on] = r.to]
                 /\ r.op = "update" => r.saw[r.on] # Gone
       /\ (\A r \in Saves : r.op \in CategoryPatches => r.state # "done")
            => shown.categories = server.categories
CategoriesWait ==
  /\ view.loading => \E r \in Saves : r.op = "load"
  /\ \A p, q \in Currents : p = q
  /\ TopOf(dialog).is = "category" => (view.workersLoading <=> Currents # {})
CategoriesTyped ==
  /\ server \in CategoriesPage!Lists /\ shown \in CategoriesPage!Lists
  /\ sent \in 0..Sends.categories /\ apart \subseteq {"categories"}
  /\ view \in CategoryViews
  /\ dialog \in Seq(CategoryDialogs) /\ Len(dialog) <= 1
CategoriesInv ==
  /\ CategoriesTyped
  /\ \A r \in asked : CategoryAsks(r)
  /\ CategoriesAgree /\ CategoriesWait

\* Nothing happens to the lists and the requests that are about them.
LEMMA CategoriesIdle ==
  ASSUME CategoriesInv, UNCHANGED <<server, shown, apart>>, Saves' = Saves,
         \A r \in asked' : CategoryAsks(r),
         sent' \in 0..Sends.categories, view' \in CategoryViews,
         dialog' \in Seq(CategoryDialogs), Len(dialog') <= 1,
         view'.loading = view.loading,
         \A p, q \in Currents' : p = q,
         TopOf(dialog').is = "category" => (view'.workersLoading <=> Currents' # {})
  PROVE  CategoriesInv'
<1>1. CategoriesAgree'
  BY DEF CategoriesInv, CategoriesAgree
<1>2. CategoriesWait' /\ CategoriesTyped'
  BY DEF CategoriesInv, CategoriesWait, CategoriesTyped
<1> QED BY <1>1, <1>2 DEF CategoriesInv

LEMMA CategoriesPlain ==
  ASSUME CategoriesInv
  PROVE  /\ view \in CategoryViews /\ dialog \in Seq(CategoryDialogs) /\ Len(dialog) <= 1
         /\ shown \in CategoriesPage!Lists /\ server \in CategoriesPage!Lists
         /\ shown.categories \in CategoryCopies /\ server.categories \in CategoryCopies
         /\ DOMAIN shown = {"categories"} /\ sent \in 0..Sends.categories /\ Sends.categories \in Nat
         /\ \A r \in asked : CategoryAsks(r)
         /\ CategoriesPage!Top = TopOf(dialog)
         /\ \/ dialog = <<>> /\ TopOf(dialog).is = "none"
            \/ Len(dialog) = 1 /\ TopOf(dialog) = dialog[1] /\ TopOf(dialog) \in CategoryDialogs
<1>1. dialog \in Seq(CategoryDialogs) /\ Len(dialog) <= 1
  BY DEF CategoriesInv, CategoriesTyped
<1>2. \/ dialog = <<>> /\ TopOf(dialog).is = "none"
      \/ Len(dialog) = 1 /\ TopOf(dialog) = dialog[1] /\ TopOf(dialog) \in CategoryDialogs
  BY <1>1, ShortDialogs
<1>3. CategoriesPage!Top = TopOf(dialog)
  BY DEF CategoriesPage!Top, CategoriesPage!Closed, TopOf
<1>4. Sends.categories \in Nat
  BY ClientAssumption DEF ClientAssumption
<1> QED BY <1>1, <1>2, <1>3, <1>4
     DEF CategoriesInv, CategoriesTyped, CategoriesPage!Lists, CategoryCopies

\* Every opening and every closing of the form makes the requests for workers
\* stale, and leaves the others alone.
LEMMA StaleCategories ==
  ASSUME CategoriesInv
  PROVE  /\ \A r \in CategoriesPage!Stale : CategoryAsks(r)
         /\ {r \in CategoriesPage!Stale : r.op # "workers"} = Saves
         /\ \A r \in CategoriesPage!Stale : ~(r.op = "workers" /\ r.to = "current")
<1> DEFINE stale(r) == IF r.op = "workers" THEN [r EXCEPT !.to = "stale"] ELSE r
<1>1. ASSUME NEW r \in asked
      PROVE  /\ CategoryAsks(stale(r)) /\ stale(r).op = r.op
             /\ r.op = "workers" => stale(r).to = "stale"
             /\ r.op # "workers" => stale(r) = r
  <2>1. CASE r.op = "workers"
    <3> DEFINE s == [r EXCEPT !.to = "stale"]
    <3>1. CategoryAsks(r) /\ Asks(r)
      BY DEF CategoriesInv, CategoryAsks
    <3>2. /\ Asks(s) /\ s.op = r.op /\ s.list = r.list /\ s.on = r.on /\ s.to = "stale"
          /\ s.state = r.state /\ s.saw = r.saw
      BY <3>1, AimAsks
    <3> HIDE DEF s
    <3>3. CategoryAsks(s)
      BY <2>1, <3>1, <3>2 DEF CategoryAsks, CategoryPatches
    <3>4. stale(r) = s
      BY <2>1 DEF s
    <3> QED BY <2>1, <3>2, <3>3, <3>4
  <2>2. CASE r.op # "workers"
    BY <2>2 DEF CategoriesInv
  <2> QED BY <2>1, <2>2
<1>2. CategoriesPage!Stale = {stale(r) : r \in asked}
  BY DEF CategoriesPage!Stale
<1> HIDE DEF stale
<1> QED BY <1>1, <1>2 DEF Saves

\* The form asks for its workers.
LEMMA CategoriesAskWorkers ==
  ASSUME CategoriesInv, CategoriesPage!AskWorkers(CategoriesPage!Stale),
         UNCHANGED <<server, shown, apart>>,
         view' \in CategoryViews, view'.loading = view.loading, view'.workersLoading,
         dialog' \in Seq(CategoryDialogs), Len(dialog') <= 1
  PROVE  CategoriesInv'
<1> DEFINE q == Request("workers", "none", Gone, "current", Gone)
<1>1. asked' = CategoriesPage!Stale \cup {q} /\ sent < Sends.categories /\ sent' = sent + 1
  BY DEF CategoriesPage!AskWorkers, CategoriesPage!Request, Request
<1>2. Asks(q) /\ q.op = "workers" /\ q.list = "none" /\ q.to = "current"
  BY RequestAsks DEF Request
<1>3. CategoryAsks(q)
  <2> HIDE DEF q
  <2> QED BY <1>2 DEF CategoryAsks, CategoryPatches
<1> HIDE DEF q
<1>4. Saves' = Saves
  BY <1>1, <1>2, StaleCategories DEF Saves
<1>5. Currents' = {q}
  BY <1>1, <1>2, StaleCategories DEF Currents
<1>6. \A r \in asked' : CategoryAsks(r)
  BY <1>1, <1>3, StaleCategories
<1>7. sent' \in 0..Sends.categories
  BY <1>1, CategoriesPlain
<1> QED BY <1>4, <1>5, <1>6, <1>7, CategoriesIdle

LEMMA CategoriesLook ==
  ASSUME CategoriesInv,
         \/ \E c \in Categories \cup {Gone} : CategoriesPage!OpenForm(c)
         \/ CategoriesPage!RetryWorkers \/ CategoriesPage!WorkersAnswered
         \/ CategoriesPage!ChooseWorker \/ CategoriesPage!TypeRest \/ CategoriesPage!CloseForm
         \/ \E c \in Categories : CategoriesPage!OpenDelete(c)
         \/ CategoriesPage!CancelDelete
  PROVE  CategoriesInv'
<1>1. /\ view \in CategoryViews /\ dialog \in Seq(CategoryDialogs) /\ Len(dialog) <= 1
      /\ shown.categories \in CategoryCopies /\ DOMAIN shown = {"categories"}
      /\ sent \in 0..Sends.categories
      /\ \A r \in asked : CategoryAsks(r)
      /\ CategoriesPage!Top = TopOf(dialog)
      /\ \/ dialog = <<>> /\ TopOf(dialog).is = "none"
         \/ Len(dialog) = 1 /\ TopOf(dialog) = dialog[1] /\ TopOf(dialog) \in CategoryDialogs
      /\ \A p, q \in Currents : p = q
      /\ TopOf(dialog).is = "category" => (view.workersLoading <=> Currents # {})
  BY CategoriesPlain DEF CategoriesInv, CategoriesWait
<1>2. CategoriesPage!Blank \in CategoriesPage!Forms
  BY DEF CategoriesPage!Blank, CategoriesPage!Forms, CategoriesPage!Rests
<1>3. ASSUME NEW c \in Categories \cup {Gone}, CategoriesPage!OpenForm(c) PROVE CategoriesInv'
  <2> DEFINE form == IF c = Gone THEN CategoriesPage!Blank ELSE shown.categories[c]
  <2>1. /\ dialog = <<>> /\ (c = Gone \/ c \in CategoriesPage!Rows)
        /\ CategoriesPage!AskWorkers(CategoriesPage!Stale)
        /\ dialog' = Append(dialog, [is |-> "category", on |-> c])
        /\ view' = [view EXCEPT !.form = form, !.workers = {}, !.workersLoading = TRUE,
                                !.workersLoadFailed = FALSE]
        /\ UNCHANGED <<server, shown, apart>>
    BY <1>3 DEF CategoriesPage!OpenForm, CategoriesPage!Closed, CategoriesPage!Over, CategoriesPage!Dialog
  <2>2. form \in CategoriesPage!Forms
    BY <1>1, <1>2, <2>1 DEF CategoriesPage!Rows, CategoryCopies
  <2> HIDE DEF form
  <2>3. view' \in CategoryViews /\ view'.loading = view.loading /\ view'.workersLoading
    BY <1>1, <2>1, <2>2 DEF CategoryViews
  <2>4. [is |-> "category", on |-> c] \in CategoryDialogs
    BY DEF CategoryDialogs
  <2>5. dialog' \in Seq(CategoryDialogs) /\ Len(dialog') <= 1
    BY <2>1, <2>4
  <2> QED BY <2>1, <2>3, <2>5, CategoriesAskWorkers
<1>4. CASE CategoriesPage!RetryWorkers
  <2>1. view' \in CategoryViews /\ view'.loading = view.loading /\ view'.workersLoading
    BY <1>1, <1>4 DEF CategoriesPage!RetryWorkers, CategoryViews
  <2> QED BY <1>1, <1>4, <2>1, CategoriesAskWorkers DEF CategoriesPage!RetryWorkers
<1>5. CASE CategoriesPage!WorkersAnswered
  <2>1. PICK r \in asked :
          /\ r.op = "workers"
          /\ view' = IF r.to = "stale" THEN view
                     ELSE [view EXCEPT !.workersLoading = FALSE, !.workersLoadFailed = (r.state = "refused"),
                                       !.workers = IF r.state = "done" THEN Hosts ELSE view.workers]
          /\ asked' = asked \ {r} /\ sent' = sent /\ apart' = apart
          /\ UNCHANGED <<server, shown, dialog>>
    BY <1>5 DEF CategoriesPage!WorkersAnswered, CategoriesPage!Answers, CategoriesPage!Land
  <2>2. Saves' = Saves
    BY <2>1 DEF Saves
  <2>3. /\ view' \in CategoryViews /\ view'.loading = view.loading
        /\ view'.workersLoading = IF r.to = "stale" THEN view.workersLoading ELSE FALSE
    <3>1. CASE r.to = "stale"
      BY <1>1, <2>1, <3>1
    <3>2. CASE r.to # "stale"
      <4> DEFINE failed == r.state = "refused"
                 workers == IF r.state = "done" THEN Hosts ELSE view.workers
      <4>1. failed \in BOOLEAN /\ workers \in SUBSET Hosts
        BY <1>1 DEF CategoryViews
      <4>2. view' = [view EXCEPT !.workersLoading = FALSE, !.workersLoadFailed = failed, !.workers = workers]
        BY <2>1, <3>2
      <4> HIDE DEF failed, workers
      <4> QED BY <1>1, <3>2, <4>1, <4>2 DEF CategoryViews
    <3> QED BY <3>1, <3>2
  <2>4. /\ Currents' \subseteq Currents
        /\ r.to = "stale" => Currents' = Currents
        /\ r.to = "current" => Currents' = {}
    BY <1>1, <2>1 DEF Currents
  <2>5. r.to = "stale" \/ r.to = "current"
    BY <1>1, <2>1 DEF CategoryAsks
  <2> QED BY <1>1, <2>1, <2>2, <2>3, <2>4, <2>5, CategoriesIdle
<1>6. CASE CategoriesPage!ChooseWorker
  <2>1. view' \in CategoryViews /\ view'.loading = view.loading /\ view'.workersLoading = view.workersLoading
    BY <1>1, <1>6 DEF CategoriesPage!ChooseWorker, CategoryViews, CategoriesPage!Forms
  <2>2. UNCHANGED <<server, shown, asked, dialog, apart, sent>> /\ Saves' = Saves /\ Currents' = Currents
    BY <1>6 DEF CategoriesPage!ChooseWorker, Saves, Currents
  <2> QED BY <1>1, <2>1, <2>2, CategoriesIdle
<1>7. CASE CategoriesPage!TypeRest
  <2>1. view' \in CategoryViews /\ view'.loading = view.loading /\ view'.workersLoading = view.workersLoading
    BY <1>1, <1>7 DEF CategoriesPage!TypeRest, CategoryViews, CategoriesPage!Forms
  <2>2. UNCHANGED <<server, shown, asked, dialog, apart, sent>> /\ Saves' = Saves /\ Currents' = Currents
    BY <1>7 DEF CategoriesPage!TypeRest, Saves, Currents
  <2> QED BY <1>1, <2>1, <2>2, CategoriesIdle
<1>8. CASE CategoriesPage!CloseForm
  <2>1. /\ asked' = CategoriesPage!Stale /\ UNCHANGED <<server, shown, apart, sent>>
        /\ dialog' = CategoriesPage!Without({"category"})
        /\ view' = [view EXCEPT !.form = CategoriesPage!Blank]
    BY <1>8 DEF CategoriesPage!CloseForm, CategoriesPage!FormGone
  <2>2. /\ Saves' = Saves /\ Currents' = {} /\ \A r \in asked' : CategoryAsks(r)
    BY <2>1, StaleCategories DEF Saves, Currents
  <2>3. view' \in CategoryViews /\ view'.loading = view.loading
    BY <1>1, <1>2, <2>1 DEF CategoryViews
  <2>4. /\ dialog' \in Seq(CategoryDialogs) /\ Len(dialog') <= 1 /\ TopOf(dialog').is # "category"
    <3>1. dialog' = Without({"category"})
      BY <2>1 DEF CategoriesPage!Without, CategoriesPage!Only, CategoriesPage!Cardinality,
                  Without, Only, Cardinality
    <3>2. /\ Without({"category"}) \in Seq(CategoryDialogs) /\ Len(Without({"category"})) <= 1
          /\ \/ Without({"category"}) = <<>>
             \/ /\ TopOf(Without({"category"})) = TopOf(dialog)
                /\ TopOf(dialog).is \notin {"category"}
      BY <1>1, ShortWithout
    <3> QED BY <3>1, <3>2 DEF TopOf
  <2> QED BY <1>1, <2>1, <2>2, <2>3, <2>4, CategoriesIdle
<1>9. ASSUME NEW c \in Categories, CategoriesPage!OpenDelete(c) PROVE CategoriesInv'
  <2>1. /\ dialog = <<>> /\ dialog' = Append(dialog, [is |-> "delete", on |-> c])
        /\ UNCHANGED <<server, shown, asked, view, apart, sent>>
    BY <1>9 DEF CategoriesPage!OpenDelete, CategoriesPage!Closed, CategoriesPage!Over, CategoriesPage!Dialog
  <2>2. [is |-> "delete", on |-> c] \in CategoryDialogs
    BY DEF CategoryDialogs
  <2>3. dialog' \in Seq(CategoryDialogs) /\ Len(dialog') <= 1 /\ TopOf(dialog').is = "delete"
    BY <1>1, <2>1, <2>2 DEF TopOf
  <2>4. Saves' = Saves /\ Currents' = Currents
    BY <2>1 DEF Saves, Currents
  <2> QED BY <1>1, <2>1, <2>3, <2>4, CategoriesIdle
<1>10. CASE CategoriesPage!CancelDelete
  <2>1. /\ TopOf(dialog).is = "delete" /\ dialog' = SubSeq(dialog, 1, Len(dialog) - 1)
        /\ UNCHANGED <<server, shown, asked, view, apart, sent>>
    BY <1>1, <1>10 DEF CategoriesPage!CancelDelete, CategoriesPage!CloseTop
  <2>2. dialog' = <<>> /\ dialog' \in Seq(CategoryDialogs)
    BY <1>1, <2>1
  <2>3. Len(dialog') <= 1 /\ TopOf(dialog').is = "none"
    BY <2>2 DEF TopOf
  <2>4. Saves' = Saves /\ Currents' = Currents
    BY <2>1 DEF Saves, Currents
  <2> QED BY <1>1, <2>1, <2>2, <2>3, <2>4, CategoriesIdle
<1> QED BY <1>3, <1>4, <1>5, <1>6, <1>7, <1>8, <1>9, <1>10

\* One more request about the list.
LEMMA CategoriesAsk ==
  ASSUME CategoriesInv, NEW op \in CategoryPatches \cup {"load"}, NEW on, NEW to, NEW saw,
         CategoriesPage!AskSeeing(op, "categories", on, to, saw),
         op \in CategoryPatches => on \in Categories /\ saw = shown.categories,
         op \in {"create", "update"} => to \in CategoriesPage!Forms,
         op = "delete" => to = Gone,
         UNCHANGED <<server, shown, dialog>>,
         view' \in CategoryViews, view'.workersLoading = view.workersLoading,
         view'.loading => view.loading \/ op = "load"
  PROVE  CategoriesInv'
<1> DEFINE q == Request(op, "categories", on, to, saw)
<1>1. /\ asked' = Add(asked, q) /\ sent < Sends.categories /\ sent' = sent + 1
      /\ apart' = IF asked = {} THEN apart ELSE DOMAIN shown
  BY DEF CategoriesPage!AskSeeing, CategoriesPage!Add, CategoriesPage!Request, Add, Request
<1>2. /\ Asks(q) /\ q.op = op /\ q.list = "categories" /\ q.on = on /\ q.to = to /\ q.saw = saw
      /\ q.state = "asked"
  BY RequestAsks DEF Request
<1>3. /\ \A r \in asked : CategoryAsks(r) /\ Asks(r)
      /\ shown.categories \in CategoryCopies /\ DOMAIN shown = {"categories"}
      /\ sent \in 0..Sends.categories /\ Sends.categories \in Nat
  BY CategoriesPlain DEF CategoryAsks
<1>4. CategoryAsks(q) /\ q.op # "workers"
  <2> HIDE DEF q
  <2> QED BY <1>2, <1>3 DEF CategoryAsks, CategoryPatches
<1> HIDE DEF q
<1>5. /\ \A r \in asked' : /\ Asks(r)
                           /\ \/ ~r.alone /\ \E p \in asked : Same(r, p)
                              \/ r.alone = (asked = {}) /\ Same(r, q)
      /\ \A p \in asked \cup {q} : \E r \in asked' : Same(r, p)
      /\ asked = {} => \E r : asked' = {r}
  <2> DEFINE after == Add(asked, q)
  <2>1. /\ \A r \in after : /\ Asks(r)
                            /\ \/ ~r.alone /\ \E p \in asked : Same(r, p)
                               \/ r.alone = (asked = {}) /\ Same(r, q)
        /\ \A p \in asked \cup {q} : \E r \in after : Same(r, p)
        /\ asked = {} => \E r : after = {r}
    BY <1>2, <1>3, AddAsks
  <2> HIDE DEF after
  <2> QED BY <1>1, <2>1 DEF after
<1>6. \A r \in asked' : CategoryAsks(r)
  BY <1>3, <1>4, <1>5 DEF CategoryAsks, Same
<1>7. CategoriesAgree'
  <2>1. CASE asked # {}
    <3>1. apart' = {"categories"} /\ \A r \in asked' : ~r.alone
      BY <1>1, <1>3, <1>5, <2>1
    <3> QED BY <3>1 DEF CategoriesAgree, Saves
  <2>2. CASE asked = {}
    <3>1. PICK r : asked' = {r}
      BY <1>5, <2>2
    <3>2. Same(r, q) /\ Saves' = {r} /\ Saves = {}
      BY <1>4, <1>5, <2>2, <3>1 DEF Saves, Same
    <3>3. "categories" \notin apart => shown.categories = server.categories
      BY <3>2 DEF CategoriesInv, CategoriesAgree
    <3>4. r.alone
      BY <1>5, <2>2, <3>1
    <3> QED BY <1>1, <1>2, <2>2, <3>2, <3>3, <3>4 DEF CategoriesAgree, Same
  <2> QED BY <2>1, <2>2
<1>8. \A p, r \in Currents' : p = r
  <2>1. ASSUME NEW p \in Currents', NEW r \in Currents' PROVE p = r
    <3>1. ~p.alone /\ ~r.alone /\ \E c \in asked : Same(p, c) /\ \E c2 \in asked : Same(r, c2)
      BY <1>4, <1>5, <2>1 DEF Currents, Same
    <3>2. PICK c \in asked, d \in asked : Same(p, c) /\ Same(r, d)
      BY <3>1
    <3>3. c \in Currents /\ d \in Currents
      BY <2>1, <3>2 DEF Currents, Same
    <3>4. c = d
      BY <3>3 DEF CategoriesInv, CategoriesWait
    <3>5. Same(p, r) /\ p.alone = r.alone /\ Asks(p) /\ Asks(r)
      BY <1>5, <2>1, <3>1, <3>2, <3>4 DEF Same, Asks, Currents
    <3> QED BY <3>5, SameAsks
  <2> QED BY <2>1
<1>9. Currents' = {} <=> Currents = {}
  BY <1>4, <1>5 DEF Currents, Same
<1>10. CategoriesWait'
  BY <1>2, <1>4, <1>5, <1>8, <1>9 DEF CategoriesInv, CategoriesWait, Saves, Same
<1>11. CategoriesTyped'
  BY <1>1, <1>3 DEF CategoriesInv, CategoriesTyped
<1> QED BY <1>6, <1>7, <1>10, <1>11 DEF CategoriesInv

LEMMA CategoriesAsks ==
  ASSUME CategoriesInv,
         CategoriesPage!LoadCategories \/ CategoriesPage!SubmitForm \/ CategoriesPage!DeleteCategory
  PROVE  CategoriesInv'
<1>1. /\ view \in CategoryViews /\ CategoriesPage!Top = TopOf(dialog)
      /\ TopOf(dialog).is = "none" \/ TopOf(dialog) \in CategoryDialogs
  BY CategoriesPlain
<1>2. CASE CategoriesPage!LoadCategories
  <2>1. /\ CategoriesPage!AskSeeing("load", "categories", Gone, Gone, Gone)
        /\ view' = [view EXCEPT !.loading = TRUE] /\ UNCHANGED <<server, shown, dialog>>
    BY <1>2 DEF CategoriesPage!LoadCategories, CategoriesPage!Load, CategoriesPage!Ask
  <2>2. view' \in CategoryViews /\ view'.workersLoading = view.workersLoading
    BY <1>1, <2>1 DEF CategoryViews
  <2> QED BY <2>1, <2>2, CategoriesAsk DEF CategoryPatches
<1>3. CASE CategoriesPage!SubmitForm
  <2>1. /\ TopOf(dialog).on \in Categories \cup {Gone} /\ view.form \in CategoriesPage!Forms
        /\ UNCHANGED <<server, shown, dialog, view>>
    BY <1>1, <1>3 DEF CategoriesPage!SubmitForm, CategoryDialogs, CategoryViews
  <2>2. \/ \E c \in Categories :
             CategoriesPage!AskSeeing("create", "categories", c, view.form, shown.categories)
        \/ /\ TopOf(dialog).on \in Categories
           /\ CategoriesPage!AskSeeing("update", "categories", TopOf(dialog).on, view.form,
                                       shown.categories)
    BY <1>1, <1>3, <2>1 DEF CategoriesPage!SubmitForm, CategoriesPage!AskPatching
  <2> QED BY <1>1, <2>1, <2>2, CategoriesAsk DEF CategoryPatches
<1>4. CASE CategoriesPage!DeleteCategory
  <2>1. /\ TopOf(dialog).on \in Categories /\ UNCHANGED <<server, shown, dialog, view>>
    BY <1>1, <1>4 DEF CategoriesPage!DeleteCategory, CategoryDialogs
  <2>2. CategoriesPage!AskSeeing("delete", "categories", TopOf(dialog).on, Gone, shown.categories)
    BY <1>1, <1>4 DEF CategoriesPage!DeleteCategory, CategoriesPage!AskPatching
  <2> QED BY <1>1, <2>1, <2>2, CategoriesAsk DEF CategoryPatches
<1> QED BY <1>2, <1>3, <1>4

\* An answer about the list is taken.
LEMMA CategoriesLand ==
  ASSUME CategoriesInv, NEW r \in Saves, Saves' = Saves \ {r}, server' = server,
         apart' = (IF r.op = "load" /\ r.state = "done" /\ r.alone THEN apart \ {r.list} ELSE apart),
         r.op \in CategoryPatches /\ r.state = "done" /\ (r.op = "update" => r.saw[r.on] # Gone) =>
           shown'.categories = [r.saw EXCEPT ![r.on] = r.to],
         r.op = "load" /\ r.state = "done" => shown'.categories = r.saw,
         r.state # "done" => shown'.categories = shown.categories,
         r.state # "asked"
  PROVE  CategoriesAgree' /\ apart' \subseteq apart
<1>1. r \in asked /\ CategoryAsks(r) /\ r.op \in CategoryPatches \cup {"load"}
      /\ r.list = "categories"
  BY DEF CategoriesInv, CategoryAsks, Saves
<1>2. CASE ~r.alone
  <2>1. "categories" \in apart /\ apart' = apart
    BY <1>2 DEF CategoriesInv, CategoriesAgree
  <2>2. \A q \in Saves : ~q.alone
    BY <1>2 DEF CategoriesInv, CategoriesAgree
  <2> QED BY <2>1, <2>2 DEF CategoriesAgree
<1>3. CASE r.alone
  <2>1. Saves = {r} /\ Saves' = {} /\ apart' \subseteq apart
    BY <1>3 DEF CategoriesInv, CategoriesAgree
  <2>2. ASSUME "categories" \notin apart' PROVE shown'.categories = server'.categories
    <3>1. CASE r.op = "load" /\ r.state = "done"
      <4>1. r.saw = server.categories
        BY <1>3, <3>1 DEF CategoriesInv, CategoriesAgree
      <4> QED BY <3>1, <4>1
    <3>2. CASE ~(r.op = "load" /\ r.state = "done")
      <4>1. "categories" \notin apart
        BY <2>2, <3>2
      <4>2. CASE r.state = "done"
        <5>1. r.op \in CategoryPatches
          BY <1>1, <3>2, <4>2
        <5>2. /\ r.saw = shown.categories
              /\ server.categories = [shown.categories EXCEPT ![r.on] = r.to]
              /\ r.op = "update" => r.saw[r.on] # Gone
          BY <4>1, <4>2, <5>1 DEF CategoriesInv, CategoriesAgree
        <5> QED BY <4>2, <5>1, <5>2
      <4>3. CASE r.state # "done"
        <5>1. shown.categories = server.categories
          BY <2>1, <4>1, <4>3 DEF CategoriesInv, CategoriesAgree
        <5> QED BY <4>3, <5>1
      <4> QED BY <4>2, <4>3
    <3> QED BY <3>1, <3>2
  <2> QED BY <2>1, <2>2 DEF CategoriesAgree
<1> QED BY <1>2, <1>3

LEMMA CategoriesLands ==
  ASSUME CategoriesInv,
         \/ CategoriesPage!CategoriesLoaded \/ CategoriesPage!CategorySaved
         \/ CategoriesPage!CategoryDeleted
         \/ CategoriesPage!Refused({"create", "update", "delete"})
  PROVE  CategoriesInv'
<1>1. /\ view \in CategoryViews /\ dialog \in Seq(CategoryDialogs) /\ Len(dialog) <= 1
      /\ shown \in CategoriesPage!Lists /\ server \in CategoriesPage!Lists
      /\ sent \in 0..Sends.categories /\ apart \subseteq {"categories"}
      /\ \A r \in asked : CategoryAsks(r)
      /\ \A p, q \in Currents : p = q
      /\ TopOf(dialog).is = "category" => (view.workersLoading <=> Currents # {})
      /\ view.loading => \E r \in Saves : r.op = "load"
  BY CategoriesPlain DEF CategoriesInv, CategoriesWait, CategoriesTyped
<1>2. \A kinds : /\ CategoriesPage!Without(kinds) \in Seq(CategoryDialogs)
                 /\ Len(CategoriesPage!Without(kinds)) <= 1
                 /\ \/ CategoriesPage!Without(kinds) = <<>>
                    \/ /\ TopOf(CategoriesPage!Without(kinds)) = TopOf(dialog)
                       /\ TopOf(dialog).is \notin kinds
  <2>1. \A kinds : /\ Without(kinds) \in Seq(CategoryDialogs) /\ Len(Without(kinds)) <= 1
                   /\ \/ Without(kinds) = <<>>
                      \/ TopOf(Without(kinds)) = TopOf(dialog) /\ TopOf(dialog).is \notin kinds
    BY <1>1, ShortWithout
  <2>2. \A kinds : CategoriesPage!Without(kinds) = Without(kinds)
    BY DEF CategoriesPage!Without, CategoriesPage!Only, CategoriesPage!Cardinality,
           Without, Only, Cardinality
  <2> QED BY <2>1, <2>2
<1>3. TopOf(<<>>).is = "none"
  BY DEF TopOf
<1>4. CASE CategoriesPage!CategoriesLoaded
  <2>1. PICK r \in asked :
          /\ r.op = "load" /\ r.state \in {"done", "refused"} /\ r.list = "categories"
          /\ shown' = IF r.state = "done" THEN [shown EXCEPT !["categories"] = r.saw] ELSE shown
          /\ asked' = asked \ {r} /\ sent' = sent
          /\ apart' = IF r.op = "load" /\ r.state = "done" /\ r.alone THEN apart \ {r.list} ELSE apart
          /\ view' = [view EXCEPT !["loading"] = FALSE]
          /\ UNCHANGED <<server, dialog>>
    BY <1>4 DEF CategoriesPage!CategoriesLoaded, CategoriesPage!Loaded, CategoriesPage!Answers,
                CategoriesPage!Land
  <2>2. r \in Saves /\ Saves' = Saves \ {r} /\ Currents' = Currents
    BY <2>1 DEF Saves, Currents
  <2>3. /\ shown' \in CategoriesPage!Lists
        /\ r.state = "done" => shown'.categories = r.saw
    BY <1>1, <2>1 DEF CategoryAsks, CategoryCopies, CategoriesPage!Lists
  <2>4. CategoriesAgree' /\ apart' \subseteq apart
    BY <2>1, <2>2, <2>3, CategoriesLand DEF CategoryPatches
  <2>5. view' \in CategoryViews /\ ~view'.loading /\ view'.workersLoading = view.workersLoading
    BY <1>1, <2>1 DEF CategoryViews
  <2>6. CategoriesWait' /\ CategoriesTyped'
    BY <1>1, <2>1, <2>2, <2>3, <2>4, <2>5 DEF CategoriesWait, CategoriesTyped
  <2> QED BY <1>1, <2>1, <2>4, <2>6 DEF CategoriesInv
<1>5. CASE CategoriesPage!CategorySaved
  <2>1. PICK r \in asked :
          /\ r.op \in {"create", "update"} /\ r.state = "done"
          /\ shown' = [shown EXCEPT !.categories =
                         [c \in Categories |-> IF c = r.on /\ (r.op = "update" => r.saw[c] # Gone) THEN r.to
                                               ELSE r.saw[c]]]
          /\ asked' = CategoriesPage!Stale \ {r} /\ UNCHANGED <<server, apart, sent>>
          /\ dialog' = CategoriesPage!Without({"category"})
          /\ view' = [view EXCEPT !.form = CategoriesPage!Blank]
    BY <1>5 DEF CategoriesPage!CategorySaved, CategoriesPage!Answers, CategoriesPage!FormGone
  <2>2. /\ r \in Saves /\ Saves' = Saves \ {r} /\ Currents' = {}
        /\ \A q \in asked' : CategoryAsks(q)
    BY <2>1, StaleCategories DEF Saves, Currents
  <2>3. CategoryAsks(r) /\ r.saw \in CategoryCopies /\ r.to \in CategoriesPage!Forms /\ r.on \in Categories
    BY <1>1, <2>1 DEF CategoryAsks, CategoryPatches
  <2> DEFINE after == [c \in Categories |-> IF c = r.on /\ (r.op = "update" => r.saw[c] # Gone) THEN r.to
                                            ELSE r.saw[c]]
  <2>4. /\ after \in CategoryCopies
        /\ (r.op = "update" => r.saw[r.on] # Gone) => after = [r.saw EXCEPT ![r.on] = r.to]
    BY <2>3 DEF CategoryCopies
  <2>5. shown' = [shown EXCEPT !.categories = after]
    BY <2>1
  <2> HIDE DEF after
  <2>6. shown' \in CategoriesPage!Lists /\ shown'.categories = after
    BY <1>1, <2>4, <2>5 DEF CategoryCopies, CategoriesPage!Lists
  <2>7. CategoriesAgree' /\ apart' \subseteq apart
    BY <2>1, <2>2, <2>4, <2>6, CategoriesLand DEF CategoryPatches
  <2>8. CategoriesPage!Blank \in CategoriesPage!Forms
    BY DEF CategoriesPage!Blank, CategoriesPage!Forms, CategoriesPage!Rests
  <2>9. view' \in CategoryViews /\ view'.loading = view.loading
    BY <1>1, <2>1, <2>8 DEF CategoryViews
  <2>10. /\ dialog' \in Seq(CategoryDialogs) /\ Len(dialog') <= 1
         /\ TopOf(dialog').is # "category"
    BY <1>2, <1>3, <2>1
  <2>11. CategoriesWait' /\ CategoriesTyped'
    BY <1>1, <2>1, <2>2, <2>6, <2>9, <2>10 DEF CategoriesWait, CategoriesTyped
  <2> QED BY <2>2, <2>7, <2>11 DEF CategoriesInv
<1>6. CASE CategoriesPage!CategoryDeleted
  <2>1. PICK r \in asked :
          /\ r.op = "delete" /\ r.state = "done"
          /\ shown' = [shown EXCEPT !.categories = [r.saw EXCEPT ![r.on] = Gone]]
          /\ asked' = asked \ {r} /\ sent' = sent /\ apart' = apart
          /\ dialog' = CategoriesPage!Without({"delete"})
          /\ UNCHANGED <<server, view>>
    BY <1>6 DEF CategoriesPage!CategoryDeleted, CategoriesPage!Answers, CategoriesPage!Land
  <2>2. r \in Saves /\ Saves' = Saves \ {r} /\ Currents' = Currents
    BY <2>1 DEF Saves, Currents
  <2>3. r.saw \in CategoryCopies /\ r.to = Gone /\ r.on \in Categories
    BY <1>1, <2>1 DEF CategoryAsks, CategoryPatches
  <2>4. shown' \in CategoriesPage!Lists /\ shown'.categories = [r.saw EXCEPT ![r.on] = r.to]
    BY <1>1, <2>1, <2>3 DEF CategoryCopies, CategoriesPage!Lists
  <2>5. CategoriesAgree' /\ apart' \subseteq apart
    BY <2>1, <2>2, <2>4, CategoriesLand DEF CategoryPatches
  <2>6. /\ dialog' \in Seq(CategoryDialogs) /\ Len(dialog') <= 1
        /\ TopOf(dialog').is = "category" => TopOf(dialog).is = "category"
    BY <1>2, <1>3, <2>1
  <2>7. CategoriesWait' /\ CategoriesTyped'
    BY <1>1, <2>1, <2>2, <2>4, <2>6 DEF CategoriesWait, CategoriesTyped
  <2> QED BY <1>1, <2>1, <2>5, <2>7 DEF CategoriesInv
<1>7. CASE CategoriesPage!Refused({"create", "update", "delete"})
  <2>1. PICK r \in asked :
          /\ r.op \in {"create", "update", "delete"} /\ r.state = "refused"
          /\ asked' = asked \ {r} /\ sent' = sent /\ apart' = apart
          /\ UNCHANGED <<server, shown, dialog, view>>
    BY <1>7 DEF CategoriesPage!Refused, CategoriesPage!Land
  <2>2. r \in Saves /\ Saves' = Saves \ {r} /\ Currents' = Currents
    BY <2>1 DEF Saves, Currents
  <2>3. CategoriesAgree' /\ apart' \subseteq apart
    BY <2>1, <2>2, CategoriesLand
  <2>4. CategoriesWait' /\ CategoriesTyped'
    BY <1>1, <2>1, <2>2 DEF CategoriesWait, CategoriesTyped
  <2> QED BY <1>1, <2>1, <2>3, <2>4 DEF CategoriesInv
<1> QED BY <1>4, <1>5, <1>6, <1>7

LEMMA CategoriesServed ==
  ASSUME CategoriesInv, CategoriesPage!Serve(CategoriesPage!Effect, CategoriesPage!Accepts)
  PROVE  CategoriesInv'
<1>1. PICK r \in asked :
        /\ r.state = "asked"
        /\ \/ /\ CategoriesPage!Accepts(r)
              /\ server' = CategoriesPage!Effect(r)
              /\ asked' = (asked \ {r}) \cup {Answer(r)}
              /\ apart' = apart
           \/ /\ asked' = (asked \ {r}) \cup {Refusal(r)}
              /\ server' = server /\ apart' = apart
           \/ /\ CategoriesPage!Accepts(r)
              /\ server' = CategoriesPage!Effect(r)
              /\ asked' = (asked \ {r}) \cup {Refusal(r)}
              /\ apart' = DOMAIN shown
  BY DEF CategoriesPage!Serve, CategoriesPage!Answer, CategoriesPage!Refusal, CategoriesPage!Brings,
         Answer, Refusal, Brings
<1>2. UNCHANGED <<shown, dialog, view, sent>>
  BY DEF CategoriesPage!Serve
<1>3. /\ CategoryAsks(r) /\ Asks(r) /\ \A q \in asked : CategoryAsks(q)
      /\ server \in CategoriesPage!Lists /\ server.categories \in CategoryCopies
      /\ DOMAIN shown = {"categories"}
  BY CategoriesPlain DEF CategoryAsks
<1>4. PICK s :
        /\ asked' = (asked \ {r}) \cup {s}
        /\ Asks(s) /\ Twin(s, r) /\ s.alone = r.alone
        /\ \/ /\ s.state = "done" /\ CategoriesPage!Accepts(r)
              /\ server' = CategoriesPage!Effect(r) /\ apart' = apart
              /\ s.saw = IF r.op \in Brings THEN server'[r.list] ELSE r.saw
           \/ /\ s.state = "refused" /\ s.saw = Gone
              /\ \/ server' = server /\ apart' = apart
                 \/ server' = CategoriesPage!Effect(r) /\ apart' = DOMAIN shown
  <2> DEFINE accepts == CategoriesPage!Accepts(r)
             effect == CategoriesPage!Effect(r)
  <2>1. \/ accepts /\ server' = effect /\ asked' = (asked \ {r}) \cup {Answer(r)} /\ apart' = apart
        \/ asked' = (asked \ {r}) \cup {Refusal(r)} /\ server' = server /\ apart' = apart
        \/ /\ accepts /\ server' = effect /\ asked' = (asked \ {r}) \cup {Refusal(r)}
           /\ apart' = DOMAIN shown
    BY <1>1
  <2> HIDE DEF accepts, effect
  <2> QED BY <1>3, <2>1, Answering DEF accepts, effect
<1>5. /\ r.op \in {"load", "workers"} => CategoriesPage!Effect(r) = server
      /\ r.op \in CategoryPatches =>
           /\ CategoriesPage!Effect(r) \in CategoriesPage!Lists
           /\ CategoriesPage!Effect(r).categories = [server.categories EXCEPT ![r.on] = r.to]
  <2>1. CASE r.op \in {"load", "workers"}
    BY <2>1 DEF CategoriesPage!Effect, CategoryPatches
  <2>2. CASE r.op \in CategoryPatches
    <3>1. r.on \in Categories /\ r.to \in CategoriesPage!Forms \cup {Gone} /\ r.op \notin {"load", "workers"}
      BY <1>3, <2>2 DEF CategoryAsks, CategoryPatches
    <3>2. CategoriesPage!Effect(r) =
            [server EXCEPT !.categories = [server.categories EXCEPT ![r.on] = r.to]]
      BY <3>1 DEF CategoriesPage!Effect
    <3>3. [server.categories EXCEPT ![r.on] = r.to] \in CategoryCopies
      BY <1>3, <3>1 DEF CategoryCopies
    <3> QED BY <1>3, <3>1, <3>2, <3>3 DEF CategoriesPage!Lists, CategoryCopies
  <2> QED BY <1>3, <2>1, <2>2 DEF CategoryAsks
<1>6. /\ server' \in CategoriesPage!Lists /\ server'.categories \in CategoryCopies
      /\ apart' \subseteq {"categories"}
  <2>1. server' \in CategoriesPage!Lists
    BY <1>3, <1>4, <1>5 DEF CategoryAsks
  <2> QED BY <1>3, <1>4, <2>1 DEF CategoriesPage!Lists, CategoryCopies, CategoriesInv, CategoriesTyped
<1>7. \A q \in asked' : CategoryAsks(q)
  <2>1. s.op = "load" /\ s.state = "done" => s.saw \in CategoryCopies
    BY <1>3, <1>4, <1>6 DEF Twin, CategoryAsks, Brings
  <2>2. s.op \in CategoryPatches /\ s.state # "refused" => s.saw \in CategoryCopies
    BY <1>1, <1>3, <1>4 DEF Twin, CategoryAsks, Brings, CategoryPatches
  <2>3. CategoryAsks(s)
    BY <1>3, <1>4, <2>1, <2>2 DEF Twin, CategoryAsks
  <2> QED BY <1>3, <1>4, <2>3
<1>8. CASE r.op = "workers"
  <2>1. server' = server /\ s.op = "workers" /\ s.to = r.to /\ (apart' = apart \/ apart' = {"categories"})
    BY <1>3, <1>4, <1>5, <1>8 DEF Twin
  <2>2. Saves' = Saves
    BY <1>4, <1>8, <2>1 DEF Saves
  <2>3. /\ \A p, q \in Currents' : p = q
        /\ Currents' = {} <=> Currents = {}
    BY <1>4, <1>8, <2>1 DEF Currents, CategoriesInv, CategoriesWait
  <2>4. CategoriesAgree'
    <3>1. CASE apart' = apart
      BY <1>2, <2>1, <2>2, <3>1 DEF CategoriesInv, CategoriesAgree
    <3>2. CASE apart' = {"categories"}
      BY <1>2, <2>1, <2>2, <3>2 DEF CategoriesInv, CategoriesAgree
    <3> QED BY <2>1, <3>1, <3>2
  <2>5. CategoriesWait'
    BY <1>2, <2>2, <2>3 DEF CategoriesInv, CategoriesWait
  <2>6. CategoriesTyped'
    BY <1>2, <1>6 DEF CategoriesInv, CategoriesTyped
  <2> QED BY <1>7, <2>4, <2>5, <2>6 DEF CategoriesInv
<1>9. CASE r.op # "workers"
  <2>1. s.op # "workers" /\ s.op = r.op /\ s.on = r.on /\ s.to = r.to /\ r.list = "categories"
    BY <1>3, <1>4, <1>9 DEF Twin, CategoryAsks
  <2>2. r \in Saves /\ Saves' = (Saves \ {r}) \cup {s} /\ Currents' = Currents
    BY <1>4, <1>9, <2>1 DEF Saves, Currents
  <2>3. CategoriesAgree'
    <3>1. CASE ~r.alone
      <4>1. "categories" \in apart' /\ \A q \in Saves' : ~q.alone
        BY <1>3, <1>4, <2>2, <3>1 DEF CategoriesInv, CategoriesAgree
      <4> QED BY <4>1 DEF CategoriesAgree
    <3>2. CASE r.alone
      <4>1. Saves = {r} /\ Saves' = {s}
        BY <2>2, <3>2 DEF CategoriesInv, CategoriesAgree
      <4>2. s.op = "load" /\ s.state = "done" => s.saw = server'.categories
        BY <1>4, <2>1 DEF Brings
      <4>3. ASSUME "categories" \notin apart'
            PROVE  /\ s.op \in CategoryPatches =>
                        /\ s.state # "refused" => s.saw = shown'.categories
                        /\ s.state = "done" =>
                             /\ server'.categories = [shown'.categories EXCEPT ![s.on] = s.to]
                             /\ s.op = "update" => s.saw[s.on] # Gone
                   /\ (s.op \in CategoryPatches => s.state # "done")
                        => shown'.categories = server'.categories
        <5>1. apart' = apart /\ (s.state = "refused" => server' = server)
          BY <1>3, <1>4, <4>3
        <5>2. /\ shown.categories = server.categories
              /\ r.op \in CategoryPatches => r.saw = shown.categories
          BY <1>1, <4>1, <4>3, <5>1 DEF CategoriesInv, CategoriesAgree
        <5>3. CASE s.state = "refused"
          BY <1>2, <5>1, <5>2, <5>3
        <5>4. CASE s.state = "done" /\ r.op \in CategoryPatches
          <6>1. server' = CategoriesPage!Effect(r) /\ s.saw = r.saw /\ CategoriesPage!Accepts(r)
            BY <1>4, <5>4 DEF Brings, CategoryPatches
          <6>2. r.op = "update" => server.categories[r.on] # Gone
            BY <2>1, <6>1 DEF CategoriesPage!Accepts, CategoriesPage!Present
          <6> QED BY <1>2, <1>5, <2>1, <5>2, <5>4, <6>1, <6>2
        <5>5. CASE s.state = "done" /\ r.op \notin CategoryPatches
          <6>1. server' = server
            BY <1>3, <1>4, <1>5, <5>5 DEF CategoryAsks
          <6> QED BY <1>2, <2>1, <5>2, <5>5, <6>1
        <5> QED BY <1>4, <5>3, <5>4, <5>5
      <4> QED BY <1>4, <3>2, <4>1, <4>2, <4>3 DEF CategoriesAgree
    <3> QED BY <3>1, <3>2
  <2>4. CategoriesWait'
    BY <1>2, <2>1, <2>2 DEF CategoriesInv, CategoriesWait
  <2>5. CategoriesTyped'
    BY <1>2, <1>6 DEF CategoriesInv, CategoriesTyped
  <2> QED BY <1>7, <2>3, <2>4, <2>5 DEF CategoriesInv
<1> QED BY <1>8, <1>9

LEMMA CategoriesStart == ASSUME CategoriesPage!Init PROVE CategoriesInv
<1> DEFINE q == Request("load", "categories", Gone, Gone, Gone)
<1>1. /\ asked = {q} /\ dialog = <<>> /\ apart = DOMAIN shown /\ sent = 0
      /\ shown = [categories |-> [c \in Categories |-> Gone]]
      /\ view = [loading |-> TRUE, form |-> CategoriesPage!Blank, workersLoading |-> FALSE,
                 workersLoadFailed |-> FALSE, workers |-> {}]
  BY DEF CategoriesPage!Init, CategoriesPage!Mounted, CategoriesPage!Request, CategoriesPage!Closed,
         Request
<1>2. PICK fresh \in Categories :
        server = [categories |-> [c \in Categories |-> IF c = fresh THEN Gone ELSE CategoriesPage!Blank]]
  BY DEF CategoriesPage!Init
<1>3. Asks(q) /\ q.op = "load" /\ q.list = "categories" /\ q.state = "asked"
  BY RequestAsks DEF Request
<1> HIDE DEF q
<1>4. CategoryAsks(q)
  BY <1>3 DEF CategoryAsks, CategoryPatches
<1>5. CategoriesPage!Blank \in CategoriesPage!Forms
  BY DEF CategoriesPage!Blank, CategoriesPage!Forms, CategoriesPage!Rests
<1>6. CategoriesTyped
  <2>1. view \in CategoryViews /\ dialog \in Seq(CategoryDialogs) /\ Len(dialog) <= 1
    BY <1>1, <1>5 DEF CategoryViews
  <2>2. server \in CategoriesPage!Lists /\ shown \in CategoriesPage!Lists /\ DOMAIN shown = {"categories"}
    BY <1>1, <1>2, <1>5 DEF CategoriesPage!Lists
  <2>3. Sends.categories \in Nat
    BY ClientAssumption DEF ClientAssumption
  <2> QED BY <1>1, <2>1, <2>2, <2>3 DEF CategoriesTyped
<1>7. Saves = {q} /\ Currents = {}
  BY <1>1, <1>3 DEF Saves, Currents
<1>8. CategoriesAgree
  BY <1>1, <1>3, <1>7 DEF CategoriesAgree
<1>9. CategoriesWait
  BY <1>1, <1>3, <1>7 DEF CategoriesWait, TopOf
<1> QED BY <1>1, <1>4, <1>6, <1>8, <1>9 DEF CategoriesInv

LEMMA CategoriesStep == ASSUME CategoriesInv, [CategoriesPage!Next]_pageVars PROVE CategoriesInv'
<1>1. CASE UNCHANGED pageVars
  <2>1. UNCHANGED <<server, shown, asked, apart, sent, dialog, view>>
    BY <1>1 DEF pageVars
  <2>2. Saves' = Saves /\ Currents' = Currents
    BY <2>1 DEF Saves, Currents
  <2>3. /\ \A r \in asked : CategoryAsks(r)
        /\ sent \in 0..Sends.categories /\ view \in CategoryViews
        /\ dialog \in Seq(CategoryDialogs) /\ Len(dialog) <= 1
        /\ \A p, q \in Currents : p = q
        /\ TopOf(dialog).is = "category" => (view.workersLoading <=> Currents # {})
    BY DEF CategoriesInv, CategoriesTyped, CategoriesWait
  <2> QED BY <2>1, <2>2, <2>3, CategoriesIdle
<1>2. CASE CategoriesPage!Next
  BY <1>2, CategoriesLook, CategoriesAsks, CategoriesLands, CategoriesServed DEF CategoriesPage!Next
<1> QED BY <1>1, <1>2

CategoriesHold == page = "categories" => CategoriesInv

LEMMA CategoriesAlways == Spec => []CategoriesHold
<1>1. Init => CategoriesHold
  BY CategoriesStart DEF Init, CategoriesHold
<1>2. ASSUME CategoriesHold, [Next]_vars PROVE CategoriesHold'
  <2>1. page' = page /\ (page = "categories" => [CategoriesPage!Next]_pageVars)
    BY <1>2 DEF Next, vars
  <2> QED BY <1>2, <2>1, CategoriesStep DEF CategoriesHold
<1> QED BY <1>1, <1>2, PTL DEF Spec

-----------------------------------------------------------------------------
(* Workers.tsx. *)

WorkerAsks(r) ==
  /\ Asks(r)
  /\ r.op \in {"load", "create", "update", "delete", "details"}
  /\ r.list = IF r.op = "details" THEN "none" ELSE "workers"
  /\ r.op # "load" => r.on \in Workers
  /\ r.op \in {"create", "update"} => r.to \in WorkersPage!Forms
  /\ r.op = "delete" => r.to = Gone
  /\ r.op = "load" /\ r.state = "done" => r.saw \in [Workers -> WorkersPage!Forms \cup {Gone}]
WorkerDialogs ==
  [is : {"add"}, on : {Nobody}] \cup [is : {"details", "edit", "delete"}, on : Workers]
WorkerViews ==
  [loading : BOOLEAN, refreshing : BOOLEAN, creating : BOOLEAN, form : WorkersPage!Forms,
   details : Workers \cup {Nobody}, detailsLoading : BOOLEAN, twice : BOOLEAN]

\* What the changes of worker w that are done, and not yet taken, have made of it.
DoneTo(op, w) == {r.to : r \in {q \in asked : q.op = op /\ q.on = w /\ q.state = "done"}}

\* A worker is what a list holds once the changes that are done are patched in:
\* a deletion for good, an update where there is something to update, a creation
\* where there is nothing, or the created worker already.
Follows(deleted, updated, created, now, held) ==
  /\ deleted # {} => now = Gone
  /\ deleted = {} =>
       /\ \A to \in updated : now = IF held = Gone THEN Gone ELSE to
       /\ updated = {} =>
            /\ \A to \in created : now = to /\ held \in {Gone, to}
            /\ created = {} => now = held
Patched(w, held) ==
  Follows(DoneTo("delete", w), DoneTo("update", w), DoneTo("create", w), server.workers[w], held)

\* All the rows of a worker show it as it is held, and there are some if it is.
Values(rows) == {rows[i] : i \in DOMAIN rows}
RowsShow(rows, held) == Values(rows) = {held} \ {Gone}

\* The list and a load that is on its way need the same patches; a creation has a
\* worker of its own, and a worker one update or deletion at a time, or its list
\* is given up.
WorkersSole ==
  /\ \A r \in asked : r.alone => asked = {r}
  /\ \A r \in asked : r.op = "load" /\ r.state = "done" /\ r.alone => r.saw = server.workers
  /\ \A q, r \in asked : q.op = "create" /\ r.op = "create" => q = r
  /\ \A q, r \in asked : q.op = "create" /\ r.op \in {"update", "delete"} => q.on # r.on
  /\ "workers" \notin apart =>
       \A q, r \in asked : q.op = r.op /\ q.on = r.on /\ q.op \in {"update", "delete"} => q = r
WorkersPatched ==
  "workers" \notin apart => \A w \in Workers :
    /\ \E held \in WorkersPage!Forms \cup {Gone} : RowsShow(shown.workers[w], held) /\ Patched(w, held)
    /\ \A r \in asked : r.op = "load" /\ r.state = "done" => Patched(w, r.saw[w])
\* A creation that no load goes beside finds no row of its worker.
WorkersOnce ==
  ~view.twice =>
    /\ \A w \in Workers : Len(shown.workers[w]) <= 1
    /\ \A r \in asked : r.op = "create" =>
         shown.workers[r.on] = <<>> /\ \A q \in asked : q.op # "load"
WorkersWait ==
  /\ view.refreshing => \E r \in asked : r.op = "load"
  /\ view.creating <=> \E r \in asked : r.op = "create"
  /\ view.detailsLoading => \E r \in asked : r.op = "details"
  /\ view.creating => TopOf(dialog).is = "add"
WorkersTyped ==
  /\ server \in WorkersPage!Lists /\ shown \in WorkersPage!Copies
  /\ sent \in 0..Sends.workers /\ apart \subseteq {"workers"}
  /\ view \in WorkerViews /\ dialog \in Seq(WorkerDialogs)
WorkersInv ==
  /\ WorkersTyped
  /\ \A r \in asked : WorkerAsks(r)
  /\ WorkersSole /\ WorkersPatched /\ WorkersOnce /\ WorkersWait

LEMMA WorkersPlain ==
  ASSUME WorkersInv
  PROVE  /\ server \in WorkersPage!Lists /\ shown \in WorkersPage!Copies
         /\ server.workers \in [Workers -> WorkersPage!Forms \cup {Gone}]
         /\ shown.workers \in [Workers -> Seq(WorkersPage!Forms)]
         /\ DOMAIN shown = {"workers"} /\ sent \in 0..Sends.workers /\ Sends.workers \in Nat
         /\ view \in WorkerViews /\ dialog \in Seq(WorkerDialogs)
         /\ \A r \in asked : WorkerAsks(r) /\ Asks(r)
         /\ WorkersPage!Top = TopOf(dialog)
         /\ view.creating => TopOf(dialog).is = "add"
<1>1. WorkersPage!Top = TopOf(dialog)
  BY DEF WorkersPage!Top, WorkersPage!Closed, TopOf
<1>2. Sends.workers \in Nat
  BY ClientAssumption DEF ClientAssumption
<1> QED BY <1>1, <1>2 DEF WorkersInv, WorkersTyped, WorkersWait, WorkerAsks, WorkersPage!Lists, WorkersPage!Copies

\* No change of a worker comes or goes, and no load ends.
LEMMA PatchedStays ==
  ASSUME WorkersPatched, server' = server, shown' = shown,
         "workers" \notin apart' => "workers" \notin apart,
         \A op \in {"create", "update", "delete"} : \A w \in Workers : DoneTo(op, w)' = DoneTo(op, w),
         \A r \in asked' : r.op = "load" /\ r.state = "done" =>
           \E p \in asked : p.op = "load" /\ p.state = "done" /\ p.saw = r.saw
  PROVE  WorkersPatched'
<1>1. ASSUME NEW w \in Workers, NEW held, Patched(w, held)
      PROVE  Follows(DoneTo("delete", w)', DoneTo("update", w)', DoneTo("create", w)',
                     server'.workers[w], held)
  BY <1>1 DEF Patched
<1>2. ASSUME "workers" \notin apart', NEW w \in Workers
      PROVE  /\ \E held \in WorkersPage!Forms \cup {Gone} :
                  RowsShow(shown'.workers[w], held) /\ Patched(w, held)'
             /\ \A r \in asked' : r.op = "load" /\ r.state = "done" => Patched(w, r.saw[w])'
  <2>1. PICK held \in WorkersPage!Forms \cup {Gone} : RowsShow(shown.workers[w], held) /\ Patched(w, held)
    BY <1>2 DEF WorkersPatched
  <2>2. Patched(w, held)'
    BY <1>1, <2>1 DEF Patched
  <2>3. ASSUME NEW r \in asked', r.op = "load", r.state = "done" PROVE Patched(w, r.saw[w])'
    <3>1. PICK p \in asked : p.op = "load" /\ p.state = "done" /\ p.saw = r.saw
      BY <2>3
    <3>2. Patched(w, r.saw[w])
      BY <1>2, <3>1 DEF WorkersPatched
    <3> QED BY <1>1, <3>2 DEF Patched
  <2> QED BY <2>1, <2>2, <2>3
<1> QED BY <1>2 DEF WorkersPatched, RowsShow, Values

\* Requests go, and only those that the lists do not depend on.
LEMMA WorkersFewer ==
  ASSUME WorkersInv, asked' \subseteq asked, server' = server, apart' \subseteq apart,
         apart' = apart \/ asked' = {}
  PROVE  WorkersSole' /\ \A r \in asked' : WorkerAsks(r)
<1>1. \A r \in asked' : r.alone => asked' = {r}
  BY DEF WorkersInv, WorkersSole
<1> QED BY <1>1 DEF WorkersInv, WorkersSole

LEMMA WorkersIdle ==
  ASSUME WorkersInv, asked' \subseteq asked, UNCHANGED <<server, shown, apart, sent>>,
         \A r \in asked \ asked' : r.state # "done" \/ r.op \notin {"create", "update", "delete"},
         view' \in WorkerViews, view.twice => view'.twice, dialog' \in Seq(WorkerDialogs),
         WorkersWait'
  PROVE  WorkersInv'
<1>1. WorkersSole' /\ \A r \in asked' : WorkerAsks(r)
  BY WorkersFewer
<1>2. \A op \in {"create", "update", "delete"} : \A w \in Workers : DoneTo(op, w)' = DoneTo(op, w)
  BY DEF DoneTo
<1>3. WorkersPatched'
  BY <1>2, PatchedStays DEF WorkersInv
<1>4. WorkersTyped'
  BY DEF WorkersInv, WorkersTyped
<1>5. WorkersOnce'
  BY DEF WorkersInv, WorkersOnce
<1> QED BY <1>1, <1>3, <1>4, <1>5 DEF WorkersInv

LEMMA WorkersLook ==
  ASSUME WorkersInv,
         \/ WorkersPage!OpenAdd \/ WorkersPage!DetailsAnswered \/ WorkersPage!CloseDialog
         \/ WorkersPage!ConfirmDelete \/ WorkersPage!ShowEdit \/ WorkersPage!TypeEdit
         \/ WorkersPage!CreateRefused \/ WorkersPage!Refused({"delete", "update"})
  PROVE  WorkersInv'
<1>1. /\ view \in WorkerViews /\ dialog \in Seq(WorkerDialogs)
      /\ \A r \in asked : WorkerAsks(r)
      /\ WorkersPage!Top = TopOf(dialog)
      /\ view.refreshing => \E r \in asked : r.op = "load"
      /\ view.creating <=> \E r \in asked : r.op = "create"
      /\ view.detailsLoading => \E r \in asked : r.op = "details"
      /\ view.creating => TopOf(dialog).is = "add"
  BY WorkersPlain DEF WorkersInv, WorkersWait
<1>2. CASE WorkersPage!OpenAdd
  <2>1. /\ UNCHANGED <<server, shown, asked, view, apart, sent>>
        /\ dialog' = Append(dialog, [is |-> "add", on |-> Nobody])
    BY <1>2 DEF WorkersPage!OpenAdd, WorkersPage!Over, WorkersPage!Dialog
  <2>2. [is |-> "add", on |-> Nobody] \in WorkerDialogs
    BY DEF WorkerDialogs
  <2>3. dialog' \in Seq(WorkerDialogs) /\ TopOf(dialog').is = "add"
    BY <1>1, <2>1, <2>2, OverTop
  <2>4. WorkersWait'
    BY <1>1, <2>1, <2>3 DEF WorkersWait
  <2> QED BY <1>1, <2>1, <2>3, <2>4, WorkersIdle
<1>3. CASE WorkersPage!DetailsAnswered
  <2>1. PICK r \in asked :
          /\ r.op = "details"
          /\ view' = [view EXCEPT !.details = r.on, !.detailsLoading = FALSE]
          /\ asked' = asked \ {r} /\ UNCHANGED <<server, shown, dialog, apart, sent>>
    BY <1>3 DEF WorkersPage!DetailsAnswered, WorkersPage!Answers, WorkersPage!Land
  <2>2. r.on \in Workers
    BY <1>1, <2>1 DEF WorkerAsks
  <2>3. /\ view' \in WorkerViews /\ ~view'.detailsLoading /\ view'.creating = view.creating
        /\ view'.refreshing = view.refreshing
    BY <1>1, <2>1, <2>2 DEF WorkerViews
  <2>4. WorkersWait'
    BY <1>1, <2>1, <2>3 DEF WorkersWait
  <2> QED BY <1>1, <2>1, <2>3, <2>4, WorkersIdle
<1>4. CASE WorkersPage!CloseDialog
  <2>1. /\ UNCHANGED <<server, shown, asked, apart, sent>>
        /\ dialog' = SubSeq(dialog, 1, Len(dialog) - 1)
        /\ view' = view \/ view' = [view EXCEPT !.details = Nobody]
        /\ TopOf(dialog).is = "add" => ~view.creating
    BY <1>1, <1>4 DEF WorkersPage!CloseDialog, WorkersPage!CloseTop
  <2>2. dialog' \in Seq(WorkerDialogs)
    BY <1>1, <2>1, CloseShortens
  <2>3. /\ view' \in WorkerViews /\ view'.detailsLoading = view.detailsLoading
        /\ view'.creating = view.creating /\ view'.refreshing = view.refreshing
        /\ view'.twice = view.twice
    BY <1>1, <2>1 DEF WorkerViews
  <2>4. WorkersWait'
    BY <1>1, <2>1, <2>3 DEF WorkersWait
  <2> QED BY <1>1, <2>1, <2>2, <2>3, <2>4, WorkersIdle
<1>5. ASSUME NEW is \in {"delete", "edit"}, WorkersPage!OverDetails(is),
             view' = view \/ view' = [view EXCEPT !.form = "plain"]
      PROVE  WorkersInv'
  <2>1. /\ UNCHANGED <<server, shown, asked, apart, sent>>
        /\ dialog' = Append(dialog, [is |-> is, on |-> view.details])
        /\ TopOf(dialog).is = "details" /\ view.details # Nobody
    BY <1>1, <1>5 DEF WorkersPage!OverDetails, WorkersPage!On, WorkersPage!Over, WorkersPage!Dialog
  <2>2. [is |-> is, on |-> view.details] \in WorkerDialogs
    BY <1>1, <2>1 DEF WorkerDialogs, WorkerViews
  <2>3. dialog' \in Seq(WorkerDialogs)
    BY <1>1, <2>1, <2>2, OverTop
  <2>4. /\ view' \in WorkerViews /\ view'.detailsLoading = view.detailsLoading
        /\ view'.creating = view.creating /\ view'.refreshing = view.refreshing
        /\ view'.twice = view.twice
    BY <1>1, <1>5 DEF WorkerViews, WorkersPage!Forms
  <2>5. WorkersWait'
    BY <1>1, <2>1, <2>4 DEF WorkersWait
  <2> QED BY <1>1, <2>1, <2>3, <2>4, <2>5, WorkersIdle
<1>6. CASE WorkersPage!TypeEdit
  <2>1. /\ UNCHANGED <<server, shown, asked, dialog, apart, sent>>
        /\ \E form \in WorkersPage!Forms : view' = [view EXCEPT !.form = form]
    BY <1>6 DEF WorkersPage!TypeEdit
  <2>2. /\ view' \in WorkerViews /\ view'.detailsLoading = view.detailsLoading
        /\ view'.creating = view.creating /\ view'.refreshing = view.refreshing
    BY <1>1, <2>1 DEF WorkerViews
  <2>3. WorkersWait'
    BY <1>1, <2>1, <2>2 DEF WorkersWait
  <2> QED BY <1>1, <2>1, <2>2, <2>3, WorkersIdle
<1>7. CASE WorkersPage!CreateRefused
  <2>1. PICK r \in asked :
          /\ r.op = "create" /\ r.state = "refused"
          /\ view' = [view EXCEPT !.creating = FALSE]
          /\ asked' = asked \ {r} /\ UNCHANGED <<server, shown, dialog, apart, sent>>
    BY <1>7 DEF WorkersPage!CreateRefused, WorkersPage!Answers, WorkersPage!Land
  <2>2. /\ view' \in WorkerViews /\ view'.detailsLoading = view.detailsLoading
        /\ ~view'.creating /\ view'.refreshing = view.refreshing
    BY <1>1, <2>1 DEF WorkerViews
  <2>3. \A q \in asked' : q.op # "create"
    BY <2>1 DEF WorkersInv, WorkersSole
  <2>4. WorkersWait'
    BY <1>1, <2>1, <2>2, <2>3 DEF WorkersWait
  <2> QED BY <1>1, <2>1, <2>2, <2>4, WorkersIdle
<1>8. CASE WorkersPage!Refused({"delete", "update"})
  <2>1. PICK r \in asked :
          /\ r.op \in {"delete", "update"} /\ r.state = "refused"
          /\ asked' = asked \ {r} /\ UNCHANGED <<server, shown, dialog, view, apart, sent>>
    BY <1>8 DEF WorkersPage!Refused, WorkersPage!Land
  <2>2. WorkersWait'
    BY <1>1, <2>1 DEF WorkersWait
  <2> QED BY <1>1, <2>1, <2>2, WorkersIdle
<1> QED BY <1>2, <1>3, <1>4, <1>5, <1>6, <1>7, <1>8 DEF WorkersPage!ConfirmDelete, WorkersPage!ShowEdit

\* One more request, beside those that were under way, or those that are no load.
LEMMA WorkersJoin ==
  ASSUME WorkersInv, NEW others, others = asked \/ others = WorkersPage!NoLoad,
         NEW q, WorkerAsks(q), q.state = "asked", asked' = Add(others, q),
         UNCHANGED <<server, shown>>,
         apart \subseteq apart', apart' \subseteq {"workers"},
         q.op \in {"update", "delete"} =>
           /\ ~view.creating
           /\ (\E r \in asked : r.op = q.op /\ r.on = q.on) => "workers" \in apart',
         q.op = "create" => ~view.creating /\ \A r \in asked : r.on # q.on,
         others # asked => q.op = "load"
  PROVE  /\ WorkersSole' /\ WorkersPatched' /\ \A r \in asked' : WorkerAsks(r)
         /\ \A p \in others \cup {q} : \E r \in asked' : r.op = p.op
         /\ \A r \in asked' : \E p \in others \cup {q} : r.op = p.op /\ r.on = p.on
<1>1. /\ others \subseteq asked /\ \A r \in asked : r.op # "load" => r \in others
      /\ \A r \in asked : WorkerAsks(r) /\ Asks(r)
      /\ Asks(q)
      /\ (\E r \in asked : r.op = "create") => view.creating
  BY WorkersPlain DEF WorkersPage!NoLoad, WorkerAsks, WorkersInv, WorkersWait
<1>2. /\ \A r \in asked' : Asks(r) /\ \E p \in others \cup {q} : Same(r, p)
      /\ \A p \in others \cup {q} : \E r \in asked' : Same(r, p)
      /\ others = {} => \A r \in asked' : asked' = {r} /\ r.alone
      /\ others # {} => \A r \in asked' : ~r.alone
      /\ \A r, s \in asked' : Same(r, s) => r = s
  BY <1>1, JoinAsks
<1>3. \A r \in asked' : WorkerAsks(r)
  BY <1>1, <1>2 DEF WorkerAsks, Same
<1>4. \A op \in {"create", "update", "delete"} : \A w \in Workers : DoneTo(op, w)' = DoneTo(op, w)
  <2>1. ASSUME NEW op \in {"create", "update", "delete"}, NEW w \in Workers
        PROVE  DoneTo(op, w)' = DoneTo(op, w)
    <3>1. ASSUME NEW r \in asked', r.op = op, r.on = w, r.state = "done"
          PROVE  \E p \in asked : p.op = op /\ p.on = w /\ p.state = "done" /\ p.to = r.to
      BY <1>1, <1>2, <3>1 DEF Same
    <3>2. ASSUME NEW p \in asked, p.op = op, p.on = w, p.state = "done"
          PROVE  \E r \in asked' : r.op = op /\ r.on = w /\ r.state = "done" /\ r.to = p.to
      BY <1>1, <1>2, <3>2 DEF Same
    <3> QED BY <3>1, <3>2 DEF DoneTo
  <2> QED BY <2>1
<1>5. WorkersSole'
  <2>1. \A r \in asked' : r.alone => asked' = {r}
    BY <1>2
  <2>2. \A r \in asked' : r.op = "load" /\ r.state = "done" /\ r.alone => r.saw = server'.workers
    <3>1. ASSUME NEW r \in asked', r.alone PROVE r.state = "asked"
      <4>1. others = {}
        BY <1>2, <3>1
      <4> QED BY <1>2, <4>1 DEF Same
    <3> QED BY <3>1
  <2>3. ASSUME NEW r \in asked', NEW s \in asked', r.op = "create", s.op = "create" PROVE r = s
    <3>1. PICK p \in others \cup {q}, o \in others \cup {q} : Same(r, p) /\ Same(s, o)
      BY <1>2
    <3>2. p = o
      BY <1>1, <2>3, <3>1 DEF Same, WorkersInv, WorkersSole
    <3>3. Same(r, s)
      BY <3>1, <3>2 DEF Same
    <3> QED BY <1>2, <3>3
  <2>4. ASSUME NEW r \in asked', NEW s \in asked', r.op = "create", s.op \in {"update", "delete"}
        PROVE  r.on # s.on
    <3>1. PICK p \in others \cup {q}, o \in others \cup {q} : Same(r, p) /\ Same(s, o)
      BY <1>2
    <3>2. p.op = "create" /\ o.op \in {"update", "delete"} /\ p.on = r.on /\ o.on = s.on
      BY <2>4, <3>1 DEF Same
    <3>3. CASE p = q
      BY <1>1, <3>2, <3>3
    <3>4. CASE o = q
      BY <1>1, <3>2, <3>4
    <3>5. CASE p # q /\ o # q
      BY <1>1, <3>2, <3>5 DEF WorkersInv, WorkersSole
    <3> QED BY <3>3, <3>4, <3>5
  <2>5. ASSUME "workers" \notin apart', NEW r \in asked', NEW s \in asked',
               r.op = s.op, r.on = s.on, r.op \in {"update", "delete"}
        PROVE  r = s
    <3>1. PICK p \in others \cup {q}, o \in others \cup {q} : Same(r, p) /\ Same(s, o)
      BY <1>2
    <3>2. /\ p.op = o.op /\ p.on = o.on /\ p.op \in {"update", "delete"}
          /\ "workers" \notin apart
      BY <2>5, <3>1 DEF Same
    <3>3. p = o
      BY <1>1, <2>5, <3>2 DEF WorkersInv, WorkersSole
    <3>4. Same(r, s)
      BY <3>1, <3>3 DEF Same
    <3> QED BY <1>2, <3>4
  <2> QED BY <2>1, <2>2, <2>3, <2>4, <2>5 DEF WorkersSole
<1>6. WorkersPatched'
  <2>1. \A r \in asked' : r.op = "load" /\ r.state = "done" =>
          \E p \in asked : p.op = "load" /\ p.state = "done" /\ p.saw = r.saw
    BY <1>1, <1>2 DEF Same
  <2> QED BY <1>4, <2>1, PatchedStays DEF WorkersInv
<1> QED BY <1>2, <1>3, <1>5, <1>6 DEF Same

LEMMA WorkersAsks ==
  ASSUME WorkersInv,
         \/ WorkersPage!LoadWorkers \/ WorkersPage!CreateWorker
         \/ \E w \in Workers : WorkersPage!ShowDetails(w)
         \/ WorkersPage!DeleteWorker \/ WorkersPage!UpdateWorker
  PROVE  WorkersInv'
<1>1. /\ server \in WorkersPage!Lists /\ shown \in WorkersPage!Copies
      /\ DOMAIN shown = {"workers"} /\ sent \in 0..Sends.workers /\ Sends.workers \in Nat
      /\ apart \subseteq {"workers"}
      /\ view \in WorkerViews /\ dialog \in Seq(WorkerDialogs)
      /\ \A r \in asked : WorkerAsks(r)
      /\ WorkersPage!Top = TopOf(dialog)
      /\ view.refreshing => \E r \in asked : r.op = "load"
      /\ view.creating <=> \E r \in asked : r.op = "create"
      /\ view.detailsLoading => \E r \in asked : r.op = "details"
      /\ view.creating => TopOf(dialog).is = "add"
  BY WorkersPlain DEF WorkersInv, WorkersWait, WorkersTyped
<1>2. ASSUME NEW op \in {"create", "update", "delete"}, NEW w \in Workers, NEW to,
             WorkersPage!AskChange(op, w, to),
             op \in {"create", "update"} => to \in WorkersPage!Forms, op = "delete" => to = Gone,
             op = "create" => shown.workers[w] = <<>> /\ \A r \in asked : r.on # w,
             ~view.creating, UNCHANGED <<server, shown, dialog>>,
             view' = IF op = "create"
                     THEN [view EXCEPT !.creating = TRUE, !.twice = @ \/ WorkersPage!Waiting("load")] ELSE view,
             op = "create" => TopOf(dialog).is = "add"
      PROVE  WorkersInv'
  <2> DEFINE q == Request(op, "workers", w, to, Gone)
  <2>1. /\ asked' = Add(asked, q) /\ sent < Sends.workers /\ sent' = sent + 1
        /\ apart' = IF \E r \in asked : r.op = op /\ r.on = w THEN {"workers"} ELSE apart
    BY <1>2 DEF WorkersPage!AskChange, WorkersPage!Add, WorkersPage!Request, Add, Request
  <2>2. Asks(q) /\ q.op = op /\ q.on = w /\ q.to = to /\ q.list = "workers" /\ q.state = "asked"
    BY RequestAsks DEF Request
  <2> HIDE DEF q
  <2>3. WorkerAsks(q)
    BY <1>2, <2>2 DEF WorkerAsks
  <2>4. apart \subseteq apart' /\ apart' \subseteq {"workers"}
    BY <1>1, <2>1
  <2>a. /\ q.op \in {"update", "delete"} =>
             /\ ~view.creating
             /\ (\E r \in asked : r.op = q.op /\ r.on = q.on) => "workers" \in apart'
        /\ q.op = "create" => ~view.creating /\ \A r \in asked : r.on # q.on
    BY <1>2, <2>1, <2>2
  <2>b. asked' = Add(asked, q) /\ UNCHANGED <<server, shown>>
    BY <1>2, <2>1
  <2>5. /\ WorkersSole' /\ WorkersPatched' /\ \A r \in asked' : WorkerAsks(r)
        /\ \A p \in asked \cup {q} : \E r \in asked' : r.op = p.op
        /\ \A r \in asked' : \E p \in asked \cup {q} : r.op = p.op /\ r.on = p.on
    BY <2>2, <2>3, <2>4, <2>a, <2>b, WorkersJoin
  <2>6. /\ view' \in WorkerViews /\ view'.detailsLoading = view.detailsLoading
        /\ view'.refreshing = view.refreshing /\ view'.creating = (op = "create")
    BY <1>1, <1>2 DEF WorkerViews
  <2>7. WorkersWait'
    BY <1>1, <1>2, <2>2, <2>5, <2>6 DEF WorkersWait
  <2>8. WorkersTyped'
    BY <1>1, <1>2, <2>1, <2>4, <2>6 DEF WorkersTyped
  <2>9. /\ view.twice => view'.twice
        /\ op = "create" /\ ~view'.twice => \A r \in asked : r.op # "load"
    BY <1>1, <1>2 DEF WorkerViews, WorkersPage!Waiting
  <2>10. WorkersOnce'
    BY <1>1, <1>2, <2>2, <2>5, <2>9 DEF WorkersInv, WorkersOnce
  <2> QED BY <2>5, <2>7, <2>8, <2>10 DEF WorkersInv
<1>3. CASE WorkersPage!LoadWorkers
  <2> DEFINE q == Request("load", "workers", Gone, Gone, Gone)
  <2>1. /\ asked' = Add(WorkersPage!NoLoad, q) /\ sent < Sends.workers /\ sent' = sent + 1
        /\ view' = [view EXCEPT !.refreshing = TRUE] /\ UNCHANGED <<server, shown, dialog, apart>>
    BY <1>3 DEF WorkersPage!LoadWorkers, WorkersPage!Add, WorkersPage!Request, Add, Request
  <2>2. Asks(q) /\ q.op = "load" /\ q.list = "workers" /\ q.state = "asked"
    BY RequestAsks DEF Request
  <2> HIDE DEF q
  <2>3. WorkerAsks(q)
    BY <2>2 DEF WorkerAsks
  <2> DEFINE others == WorkersPage!NoLoad
  <2>a. asked' = Add(others, q) /\ UNCHANGED <<server, shown>>
    BY <2>1
  <2>b. apart \subseteq apart' /\ apart' \subseteq {"workers"}
    BY <1>1, <2>1
  <2>c. others = WorkersPage!NoLoad
    OBVIOUS
  <2>4. others \subseteq asked /\ \A r \in asked : r.op # "load" => r \in others
    BY DEF WorkersPage!NoLoad
  <2>5. /\ WorkersSole' /\ WorkersPatched' /\ \A r \in asked' : WorkerAsks(r)
        /\ \A p \in others \cup {q} : \E r \in asked' : r.op = p.op
        /\ \A r \in asked' : \E p \in others \cup {q} : r.op = p.op /\ r.on = p.on
    <3> HIDE DEF others
    <3> QED BY <2>2, <2>3, <2>a, <2>b, <2>c, WorkersJoin
  <2>6. /\ view' \in WorkerViews /\ view'.detailsLoading = view.detailsLoading
        /\ view'.creating = view.creating
    BY <1>1, <2>1 DEF WorkerViews
  <2> HIDE DEF others
  <2>7. WorkersWait'
    BY <1>1, <2>1, <2>2, <2>4, <2>5, <2>6 DEF WorkersWait
  <2>8. WorkersTyped'
    BY <1>1, <2>1, <2>6 DEF WorkersTyped
  <2>9. dialog = <<>> /\ view'.twice = view.twice
    BY <1>1, <1>3, <2>1 DEF WorkersPage!LoadWorkers, WorkersPage!Closed, WorkerViews
  <2>10. \A r \in asked' : r.op # "create"
    BY <1>1, <2>2, <2>4, <2>5, <2>9 DEF TopOf
  <2>11. WorkersOnce'
    BY <2>1, <2>9, <2>10 DEF WorkersInv, WorkersOnce
  <2> QED BY <2>5, <2>7, <2>8, <2>11 DEF WorkersInv
<1>4. CASE WorkersPage!CreateWorker
  <2>1. PICK w \in Workers : /\ shown.workers[w] = <<>> /\ \A r \in asked : r.on # w
                             /\ WorkersPage!AskChange("create", w, "plain")
    BY <1>4 DEF WorkersPage!CreateWorker, WorkersPage!Rows
  <2>2. "plain" \in WorkersPage!Forms
    BY DEF WorkersPage!Forms
  <2> QED BY <1>1, <1>2, <1>4, <2>1, <2>2 DEF WorkersPage!CreateWorker
<1>5. ASSUME NEW w \in Workers, WorkersPage!ShowDetails(w) PROVE WorkersInv'
  <2> DEFINE q == Request("details", "none", w, Gone, Gone)
  <2>1. /\ asked' = Add(asked, q) /\ sent < Sends.workers /\ sent' = sent + 1
        /\ apart' = IF asked = {} THEN apart ELSE DOMAIN shown
        /\ dialog = <<>> /\ dialog' = Append(dialog, [is |-> "details", on |-> w])
        /\ view' = [view EXCEPT !.details = w, !.detailsLoading = TRUE]
        /\ UNCHANGED <<server, shown>>
    BY <1>5 DEF WorkersPage!ShowDetails, WorkersPage!Ask, WorkersPage!AskSeeing, WorkersPage!Add,
                WorkersPage!Request, WorkersPage!Closed, WorkersPage!Over, WorkersPage!Dialog,
                Add, Request
  <2>2. Asks(q) /\ q.op = "details" /\ q.on = w /\ q.list = "none" /\ q.state = "asked"
    BY RequestAsks DEF Request
  <2> HIDE DEF q
  <2>3. WorkerAsks(q)
    BY <2>2 DEF WorkerAsks
  <2>4. apart \subseteq apart' /\ apart' \subseteq {"workers"}
    BY <1>1, <2>1
  <2>5. /\ WorkersSole' /\ WorkersPatched' /\ \A r \in asked' : WorkerAsks(r)
        /\ \A p \in asked \cup {q} : \E r \in asked' : r.op = p.op
        /\ \A r \in asked' : \E p \in asked \cup {q} : r.op = p.op /\ r.on = p.on
    <3>1. asked' = Add(asked, q) /\ UNCHANGED <<server, shown>>
      BY <2>1
    <3> QED BY <2>2, <2>3, <2>4, <3>1, WorkersJoin
  <2>6. /\ view' \in WorkerViews /\ view'.creating = view.creating
        /\ view'.refreshing = view.refreshing
    BY <1>1, <2>1 DEF WorkerViews
  <2>7. ~view.creating
    BY <1>1, <2>1 DEF TopOf
  <2>8. WorkersWait'
    BY <1>1, <2>2, <2>5, <2>6, <2>7 DEF WorkersWait
  <2>9. [is |-> "details", on |-> w] \in WorkerDialogs
    BY DEF WorkerDialogs
  <2>10. dialog' \in Seq(WorkerDialogs)
    BY <1>1, <2>1, <2>9, OverTop
  <2>11. WorkersTyped'
    BY <1>1, <2>1, <2>4, <2>6, <2>10 DEF WorkersTyped
  <2>12. WorkersOnce'
    <3>1. view'.twice = view.twice
      BY <1>1, <2>1 DEF WorkerViews
    <3> QED BY <2>1, <2>2, <2>5, <3>1 DEF WorkersInv, WorkersOnce
  <2> QED BY <2>5, <2>8, <2>11, <2>12 DEF WorkersInv
<1>6. CASE WorkersPage!DeleteWorker \/ WorkersPage!UpdateWorker
  <2>1. TopOf(dialog).is \in {"delete", "edit"}
    BY <1>1, <1>6 DEF WorkersPage!DeleteWorker, WorkersPage!UpdateWorker, WorkersPage!On
  <2>2. TopOf(dialog) \in WorkerDialogs /\ ~view.creating
    BY <1>1, <2>1, TopTyped
  <2>3. TopOf(dialog).on \in Workers /\ view.form \in WorkersPage!Forms
    BY <1>1, <2>1, <2>2 DEF WorkerDialogs, WorkerViews
  <2>4. UNCHANGED <<server, shown, dialog, view>>
    BY <1>6 DEF WorkersPage!DeleteWorker, WorkersPage!UpdateWorker
  <2>5. \/ WorkersPage!AskChange("delete", TopOf(dialog).on, Gone)
        \/ WorkersPage!AskChange("update", TopOf(dialog).on, view.form)
    BY <1>1, <1>6 DEF WorkersPage!DeleteWorker, WorkersPage!UpdateWorker
  <2> QED BY <1>1, <1>2, <2>2, <2>3, <2>4, <2>5
<1> QED BY <1>3, <1>4, <1>5, <1>6

LEMMA WorkersWithout == \A kinds : WorkersPage!Without(kinds) = Without(kinds)
  BY DEF WorkersPage!Without, WorkersPage!Only, WorkersPage!Cardinality, Without, Only, Cardinality

\* What a change that is done makes of the rows of its worker.
Handled(r, rows) ==
  IF r.op = "create" THEN Append(rows, r.to)
  ELSE IF r.op = "delete" THEN <<>> ELSE [i \in DOMAIN rows |-> r.to]
Made(r, held) == IF r.op = "update" /\ held = Gone THEN Gone ELSE r.to

LEMMA HandledRows ==
  ASSUME NEW r, r.op \in {"create", "update", "delete"}, r.op = "delete" => r.to = Gone,
         r.op # "delete" => r.to \in WorkersPage!Forms,
         NEW rows \in Seq(WorkersPage!Forms)
  PROVE  /\ Handled(r, rows) \in Seq(WorkersPage!Forms)
         /\ Len(rows) <= 1 /\ (r.op = "create" => rows = <<>>) => Len(Handled(r, rows)) <= 1
         /\ \A held : RowsShow(rows, held) /\ (r.op = "create" => held \in {Gone, r.to})
                      => RowsShow(Handled(r, rows), Made(r, held))
<1>1. r.op # "delete" => r.to # Gone
  BY ClientAssumption DEF ClientAssumption
<1>2. CASE r.op = "create"
  <2>1. Handled(r, rows) = Append(rows, r.to)
    BY <1>2 DEF Handled
  <2>2. /\ Append(rows, r.to) \in Seq(WorkersPage!Forms) /\ Len(Append(rows, r.to)) = Len(rows) + 1
        /\ Len(rows) \in Nat /\ DOMAIN rows = 1..Len(rows)
        /\ DOMAIN Append(rows, r.to) = 1..(Len(rows) + 1)
        /\ \A i \in 1..Len(rows) : Append(rows, r.to)[i] = rows[i]
        /\ Append(rows, r.to)[Len(rows) + 1] = r.to
    BY <1>2
  <2>3. Values(Append(rows, r.to)) = Values(rows) \cup {r.to}
    BY <2>2 DEF Values
  <2>4. rows = <<>> => Len(rows) = 0
    OBVIOUS
  <2>5. ASSUME NEW held, RowsShow(rows, held), held \in {Gone, r.to}
        PROVE  RowsShow(Handled(r, rows), Made(r, held))
    <3>1. Values(Handled(r, rows)) = ({held} \ {Gone}) \cup {r.to}
      BY <2>1, <2>3, <2>5 DEF RowsShow
    <3>2. Made(r, held) = r.to
      BY <1>2 DEF Made
    <3> QED BY <1>1, <1>2, <2>5, <3>1, <3>2 DEF RowsShow
  <2> QED BY <1>2, <2>1, <2>2, <2>4, <2>5
<1>3. CASE r.op = "delete"
  <2>1. Handled(r, rows) = <<>> /\ \A held : Made(r, held) = Gone
    BY <1>3 DEF Handled, Made
  <2>2. Values(<<>>) = {}
    BY DEF Values
  <2> QED BY <1>3, <2>1, <2>2 DEF RowsShow
<1>4. CASE r.op = "update"
  <2>1. /\ Handled(r, rows) = [i \in 1..Len(rows) |-> r.to] /\ DOMAIN rows = 1..Len(rows)
        /\ Len(rows) \in Nat /\ r.to \in WorkersPage!Forms
    BY <1>4 DEF Handled
  <2>2. Handled(r, rows) \in Seq(WorkersPage!Forms) /\ Len(Handled(r, rows)) = Len(rows)
    BY <2>1
  <2>3. Values(Handled(r, rows)) = IF Values(rows) = {} THEN {} ELSE {r.to}
    <3>1. \A i \in 1..Len(rows) : Handled(r, rows)[i] = r.to
      BY <2>1
    <3>2. DOMAIN Handled(r, rows) = 1..Len(rows)
      BY <2>1
    <3>3. Values(rows) = {} <=> 1..Len(rows) = {}
      BY <2>1 DEF Values
    <3>4. Values(Handled(r, rows)) = IF 1..Len(rows) = {} THEN {} ELSE {r.to}
      BY <3>1, <3>2, Zenon DEF Values
    <3> QED BY <3>3, <3>4
  <2>4. ASSUME NEW held, RowsShow(rows, held) PROVE RowsShow(Handled(r, rows), Made(r, held))
    BY <1>1, <1>4, <2>3, <2>4 DEF RowsShow, Made
  <2> QED BY <1>4, <2>2, <2>4
<1> QED BY <1>2, <1>3, <1>4

\* A change that is done is taken: the loads go with it, and the list has it.
LEMMA WorkersPatch ==
  ASSUME WorkersInv, NEW r \in asked, r.op \in {"create", "update", "delete"}, r.state = "done",
         WorkersPage!Patch(r, [shown.workers EXCEPT ![r.on] = Handled(r, shown.workers[r.on])]),
         view'.twice = view.twice
  PROVE  /\ WorkersSole' /\ WorkersPatched' /\ WorkersOnce' /\ \A q \in asked' : WorkerAsks(q)
         /\ shown' \in WorkersPage!Copies /\ UNCHANGED <<server, apart, sent>>
         /\ \A q \in asked : q \in asked' \/ q = r \/ q.op = "load"
         /\ asked' \subseteq asked
<1> DEFINE list == [shown.workers EXCEPT ![r.on] = Handled(r, shown.workers[r.on])]
<1>1. /\ asked' = WorkersPage!NoLoad \ {r}
      /\ shown' = [shown EXCEPT !.workers = list]
      /\ UNCHANGED <<server, apart, sent>>
  BY DEF WorkersPage!Patch
<1>2. /\ shown \in WorkersPage!Copies /\ \A q \in asked : WorkerAsks(q)
      /\ shown.workers \in [Workers -> Seq(WorkersPage!Forms)]
      /\ r.on \in Workers /\ (r.op = "delete" => r.to = Gone)
      /\ r.op # "delete" => r.to \in WorkersPage!Forms
  BY WorkersPlain DEF WorkerAsks
<1>h. /\ Handled(r, shown.workers[r.on]) \in Seq(WorkersPage!Forms)
      /\ Len(shown.workers[r.on]) <= 1 /\ (r.op = "create" => shown.workers[r.on] = <<>>)
           => Len(Handled(r, shown.workers[r.on])) <= 1
      /\ \A held : RowsShow(shown.workers[r.on], held) /\ (r.op = "create" => held \in {Gone, r.to})
                   => RowsShow(Handled(r, shown.workers[r.on]), Made(r, held))
  BY <1>2, HandledRows
<1>l. /\ list \in [Workers -> Seq(WorkersPage!Forms)]
      /\ \A w \in Workers : w # r.on => list[w] = shown.workers[w]
      /\ list[r.on] = Handled(r, shown.workers[r.on])
  BY <1>2, <1>h
<1> HIDE DEF list
<1>3. /\ asked' \subseteq asked
      /\ \A q \in asked : q \in asked' \/ q = r \/ q.op = "load"
      /\ \A q \in asked' : q.op # "load" /\ q # r
  BY <1>1 DEF WorkersPage!NoLoad
<1>4. shown' \in WorkersPage!Copies /\ shown'.workers = list
  BY <1>1, <1>2, <1>l DEF WorkersPage!Copies
<1>5. WorkersSole' /\ \A q \in asked' : WorkerAsks(q)
  BY <1>1, <1>3, WorkersFewer
<1>6. ASSUME "workers" \notin apart, NEW w \in Workers
      PROVE  \E held \in WorkersPage!Forms \cup {Gone} :
               RowsShow(shown'.workers[w], held) /\ Patched(w, held)'
  <2>1. PICK held \in WorkersPage!Forms \cup {Gone} : RowsShow(shown.workers[w], held) /\ Patched(w, held)
    BY <1>6 DEF WorkersInv, WorkersPatched
  <2>2. ASSUME NEW op \in {"create", "update", "delete"}, op # r.op \/ w # r.on
        PROVE  DoneTo(op, w)' = DoneTo(op, w)
    <3>1. ASSUME NEW q \in asked, q.op = op, q.on = w PROVE q \in asked'
      BY <1>3, <2>2, <3>1
    <3> QED BY <1>3, <3>1 DEF DoneTo
  <2>3. CASE w # r.on
    <3>1. \A op \in {"create", "update", "delete"} : DoneTo(op, w)' = DoneTo(op, w)
      BY <2>2, <2>3
    <3>2. shown'.workers[w] = shown.workers[w] /\ server' = server
      BY <1>1, <1>4, <1>l, <2>3
    <3>3. Patched(w, held)'
      BY <2>1, <3>1, <3>2 DEF Patched
    <3> QED BY <2>1, <3>2, <3>3
  <2>4. CASE w = r.on
    <3>1. DoneTo(r.op, w)' = {}
      <4>1. \A q \in asked : q.op = r.op /\ q.on = w => q = r
        BY <1>6, <2>4 DEF WorkersInv, WorkersSole
      <4> QED BY <1>3, <4>1 DEF DoneTo
    <3>2. r.to \in DoneTo(r.op, w)
      BY <2>4 DEF DoneTo
    <3>3. \A to \in DoneTo(r.op, w) : to = r.to
      <4>1. \A q \in asked : q.op = r.op /\ q.on = w => q = r
        BY <1>6, <2>4 DEF WorkersInv, WorkersSole
      <4> QED BY <4>1 DEF DoneTo
    <3>a. shown'.workers[w] = Handled(r, shown.workers[w]) /\ server' = server
      BY <1>1, <1>4, <1>l, <2>4
    <3>b. Made(r, held) \in WorkersPage!Forms \cup {Gone}
      BY <1>2 DEF Made
    <3>c. SUFFICES /\ r.op = "create" => held \in {Gone, r.to}
                   /\ Patched(w, Made(r, held))'
      BY <1>h, <2>1, <2>4, <3>a, <3>b
    <3>4. CASE r.op = "create"
      <4>1. \A q \in asked : q.op \in {"update", "delete"} => q.on # w
        BY <2>4, <3>4 DEF WorkersInv, WorkersSole
      <4>2. DoneTo("update", w) = {} /\ DoneTo("delete", w) = {}
        BY <4>1 DEF DoneTo
      <4>3. server.workers[w] = r.to /\ held \in {Gone, r.to}
        BY <2>1, <3>2, <3>4, <4>2 DEF Patched, Follows
      <4>4. Made(r, held) = r.to
        BY <3>4 DEF Made
      <4>5. DoneTo("update", w)' = {} /\ DoneTo("delete", w)' = {} /\ DoneTo("create", w)' = {}
        BY <2>2, <3>1, <3>4, <4>2
      <4> QED BY <3>a, <4>3, <4>4, <4>5 DEF Patched, Follows
    <3>5. CASE r.op = "delete"
      <4>1. server.workers[w] = Gone
        BY <2>1, <3>2, <3>5 DEF Patched, Follows
      <4>2. Made(r, held) = Gone
        BY <1>2, <3>5 DEF Made
      <4>3. \A q \in asked : q.op = "create" => q.on # w
        BY <2>4, <3>5 DEF WorkersInv, WorkersSole
      <4>4. DoneTo("create", w)' = {}
        BY <1>3, <4>3 DEF DoneTo
      <4> QED BY <3>5, <3>a, <4>1, <4>2, <4>4 DEF Patched, Follows
    <3>6. CASE r.op = "update"
      <4>1. \A q \in asked : q.op = "create" => q.on # w
        BY <2>4, <3>6 DEF WorkersInv, WorkersSole
      <4>2. DoneTo("create", w)' = {} /\ DoneTo("update", w)' = {}
        BY <1>3, <3>1, <3>6, <4>1 DEF DoneTo
      <4>3. DoneTo("delete", w)' = DoneTo("delete", w)
        BY <2>2, <3>6
      <4>4. /\ DoneTo("delete", w) # {} => server.workers[w] = Gone
            /\ DoneTo("delete", w) = {} =>
                 server.workers[w] = IF held = Gone THEN Gone ELSE r.to
        BY <2>1, <3>2, <3>6 DEF Patched, Follows
      <4>5. Made(r, held) = IF held = Gone THEN Gone ELSE r.to
        BY <3>6 DEF Made
      <4> QED BY <3>6, <3>a, <4>2, <4>3, <4>4, <4>5 DEF Patched, Follows
    <3> QED BY <3>4, <3>5, <3>6
  <2> QED BY <2>3, <2>4
<1>7. WorkersPatched'
  BY <1>1, <1>3, <1>6 DEF WorkersPatched, RowsShow, Values
<1>8. WorkersOnce'
  <2>1. ASSUME ~view.twice, NEW w \in Workers PROVE Len(shown'.workers[w]) <= 1
    BY <1>h, <1>l, <1>4, <2>1 DEF WorkersInv, WorkersOnce
  <2>2. ASSUME ~view.twice, NEW q \in asked', q.op = "create" PROVE shown'.workers[q.on] = <<>>
    <3>1. shown.workers[q.on] = <<>> /\ q \in asked /\ q # r
      BY <1>3, <2>2 DEF WorkersInv, WorkersOnce
    <3>2. q.on # r.on /\ q.on \in Workers
      BY <1>2, <2>2, <3>1 DEF WorkersInv, WorkersSole, WorkerAsks
    <3> QED BY <1>l, <1>4, <3>1, <3>2
  <2> QED BY <1>3, <2>1, <2>2 DEF WorkersOnce
<1> QED BY <1>1, <1>3, <1>4, <1>5, <1>7, <1>8

LEMMA WorkersLands ==
  ASSUME WorkersInv,
         \/ WorkersPage!WorkersLoaded \/ WorkersPage!WorkerCreated
         \/ WorkersPage!WorkerDeleted \/ WorkersPage!WorkerUpdated
  PROVE  WorkersInv'
<1>1. /\ shown \in WorkersPage!Copies /\ server \in WorkersPage!Lists
      /\ shown.workers \in [Workers -> Seq(WorkersPage!Forms)]
      /\ sent \in 0..Sends.workers
      /\ apart \subseteq {"workers"}
      /\ view \in WorkerViews /\ dialog \in Seq(WorkerDialogs)
      /\ \A r \in asked : WorkerAsks(r)
      /\ view.creating <=> \E r \in asked : r.op = "create"
      /\ view.detailsLoading => \E r \in asked : r.op = "details"
      /\ view.creating => TopOf(dialog).is = "add"
  BY WorkersPlain DEF WorkersInv, WorkersWait, WorkersTyped
<1>2. CASE WorkersPage!WorkersLoaded
  <2>1. PICK r \in asked :
          /\ r.op = "load" /\ r.state \in {"done", "refused"}
          /\ shown' = IF r.state = "done" THEN [shown EXCEPT !.workers = WorkersPage!Listed(r.saw)] ELSE shown
          /\ asked' = asked \ {r} /\ sent' = sent
          /\ apart' = IF r.op = "load" /\ r.state = "done" /\ r.alone THEN apart \ {r.list} ELSE apart
          /\ view' = [view EXCEPT !.loading = FALSE, !.refreshing = FALSE,
                          !.twice = @ /\ (r.state = "refused" \/ WorkersPage!Waiting("create"))]
          /\ UNCHANGED <<server, dialog>>
    BY <1>2 DEF WorkersPage!WorkersLoaded, WorkersPage!Answers, WorkersPage!Land
  <2>2. /\ view' \in WorkerViews /\ ~view'.refreshing /\ view'.creating = view.creating
        /\ view'.detailsLoading = view.detailsLoading
        /\ view'.twice <=> view.twice /\ (r.state = "refused" \/ WorkersPage!Waiting("create"))
    BY <1>1, <2>1 DEF WorkerViews
  <2>3. WorkersWait'
    BY <1>1, <2>1, <2>2 DEF WorkersWait
  <2>4. CASE r.state = "refused"
    <3>1. UNCHANGED <<server, shown, apart, sent>>
      BY <2>1, <2>4
    <3> QED BY <1>1, <2>1, <2>2, <2>3, <2>4, <3>1, WorkersIdle
  <2>5. CASE r.state = "done"
    <3>1. r.alone => asked = {r} /\ r.saw = server.workers
      BY <2>1, <2>5 DEF WorkersInv, WorkersSole
    <3>2. apart' \subseteq apart /\ (apart' = apart \/ asked' = {})
      BY <2>1, <3>1
    <3>3. WorkersSole' /\ \A q \in asked' : WorkerAsks(q)
      BY <2>1, <3>2, WorkersFewer
    <3>4. /\ shown' \in WorkersPage!Copies
          /\ \A w \in Workers : Len(shown'.workers[w]) <= 1 /\ RowsShow(shown'.workers[w], r.saw[w])
          /\ r.saw \in [Workers -> WorkersPage!Forms \cup {Gone}]
      <4>1. r.saw \in [Workers -> WorkersPage!Forms \cup {Gone}]
        BY <1>1, <2>1, <2>5 DEF WorkerAsks
      <4>2. \A w \in Workers : WorkersPage!Listed(r.saw)[w] = IF r.saw[w] = Gone THEN <<>> ELSE <<r.saw[w]>>
        BY DEF WorkersPage!Listed
      <4>3. /\ WorkersPage!Listed(r.saw) \in [Workers -> Seq(WorkersPage!Forms)]
            /\ \A w \in Workers : Len(WorkersPage!Listed(r.saw)[w]) <= 1
        BY <4>1 DEF WorkersPage!Listed
      <4>4. \A w \in Workers : RowsShow(WorkersPage!Listed(r.saw)[w], r.saw[w])
        <5>1. \A x : Values(<<x>>) = {x}
          BY DEF Values
        <5>2. Values(<<>>) = {}
          BY DEF Values
        <5>3. ASSUME NEW w \in Workers
              PROVE  Values(WorkersPage!Listed(r.saw)[w]) = {r.saw[w]} \ {Gone}
          <6>1. CASE r.saw[w] = Gone
            BY <4>2, <5>2, <6>1
          <6>2. CASE r.saw[w] # Gone
            <7>1. Values(WorkersPage!Listed(r.saw)[w]) = {r.saw[w]}
              BY <4>2, <5>1, <6>2
            <7> QED BY <6>2, <7>1
          <6> QED BY <6>1, <6>2
        <5> QED BY <5>3 DEF RowsShow
      <4>5. shown' \in WorkersPage!Copies /\ shown'.workers = WorkersPage!Listed(r.saw)
        BY <1>1, <2>1, <2>5, <4>3 DEF WorkersPage!Copies
      <4> QED BY <4>1, <4>3, <4>4, <4>5
    <3>5. WorkersPatched'
      <4>1. CASE r.alone
        <5>1. asked' = {} /\ r.saw = server'.workers
          BY <2>1, <3>1, <4>1
        <5>2. \A w \in Workers : \A op \in {"create", "update", "delete"} : DoneTo(op, w)' = {}
          BY <5>1 DEF DoneTo
        <5>3. \A w \in Workers : Patched(w, r.saw[w])'
          BY <5>1, <5>2 DEF Patched, Follows
        <5>4. \A w \in Workers : r.saw[w] \in WorkersPage!Forms \cup {Gone}
          BY <3>4
        <5> QED BY <3>4, <5>1, <5>3, <5>4 DEF WorkersPatched, RowsShow, Values
      <4>2. CASE ~r.alone
        <5>1. \A w \in Workers : \A op \in {"create", "update", "delete"} :
                DoneTo(op, w)' = DoneTo(op, w)
          BY <2>1 DEF DoneTo
        <5>2. apart' = apart /\ server' = server /\ asked' \subseteq asked
          BY <2>1, <4>2
        <5>3. ASSUME "workers" \notin apart, NEW w \in Workers,
                     NEW q \in asked, q.op = "load", q.state = "done"
              PROVE  Patched(w, q.saw[w])'
          <6>1. Patched(w, q.saw[w])
            BY <5>3 DEF WorkersInv, WorkersPatched
          <6> QED BY <5>1, <5>2, <6>1 DEF Patched
        <5>4. \A w \in Workers : r.saw[w] \in WorkersPage!Forms \cup {Gone}
          BY <3>4
        <5> QED BY <2>1, <2>5, <3>4, <5>2, <5>3, <5>4 DEF WorkersPatched, RowsShow, Values
      <4> QED BY <4>1, <4>2
    <3>6. WorkersTyped'
      BY <1>1, <2>1, <2>2, <3>2, <3>4 DEF WorkersTyped
    <3>7. WorkersOnce'
      <4>1. ASSUME ~view'.twice, NEW q \in asked PROVE q.op # "create"
        BY <2>1, <2>2, <2>5, <4>1 DEF WorkersInv, WorkersOnce, WorkersPage!Waiting
      <4> QED BY <2>1, <3>4, <4>1 DEF WorkersOnce
    <3> QED BY <2>3, <3>3, <3>5, <3>6, <3>7 DEF WorkersInv
  <2> QED BY <2>1, <2>4, <2>5
<1>3. CASE WorkersPage!WorkerCreated
  <2>1. PICK r \in asked :
          /\ r.op = "create" /\ r.state = "done"
          /\ WorkersPage!Patch(r, [shown.workers EXCEPT ![r.on] = Append(@, r.to)])
    BY <1>3 DEF WorkersPage!WorkerCreated, WorkersPage!Answers
  <2>2. /\ view' = [view EXCEPT !.creating = FALSE, !.refreshing = FALSE]
        /\ dialog' = Without({"add"})
    BY <1>3, WorkersWithout DEF WorkersPage!WorkerCreated
  <2>3. WorkersPage!Patch(r, [shown.workers EXCEPT ![r.on] = Handled(r, shown.workers[r.on])])
    BY <2>1 DEF Handled
  <2>4. view'.twice = view.twice
    BY <1>1, <2>2 DEF WorkerViews
  <2>7. /\ WorkersSole' /\ WorkersPatched' /\ WorkersOnce' /\ \A q \in asked' : WorkerAsks(q)
        /\ shown' \in WorkersPage!Copies /\ UNCHANGED <<server, apart, sent>>
        /\ \A q \in asked : q \in asked' \/ q = r \/ q.op = "load"
        /\ asked' \subseteq asked
    BY <2>1, <2>3, <2>4, WorkersPatch
  <2>8. dialog' \in Seq(WorkerDialogs)
    BY <1>1, <2>2, WithoutTop
  <2>9. /\ view' \in WorkerViews /\ ~view'.refreshing /\ ~view'.creating
        /\ view'.detailsLoading = view.detailsLoading
    BY <1>1, <2>2 DEF WorkerViews
  <2>10. \A q \in asked' : q.op # "create"
    <3>1. r \notin asked'
      BY <2>1 DEF WorkersPage!Patch
    <3> QED BY <2>1, <2>7, <3>1 DEF WorkersInv, WorkersSole
  <2>11. WorkersWait'
    BY <1>1, <2>1, <2>7, <2>9, <2>10 DEF WorkersWait
  <2>12. WorkersTyped'
    BY <1>1, <2>7, <2>8, <2>9 DEF WorkersTyped
  <2> QED BY <2>7, <2>11, <2>12 DEF WorkersInv
<1>4. ASSUME NEW r \in asked, NEW is \in {"delete", "edit"}, r.op \in {"delete", "update"}, r.state = "done",
             WorkersPage!Patch(r, [shown.workers EXCEPT ![r.on] = Handled(r, shown.workers[r.on])]),
             WorkersPage!Finished(is)
      PROVE  WorkersInv'
  <2>1. /\ view' = [view EXCEPT !.refreshing = FALSE, !.details = Nobody]
        /\ dialog' = Without({is, "details"})
    BY <1>4, WorkersWithout DEF WorkersPage!Finished
  <2>2. view'.twice = view.twice
    BY <1>1, <2>1 DEF WorkerViews
  <2>4. /\ WorkersSole' /\ WorkersPatched' /\ WorkersOnce' /\ \A q \in asked' : WorkerAsks(q)
        /\ shown' \in WorkersPage!Copies /\ UNCHANGED <<server, apart, sent>>
        /\ \A q \in asked : q \in asked' \/ q = r \/ q.op = "load"
        /\ asked' \subseteq asked
    BY <1>4, <2>2, WorkersPatch
  <2>5. /\ dialog' \in Seq(WorkerDialogs)
        /\ TopOf(dialog).is \notin {is, "details"} => TopOf(dialog').is = TopOf(dialog).is
    BY <1>1, <2>1, WithoutTop
  <2>6. /\ view' \in WorkerViews /\ ~view'.refreshing /\ view'.creating = view.creating
        /\ view'.detailsLoading = view.detailsLoading
    BY <1>1, <2>1 DEF WorkerViews
  <2>7. WorkersWait'
    BY <1>1, <1>4, <2>4, <2>5, <2>6 DEF WorkersWait
  <2>8. WorkersTyped'
    BY <1>1, <2>4, <2>5, <2>6 DEF WorkersTyped
  <2> QED BY <2>4, <2>7, <2>8 DEF WorkersInv
<1>5. CASE WorkersPage!WorkerDeleted
  <2>1. PICK r \in asked :
          /\ r.op = "delete" /\ r.state = "done"
          /\ WorkersPage!Patch(r, [shown.workers EXCEPT ![r.on] = <<>>])
    BY <1>5 DEF WorkersPage!WorkerDeleted, WorkersPage!Answers
  <2>2. WorkersPage!Finished("delete")
    BY <1>5 DEF WorkersPage!WorkerDeleted
  <2>3. WorkersPage!Patch(r, [shown.workers EXCEPT ![r.on] = Handled(r, shown.workers[r.on])])
    BY <2>1 DEF Handled
  <2> QED BY <1>4, <2>1, <2>2, <2>3
<1>6. CASE WorkersPage!WorkerUpdated
  <2>1. PICK r \in asked :
          /\ r.op = "update" /\ r.state = "done"
          /\ WorkersPage!Patch(r, [shown.workers EXCEPT ![r.on] = [i \in DOMAIN @ |-> r.to]])
    BY <1>6 DEF WorkersPage!WorkerUpdated, WorkersPage!Answers
  <2>2. WorkersPage!Finished("edit")
    BY <1>6 DEF WorkersPage!WorkerUpdated
  <2>3. WorkersPage!Patch(r, [shown.workers EXCEPT ![r.on] = Handled(r, shown.workers[r.on])])
    BY <2>1 DEF Handled
  <2> QED BY <1>4, <2>1, <2>2, <2>3
<1> QED BY <1>2, <1>3, <1>5, <1>6

LEMMA WorkersServed ==
  ASSUME WorkersInv, WorkersPage!Serve(WorkersPage!Effect, WorkersPage!Accepts)
  PROVE  WorkersInv'
<1>1. PICK r \in asked :
        /\ r.state = "asked"
        /\ \/ /\ WorkersPage!Accepts(r)
              /\ server' = WorkersPage!Effect(r)
              /\ asked' = (asked \ {r}) \cup {Answer(r)}
              /\ apart' = apart
           \/ /\ asked' = (asked \ {r}) \cup {Refusal(r)}
              /\ server' = server /\ apart' = apart
           \/ /\ WorkersPage!Accepts(r)
              /\ server' = WorkersPage!Effect(r)
              /\ asked' = (asked \ {r}) \cup {Refusal(r)}
              /\ apart' = DOMAIN shown
  BY DEF WorkersPage!Serve, WorkersPage!Answer, WorkersPage!Refusal, WorkersPage!Brings, Answer, Refusal, Brings
<1>2. UNCHANGED <<shown, dialog, view, sent>>
  BY DEF WorkersPage!Serve
<1>3. /\ WorkerAsks(r) /\ Asks(r) /\ \A q \in asked : WorkerAsks(q)
      /\ server \in WorkersPage!Lists /\ shown \in WorkersPage!Copies
      /\ server.workers \in [Workers -> WorkersPage!Forms \cup {Gone}]
      /\ DOMAIN shown = {"workers"} /\ apart \subseteq {"workers"}
  BY WorkersPlain DEF WorkersInv, WorkersTyped
<1>4. PICK s :
        /\ asked' = (asked \ {r}) \cup {s}
        /\ Asks(s) /\ Twin(s, r) /\ s.alone = r.alone
        /\ \/ /\ s.state = "done" /\ WorkersPage!Accepts(r) /\ server' = WorkersPage!Effect(r)
              /\ apart' = apart
              /\ s.saw = IF r.op \in Brings THEN server'[r.list] ELSE r.saw
           \/ /\ s.state = "refused" /\ s.saw = Gone
              /\ \/ server' = server /\ apart' = apart
                 \/ /\ WorkersPage!Accepts(r) /\ server' = WorkersPage!Effect(r)
                    /\ apart' = DOMAIN shown
  <2> DEFINE accepts == WorkersPage!Accepts(r)
             effect == WorkersPage!Effect(r)
  <2>1. \/ accepts /\ server' = effect /\ asked' = (asked \ {r}) \cup {Answer(r)} /\ apart' = apart
        \/ asked' = (asked \ {r}) \cup {Refusal(r)} /\ server' = server /\ apart' = apart
        \/ /\ accepts /\ server' = effect /\ asked' = (asked \ {r}) \cup {Refusal(r)}
           /\ apart' = DOMAIN shown
    BY <1>1
  <2> HIDE DEF accepts, effect
  <2> QED BY <1>3, <2>1, Answering DEF accepts, effect
<1>5. /\ s.op = r.op /\ s.list = r.list /\ s.on = r.on /\ s.to = r.to
      /\ s.op = "load" => s.list = "workers"
      /\ apart \subseteq apart' /\ apart' \subseteq {"workers"}
  BY <1>3, <1>4 DEF Twin, WorkerAsks
<1>6. /\ server' \in WorkersPage!Lists
      /\ \A w \in Workers : server'.workers[w] =
           IF server' = server \/ r.op \in {"load", "details"} \/ w # r.on THEN server.workers[w] ELSE r.to
  <2>1. CASE server' = server
    BY <1>3, <2>1
  <2>2. CASE server' = WorkersPage!Effect(r) /\ r.op \in {"load", "details"}
    BY <1>3, <2>2 DEF WorkersPage!Effect
  <2>3. CASE server' = WorkersPage!Effect(r) /\ r.op \notin {"load", "details"}
    <3>1. r.on \in Workers /\ r.to \in WorkersPage!Forms \cup {Gone}
      BY <1>3, <2>3 DEF WorkerAsks
    <3>2. server' = [server EXCEPT !.workers[r.on] = r.to]
      BY <2>3 DEF WorkersPage!Effect
    <3>3. server'.workers = [server.workers EXCEPT ![r.on] = r.to] /\ server' \in WorkersPage!Lists
      BY <1>3, <3>1, <3>2 DEF WorkersPage!Lists
    <3>4. server' = server => server.workers[r.on] = r.to
      BY <1>3, <3>1, <3>3
    <3> QED BY <1>3, <2>3, <3>1, <3>3, <3>4
  <2> QED BY <1>4, <2>1, <2>2, <2>3
<1>7. s.op = "load" /\ s.state = "done" => s.saw = server'.workers /\ server' = server
  <2>1. ASSUME s.op = "load", s.state = "done" PROVE s.saw = server'.workers /\ server' = server
    <3>1. s.saw = server'[r.list] /\ server' = WorkersPage!Effect(r) /\ r.list = "workers"
      BY <1>4, <1>5, <2>1 DEF Brings
    <3> QED BY <1>5, <2>1, <3>1 DEF WorkersPage!Effect
  <2> QED BY <2>1
<1>8. \A q \in asked' : WorkerAsks(q)
  <2>1. WorkerAsks(s)
    BY <1>3, <1>4, <1>5, <1>6, <1>7 DEF WorkerAsks, WorkersPage!Lists
  <2> QED BY <1>3, <1>4, <2>1
<1>9. WorkersSole'
  <2>1. \A q \in asked' : q.alone => asked' = {q}
    BY <1>4 DEF WorkersInv, WorkersSole
  <2>2. \A q \in asked' : q.op = "load" /\ q.state = "done" /\ q.alone => q.saw = server'.workers
    <3>1. ASSUME NEW q \in asked', q.alone PROVE q = s
      BY <1>4, <2>1, <3>1
    <3> QED BY <1>7, <3>1
  <2>3. /\ \A p, q \in asked : p.op = "create" /\ q.op = "create" => p = q
        /\ \A p, q \in asked : p.op = "create" /\ q.op \in {"update", "delete"} => p.on # q.on
        /\ "workers" \notin apart' =>
             \A p, q \in asked : p.op = q.op /\ p.on = q.on /\ p.op \in {"update", "delete"} => p = q
    BY <1>5 DEF WorkersInv, WorkersSole
  <2>4. \A p, q \in asked' : p.op = "create" /\ q.op = "create" => p = q
    BY <1>4, <1>5, <2>3
  <2>5. \A p, q \in asked' : p.op = "create" /\ q.op \in {"update", "delete"} => p.on # q.on
    BY <1>4, <1>5, <2>3
  <2>6. "workers" \notin apart' =>
          \A p, q \in asked' : p.op = q.op /\ p.on = q.on /\ p.op \in {"update", "delete"} => p = q
    BY <1>4, <1>5, <2>3
  <2> QED BY <2>1, <2>2, <2>4, <2>5, <2>6 DEF WorkersSole
<1>10. ASSUME "workers" \notin apart', NEW w \in Workers, NEW held,
              Follows(DoneTo("delete", w), DoneTo("update", w), DoneTo("create", w),
                      server.workers[w], held)
       PROVE  Follows(DoneTo("delete", w)', DoneTo("update", w)', DoneTo("create", w)',
                      server'.workers[w], held)
  <2>1. /\ s.state = "done" \/ server' = server
        /\ s.state = "done" => WorkersPage!Accepts(r) /\ server' = WorkersPage!Effect(r)
    BY <1>3, <1>4, <1>10
  <2>2. ASSUME NEW op \in {"create", "update", "delete"}, s.state # "done" \/ r.op # op \/ r.on # w
        PROVE  DoneTo(op, w)' = DoneTo(op, w)
    BY <1>1, <1>4, <1>5, <2>2 DEF DoneTo
  <2>3. CASE s.state # "done" \/ r.op \in {"load", "details"} \/ r.on # w
    <3>1. \A op \in {"create", "update", "delete"} : DoneTo(op, w)' = DoneTo(op, w)
      BY <2>2, <2>3
    <3>2. server'.workers[w] = server.workers[w]
      BY <1>6, <2>1, <2>3
    <3> QED BY <1>10, <3>1, <3>2
  <2>4. CASE s.state = "done" /\ r.op \notin {"load", "details"} /\ r.on = w
    <3>1. r.op \in {"create", "update", "delete"} /\ (r.op = "delete" => r.to = Gone)
      BY <1>3, <2>4 DEF WorkerAsks
    <3>2. server'.workers[w] = r.to
      <4>1. server' = server => server.workers[w] = r.to
        <5>1. server' = [server EXCEPT !.workers[r.on] = r.to]
          BY <2>1, <2>4 DEF WorkersPage!Effect
        <5> QED BY <1>3, <2>4, <5>1 DEF WorkersPage!Lists
      <4> QED BY <1>6, <2>4, <4>1
    <3>3. /\ r.op \in {"update", "delete"} => server.workers[w] # Gone
          /\ r.op = "create" => server.workers[w] = Gone
      <4>1. r.list = "workers" /\ WorkersPage!Accepts(r)
        BY <1>3, <2>1, <2>4, <3>1 DEF WorkerAsks
      <4> QED BY <2>4, <3>1, <4>1 DEF WorkersPage!Accepts, WorkersPage!Present
    <3>4. s.to \in DoneTo(r.op, w)'
      BY <1>4, <1>5, <2>4 DEF DoneTo
    <3>5. /\ \A q \in asked' : q.op = r.op /\ q.on = w => q = s
          /\ \A q \in asked : q.op = r.op /\ q.on = w => q = r
      BY <1>4, <1>5, <1>9, <1>10, <2>4, <3>1 DEF WorkersSole, WorkersInv
    <3>6. DoneTo(r.op, w)' = {r.to} /\ DoneTo(r.op, w) = {}
      BY <1>1, <1>5, <3>4, <3>5 DEF DoneTo
    <3>7. CASE r.op = "delete"
      BY <3>1, <3>2, <3>6, <3>7 DEF Follows
    <3>8. CASE r.op = "update"
      <4>1. \A q \in asked : q.op = "create" => q.on # w
        BY <2>4, <3>8 DEF WorkersInv, WorkersSole
      <4>2. DoneTo("create", w) = {} /\ DoneTo("delete", w)' = DoneTo("delete", w)
        BY <2>2, <3>8, <4>1 DEF DoneTo
      <4>3. DoneTo("delete", w) = {} /\ server.workers[w] = held /\ held # Gone
        BY <1>10, <3>3, <3>6, <3>8, <4>2 DEF Follows
      <4> QED BY <3>2, <3>6, <3>8, <4>2, <4>3 DEF Follows
    <3>9. CASE r.op = "create"
      <4>1. \A q \in asked : q.op \in {"update", "delete"} => q.on # w
        BY <2>4, <3>9 DEF WorkersInv, WorkersSole
      <4>2. DoneTo("update", w) = {} /\ DoneTo("delete", w) = {}
        BY <4>1 DEF DoneTo
      <4>3. DoneTo("update", w)' = {} /\ DoneTo("delete", w)' = {}
        BY <2>2, <3>9, <4>2
      <4>4. held = Gone
        BY <1>10, <3>3, <3>6, <3>9, <4>2 DEF Follows
      <4> QED BY <3>2, <3>6, <3>9, <4>3, <4>4 DEF Follows
    <3> QED BY <3>1, <3>7, <3>8, <3>9
  <2> QED BY <2>3, <2>4
<1>11. WorkersPatched'
  <2>1. ASSUME "workers" \notin apart', NEW w \in Workers
        PROVE  /\ \E held \in WorkersPage!Forms \cup {Gone} :
                    RowsShow(shown.workers[w], held) /\ Patched(w, held)'
               /\ \A q \in asked' : q.op = "load" /\ q.state = "done" => Patched(w, q.saw[w])'
    <3>1. PICK held \in WorkersPage!Forms \cup {Gone} : RowsShow(shown.workers[w], held) /\ Patched(w, held)
      BY <1>5, <2>1 DEF WorkersInv, WorkersPatched
    <3>2. Patched(w, held)'
      BY <1>10, <2>1, <3>1 DEF Patched
    <3>3. ASSUME NEW q \in asked', q.op = "load", q.state = "done" PROVE Patched(w, q.saw[w])'
      <4>1. CASE q \in asked
        <5>1. Patched(w, q.saw[w])
          BY <1>5, <2>1, <3>3, <4>1 DEF WorkersInv, WorkersPatched
        <5> QED BY <1>10, <2>1, <5>1 DEF Patched
      <4>2. CASE q = s
        <5>1. q.saw = server'.workers /\ server' = server /\ s.op = "load"
          BY <1>7, <3>3, <4>2
        <5>2. r.op = "load"
          BY <1>5, <5>1
        <5>3. \A op \in {"create", "update", "delete"} : DoneTo(op, w)' = DoneTo(op, w)
          BY <1>4, <5>1, <5>2 DEF DoneTo
        <5>4. Follows(DoneTo("delete", w), DoneTo("update", w), DoneTo("create", w),
                      server.workers[w], server.workers[w])
          BY <3>1 DEF Patched, Follows
        <5> QED BY <5>1, <5>3, <5>4 DEF Patched
      <4> QED BY <1>4, <4>1, <4>2
    <3> QED BY <3>1, <3>2, <3>3
  <2> QED BY <1>2, <2>1 DEF WorkersPatched, RowsShow, Values
<1>12. WorkersWait'
  BY <1>2, <1>4, <1>5 DEF WorkersInv, WorkersWait
<1>13. WorkersTyped'
  BY <1>2, <1>5, <1>6 DEF WorkersInv, WorkersTyped
<1>14. WorkersOnce'
  BY <1>2, <1>4, <1>5 DEF WorkersInv, WorkersOnce
<1> QED BY <1>8, <1>9, <1>11, <1>12, <1>13, <1>14 DEF WorkersInv

LEMMA WorkersStart == ASSUME WorkersPage!Init PROVE WorkersInv
<1> DEFINE q == Request("load", "workers", Gone, Gone, Gone)
<1>1. /\ asked = {q} /\ dialog = <<>> /\ apart = DOMAIN shown /\ sent = 0
      /\ view = [loading |-> TRUE, refreshing |-> TRUE, creating |-> FALSE, form |-> "plain",
                 details |-> Nobody, detailsLoading |-> FALSE, twice |-> FALSE]
      /\ shown = [workers |-> [w \in Workers |-> <<>>]]
  BY DEF WorkersPage!Init, WorkersPage!Mounted, WorkersPage!Request, WorkersPage!Closed, Request
<1>2. PICK fresh \in Workers : server = [workers |-> [w \in Workers |-> IF w = fresh THEN Gone ELSE "plain"]]
  BY DEF WorkersPage!Init
<1>3. Asks(q) /\ q.op = "load" /\ q.list = "workers" /\ q.state = "asked"
  BY RequestAsks DEF Request
<1> HIDE DEF q
<1>4. view \in WorkerViews /\ dialog \in Seq(WorkerDialogs)
  BY <1>1 DEF WorkerViews, WorkersPage!Forms
<1>5. server \in WorkersPage!Lists /\ shown \in WorkersPage!Copies
  BY <1>1, <1>2 DEF WorkersPage!Lists, WorkersPage!Copies, WorkersPage!Forms
<1>6. DOMAIN shown = {"workers"}
  BY <1>1
<1>7. WorkersTyped
  BY <1>1, <1>4, <1>5, <1>6, ClientAssumption DEF WorkersTyped, ClientAssumption
<1>8. WorkersSole /\ \A r \in asked : WorkerAsks(r)
  BY <1>1, <1>3 DEF WorkersSole, WorkerAsks
<1>9. WorkersPatched
  BY <1>1, <1>6 DEF WorkersPatched
<1>10. WorkersWait
  BY <1>1, <1>3 DEF WorkersWait
<1>11. WorkersOnce
  BY <1>1, <1>3 DEF WorkersOnce
<1> QED BY <1>7, <1>8, <1>9, <1>10, <1>11 DEF WorkersInv

LEMMA WorkersStep == ASSUME WorkersInv, [WorkersPage!Next]_pageVars PROVE WorkersInv'
<1>1. CASE UNCHANGED pageVars
  <2>1. UNCHANGED <<server, shown, asked, apart, sent, dialog, view>>
    BY <1>1 DEF pageVars
  <2>2. /\ view' \in WorkerViews /\ dialog' \in Seq(WorkerDialogs) /\ WorkersWait'
    BY <2>1, WorkersPlain DEF WorkersInv, WorkersWait
  <2> QED BY <2>1, <2>2, WorkersIdle
<1>2. CASE WorkersPage!Next
  BY <1>2, WorkersLook, WorkersAsks, WorkersLands, WorkersServed DEF WorkersPage!Next
<1> QED BY <1>1, <1>2

WorkersHold == page = "workers" => WorkersInv

LEMMA WorkersAlways == Spec => []WorkersHold
<1>1. Init => WorkersHold
  BY WorkersStart DEF Init, WorkersHold
<1>2. ASSUME WorkersHold, [Next]_vars PROVE WorkersHold'
  <2>1. page' = page /\ (page = "workers" => [WorkersPage!Next]_pageVars)
    BY <1>2 DEF Next, vars
  <2> QED BY <1>2, <2>1, WorkersStep DEF WorkersHold
<1> QED BY <1>1, <1>2, PTL DEF Spec

-----------------------------------------------------------------------------
(* Settings.tsx. *)

SettingKinds == SettingsPage!Settings
SettingCopies == [SettingKinds -> SettingsPage!Values]
ImageCopies == [SettingsPage!Owners -> {"some", "none"}]
SettingAsks(r) ==
  /\ Asks(r)
  /\ r.op \in {"setting", "save", "load", "delete"}
  /\ r.list = IF r.op \in {"setting", "save"} THEN "settings" ELSE "images"
  /\ r.op \in {"setting", "save"} => r.on \in SettingKinds
  /\ r.op = "save" => r.to \in SettingsPage!Values
  /\ r.op = "delete" => r.on \in SettingsPage!Owners /\ r.to = "none"
  /\ r.op = "setting" /\ r.state = "done" => r.saw \in SettingCopies
  /\ r.op = "load" /\ r.state = "done" => r.saw \in ImageCopies
SettingViews ==
  [chosen : [SettingKinds -> SettingsPage!Values \cup {Gone}], speaks : SettingsPage!Values,
   loading : BOOLEAN, saving : BOOLEAN, statsLoading : BOOLEAN, deleting : BOOLEAN]
SettingDialogs == [is : {"delete"}, on : SettingsPage!Owners]

\* Each setting is asked for once at a time, and not while one is saved, which
\* happens once at a time too; images that load alone load with no deletion.
SettingsSole ==
  /\ \A q, r \in asked : q.op = "setting" /\ r.op = "setting" /\ q.on = r.on => q = r
  /\ \A q, r \in asked : q.op = "save" /\ r.op = "save" => q = r
  /\ \A q, r \in asked : q.op = "save" => r.op # "setting"
  /\ \A r \in asked : r.op = "load" /\ r.alone =>
       \A q \in asked : q.op # "delete" /\ (q.op = "load" => q = r)
  /\ \A r \in asked : r.op = "load" /\ ~r.alone => "images" \in apart
SettingsFresh ==
  /\ \A r \in asked : r.op = "setting" /\ r.state = "done" => r.saw = server.settings
  /\ \A r \in asked : r.op = "load" /\ r.state = "done" /\ r.alone => r.saw = server.images
SettingsAgree ==
  /\ "settings" \notin apart =>
       /\ \A r \in asked : r.op = "save" /\ r.state = "done" =>
            server.settings = [shown.settings EXCEPT ![r.on] = r.to]
       /\ (\A r \in asked : r.op = "save" => r.state # "done") => shown.settings = server.settings
  /\ "images" \notin apart =>
       shown.images = server.images \/ \E r \in asked : r.op = "delete" /\ r.state = "done"
SettingsWait ==
  /\ view.loading <=> \E r \in asked : r.op = "setting"
  /\ view.saving <=> \E r \in asked : r.op = "save"
  /\ view.deleting => \E r \in asked : r.op = "delete"
  /\ view.statsLoading => \E r \in asked : r.op = "load"
SettingsTyped ==
  /\ server \in [settings : SettingCopies, images : ImageCopies]
  /\ shown \in [settings : [SettingKinds -> SettingsPage!Values \cup {Gone}],
                images : ImageCopies \cup {Gone}]
  /\ sent \in 0..Sends.settings /\ apart \subseteq {"settings", "images"}
  /\ view \in SettingViews /\ dialog \in Seq(SettingDialogs)
SettingsInv ==
  /\ SettingsTyped
  /\ \A r \in asked : SettingAsks(r)
  /\ SettingsSole /\ SettingsFresh /\ SettingsAgree /\ SettingsWait

LEMMA SettingsPlain ==
  ASSUME SettingsInv
  PROVE  /\ server \in [settings : SettingCopies, images : ImageCopies]
         /\ shown \in [settings : [SettingKinds -> SettingsPage!Values \cup {Gone}],
                       images : ImageCopies \cup {Gone}]
         /\ DOMAIN shown = {"settings", "images"}
         /\ sent \in 0..Sends.settings /\ Sends.settings \in Nat
         /\ apart \subseteq {"settings", "images"}
         /\ view \in SettingViews /\ dialog \in Seq(SettingDialogs)
         /\ \A r \in asked : SettingAsks(r) /\ Asks(r)
         /\ SettingsPage!Top = TopOf(dialog)
         /\ SettingsPage!Top.is = "delete" => SettingsPage!Top.on \in SettingsPage!Owners
<1>1. SettingsPage!Top = TopOf(dialog)
  BY DEF SettingsPage!Top, SettingsPage!Closed, TopOf
<1>2. Sends.settings \in Nat
  BY ClientAssumption DEF ClientAssumption
<1>3. dialog \in Seq(SettingDialogs)
  BY DEF SettingsInv, SettingsTyped
<1>4. TopOf(dialog).is = "delete" => TopOf(dialog) \in SettingDialogs
  <2>1. ASSUME TopOf(dialog).is = "delete" PROVE TopOf(dialog).is # "none"
    BY <2>1
  <2> QED BY <1>3, <2>1, TopTyped
<1> QED BY <1>1, <1>2, <1>4 DEF SettingsInv, SettingsTyped, SettingAsks, SettingDialogs

\* Nothing happens to the requests and the lists.
LEMMA SettingsIdle ==
  ASSUME SettingsInv, UNCHANGED <<server, shown, asked, apart, sent>>,
         view' \in SettingViews, dialog' \in Seq(SettingDialogs),
         view'.loading = view.loading, view'.saving = view.saving,
         view'.deleting = view.deleting, view'.statsLoading = view.statsLoading
  PROVE  SettingsInv'
<1>1. SettingsTyped'
  BY DEF SettingsInv, SettingsTyped
<1>2. SettingsSole' /\ SettingsFresh' /\ SettingsAgree'
  BY DEF SettingsInv, SettingsSole, SettingsFresh, SettingsAgree
<1>3. SettingsWait'
  BY DEF SettingsInv, SettingsWait
<1> QED BY <1>1, <1>2, <1>3 DEF SettingsInv

LEMMA SettingsLook ==
  ASSUME SettingsInv,
         \/ \E s \in SettingKinds : SettingsPage!Choose(s)
         \/ \E owner \in SettingsPage!Owners : SettingsPage!OpenDeleteDialog(owner)
         \/ SettingsPage!CloseDialog
  PROVE  SettingsInv'
<1>1. view \in SettingViews /\ dialog \in Seq(SettingDialogs)
  BY SettingsPlain
<1>2. ASSUME NEW s \in SettingKinds, SettingsPage!Choose(s) PROVE SettingsInv'
  <2>1. PICK value \in SettingsPage!Values : view' = [view EXCEPT !.chosen[s] = value]
    BY <1>2 DEF SettingsPage!Choose
  <2>2. view' = [view EXCEPT !.chosen = [view.chosen EXCEPT ![s] = value]]
    BY <2>1
  <2>3. [view.chosen EXCEPT ![s] = value] \in [SettingKinds -> SettingsPage!Values \cup {Gone}]
    BY <1>1, <2>1 DEF SettingViews
  <2>4. /\ view' \in SettingViews /\ view'.loading = view.loading /\ view'.saving = view.saving
        /\ view'.deleting = view.deleting /\ view'.statsLoading = view.statsLoading
    BY <1>1, <2>2, <2>3 DEF SettingViews
  <2> QED BY <1>1, <1>2, <2>4, SettingsIdle DEF SettingsPage!Choose
<1>3. ASSUME NEW owner \in SettingsPage!Owners, SettingsPage!OpenDeleteDialog(owner) PROVE SettingsInv'
  <2>1. /\ UNCHANGED <<server, shown, asked, view, apart, sent>>
        /\ dialog' = Append(dialog, [is |-> "delete", on |-> owner])
    BY <1>3 DEF SettingsPage!OpenDeleteDialog, SettingsPage!Over, SettingsPage!Dialog
  <2>2. [is |-> "delete", on |-> owner] \in SettingDialogs
    BY DEF SettingDialogs
  <2>3. dialog' \in Seq(SettingDialogs)
    BY <1>1, <2>1, <2>2, OverTop
  <2> QED BY <1>1, <2>1, <2>3, SettingsIdle
<1>4. CASE SettingsPage!CloseDialog
  <2>1. /\ UNCHANGED <<server, shown, asked, view, apart, sent>>
        /\ dialog' = SubSeq(dialog, 1, Len(dialog) - 1)
    BY <1>4 DEF SettingsPage!CloseDialog, SettingsPage!CloseTop
  <2>2. dialog' \in Seq(SettingDialogs)
    BY <1>1, <2>1, CloseShortens
  <2> QED BY <1>1, <2>1, <2>2, SettingsIdle
<1> QED BY <1>2, <1>3, <1>4

\* One more request, beside those that were under way, or those that delete nothing.
LEMMA SettingsJoin ==
  ASSUME SettingsInv, NEW others, others \subseteq asked,
         \A p \in asked : p \in others \/ p.op = "delete",
         NEW q, SettingAsks(q), q.state = "asked", q.op # "setting",
         asked' = Add(others, q), UNCHANGED <<server, shown>>,
         apart \subseteq apart', "images" \in apart' \/ asked = {},
         q.op = "save" => \A p \in asked : p.op \notin {"setting", "save"}
  PROVE  /\ SettingsSole' /\ SettingsFresh' /\ SettingsAgree'
         /\ \A r \in asked' : SettingAsks(r)
         /\ \A p \in others \cup {q} : \E r \in asked' : r.op = p.op
         /\ \A r \in asked' : \E p \in others \cup {q} : r.op = p.op
<1>1. Asks(q) /\ \A r \in asked : Asks(r) /\ SettingAsks(r)
  BY SettingsPlain DEF SettingAsks
<1>2. /\ \A r \in asked' : Asks(r) /\ \E p \in others \cup {q} : Same(r, p)
      /\ \A p \in others \cup {q} : \E r \in asked' : Same(r, p)
      /\ others = {} => \A r \in asked' : asked' = {r} /\ r.alone
      /\ others # {} => \A r \in asked' : ~r.alone
      /\ \A r, s \in asked' : Same(r, s) => r = s
  <2>1. \A r \in others : Asks(r)
    BY <1>1
  <2> QED BY <1>1, <2>1, JoinAsks
<1>3. \A r \in asked' : SettingAsks(r)
  BY <1>1, <1>2 DEF SettingAsks, Same
<1>4. SettingsSole'
  <2>1. ASSUME NEW r \in asked', NEW s \in asked',
               \/ r.op = "setting" /\ s.op = "setting" /\ r.on = s.on
               \/ r.op = "save" /\ s.op = "save"
        PROVE  r = s
    <3>1. PICK p \in others \cup {q}, o \in others \cup {q} : Same(r, p) /\ Same(s, o)
      BY <1>2
    <3>2. p = o
      BY <2>1, <3>1 DEF Same, SettingsInv, SettingsSole
    <3>3. Same(r, s)
      BY <3>1, <3>2 DEF Same
    <3> QED BY <1>2, <3>3
  <2>2. ASSUME NEW r \in asked', NEW s \in asked', r.op = "save" PROVE s.op # "setting"
    <3>1. PICK p \in others \cup {q}, o \in others \cup {q} : Same(r, p) /\ Same(s, o)
      BY <1>2
    <3> QED BY <2>2, <3>1 DEF Same, SettingsInv, SettingsSole
  <2>3. ASSUME NEW r \in asked', r.op = "load", r.alone
        PROVE  \A s \in asked' : s.op # "delete" /\ (s.op = "load" => s = r)
    <3>1. asked' = {r}
      BY <1>2, <2>3
    <3> QED BY <2>3, <3>1
  <2>4. ASSUME NEW r \in asked', r.op = "load", ~r.alone PROVE "images" \in apart'
    BY <1>2, <2>4
  <2>5. \A r, s \in asked' : r.op = "setting" /\ s.op = "setting" /\ r.on = s.on => r = s
    BY <2>1
  <2>6. \A r, s \in asked' : r.op = "save" /\ s.op = "save" => r = s
    BY <2>1
  <2>7. \A r, s \in asked' : r.op = "save" => s.op # "setting"
    BY <2>2
  <2> QED BY <2>3, <2>4, <2>5, <2>6, <2>7 DEF SettingsSole
<1>5. SettingsFresh'
  <2>1. ASSUME NEW r \in asked', r.op = "setting", r.state = "done" PROVE r.saw = server'.settings
    <3>1. PICK p \in others \cup {q} : Same(r, p)
      BY <1>2
    <3> QED BY <2>1, <3>1 DEF Same, SettingsInv, SettingsFresh
  <2>2. ASSUME NEW r \in asked', r.alone PROVE r.state = "asked"
    <3>1. others = {} /\ \E p \in others \cup {q} : Same(r, p)
      BY <1>2, <2>2
    <3> QED BY <3>1 DEF Same
  <2> QED BY <2>1, <2>2 DEF SettingsFresh
<1>6. SettingsAgree'
  <2>1. ASSUME "settings" \notin apart'
        PROVE  /\ \A r \in asked' : r.op = "save" /\ r.state = "done" =>
                    server'.settings = [shown'.settings EXCEPT ![r.on] = r.to]
               /\ (\A r \in asked' : r.op = "save" => r.state # "done") =>
                    shown'.settings = server'.settings
    <3>1. /\ \A p \in asked : p.op = "save" /\ p.state = "done" =>
               server.settings = [shown.settings EXCEPT ![p.on] = p.to]
          /\ (\A p \in asked : p.op = "save" => p.state # "done") => shown.settings = server.settings
      BY <2>1 DEF SettingsInv, SettingsAgree
    <3>2. ASSUME NEW r \in asked', r.op = "save", r.state = "done"
          PROVE  server'.settings = [shown'.settings EXCEPT ![r.on] = r.to]
      <4>1. PICK p \in others \cup {q} : Same(r, p)
        BY <1>2
      <4> QED BY <3>1, <3>2, <4>1 DEF Same
    <3>3. ASSUME \A r \in asked' : r.op = "save" => r.state # "done"
          PROVE  shown'.settings = server'.settings
      <4>1. ASSUME NEW p \in asked, p.op = "save" PROVE p.state # "done"
        <5>1. PICK r \in asked' : Same(r, p)
          BY <1>2, <4>1
        <5> QED BY <3>3, <4>1, <5>1 DEF Same
      <4> QED BY <3>1, <4>1
    <3> QED BY <3>2, <3>3
  <2>2. ASSUME "images" \notin apart' PROVE shown'.images = server'.images
    BY <2>2 DEF SettingsInv, SettingsAgree
  <2> QED BY <2>1, <2>2 DEF SettingsAgree
<1>7. \A p \in others \cup {q} : \E r \in asked' : r.op = p.op
  BY <1>2 DEF Same
<1>8. \A r \in asked' : \E p \in others \cup {q} : r.op = p.op
  BY <1>2 DEF Same
<1> QED BY <1>3, <1>4, <1>5, <1>6, <1>7, <1>8

LEMMA SettingsAsks ==
  ASSUME SettingsInv,
         \/ \E s \in SettingKinds : SettingsPage!HandleSave(s)
         \/ SettingsPage!LoadImageStats \/ SettingsPage!HandleDeleteConfirm
  PROVE  SettingsInv'
<1>1. /\ server \in [settings : SettingCopies, images : ImageCopies]
      /\ shown \in [settings : [SettingKinds -> SettingsPage!Values \cup {Gone}],
                    images : ImageCopies \cup {Gone}]
      /\ DOMAIN shown = {"settings", "images"}
      /\ sent \in 0..Sends.settings /\ Sends.settings \in Nat
      /\ apart \subseteq {"settings", "images"}
      /\ view \in SettingViews /\ dialog \in Seq(SettingDialogs)
      /\ SettingsPage!Top = TopOf(dialog)
      /\ SettingsPage!Top.is = "delete" => SettingsPage!Top.on \in SettingsPage!Owners
  BY SettingsPlain
<1>2. /\ view.loading <=> \E r \in asked : r.op = "setting"
      /\ view.saving <=> \E r \in asked : r.op = "save"
      /\ view.deleting => \E r \in asked : r.op = "delete"
      /\ view.statsLoading => \E r \in asked : r.op = "load"
  BY DEF SettingsInv, SettingsWait
<1>3. ASSUME NEW op, NEW list, NEW on, NEW to, SettingsPage!Ask(op, list, on, to),
             SettingAsks(Request(op, list, on, to, Gone)), op # "setting",
             op = "save" => ~view.loading /\ ~view.saving,
             UNCHANGED <<server, shown, dialog>>,
             view' \in SettingViews, view'.loading = view.loading,
             view'.saving => op = "save" \/ view.saving, op = "save" \/ view.saving => view'.saving,
             view'.deleting => op = "delete" \/ view.deleting,
             view'.statsLoading => op = "load" \/ view.statsLoading
      PROVE  SettingsInv'
  <2> DEFINE q == Request(op, list, on, to, Gone)
  <2>1. /\ asked' = Add(asked, q) /\ sent < Sends.settings /\ sent' = sent + 1
        /\ apart' = IF asked = {} THEN apart ELSE DOMAIN shown
    BY <1>3 DEF SettingsPage!Ask, SettingsPage!AskSeeing, SettingsPage!Add, SettingsPage!Request, Add, Request
  <2>2. q.op = op /\ q.state = "asked" /\ SettingAsks(q)
    BY <1>3 DEF Request
  <2> HIDE DEF q
  <2>3. /\ apart \subseteq apart' /\ apart' \subseteq {"settings", "images"}
        /\ "images" \in apart' \/ asked = {}
    BY <1>1, <2>1
  <2>4. q.op = "save" => \A p \in asked : p.op \notin {"setting", "save"}
    BY <1>2, <1>3, <2>2
  <2> DEFINE others == asked
  <2>5. /\ UNCHANGED <<server, shown>> /\ q.op # "setting" /\ others \subseteq asked
        /\ asked' = Add(others, q)
        /\ \A p \in asked : p \in others \/ p.op = "delete"
    BY <1>3, <2>1, <2>2
  <2>6. /\ SettingsSole' /\ SettingsFresh' /\ SettingsAgree'
        /\ \A r \in asked' : SettingAsks(r)
        /\ \A p \in others \cup {q} : \E r \in asked' : r.op = p.op
        /\ \A r \in asked' : \E p \in others \cup {q} : r.op = p.op
    <3> HIDE DEF others
    <3> QED BY <2>2, <2>3, <2>4, <2>5, SettingsJoin
  <2>8. SettingsWait'
    <3>1. view'.loading <=> \E r \in asked' : r.op = "setting"
      BY <1>2, <1>3, <2>2, <2>6
    <3>2. view'.saving <=> \E r \in asked' : r.op = "save"
      BY <1>2, <1>3, <2>2, <2>6
    <3>3. view'.deleting => \E r \in asked' : r.op = "delete"
      BY <1>2, <1>3, <2>2, <2>6
    <3>4. view'.statsLoading => \E r \in asked' : r.op = "load"
      BY <1>2, <1>3, <2>2, <2>6
    <3> QED BY <3>1, <3>2, <3>3, <3>4 DEF SettingsWait
  <2>9. SettingsTyped'
    BY <1>1, <1>3, <2>1, <2>3 DEF SettingsTyped
  <2> QED BY <2>6, <2>8, <2>9 DEF SettingsInv
<1>4. /\ \A s \in SettingKinds : \A to \in SettingsPage!Values :
           SettingAsks(Request("save", "settings", s, to, Gone))
      /\ SettingAsks(Request("load", "images", Gone, Gone, Gone))
      /\ \A owner \in SettingsPage!Owners : SettingAsks(Request("delete", "images", owner, "none", Gone))
  <2>1. ASSUME NEW s \in SettingKinds, NEW to \in SettingsPage!Values
        PROVE  SettingAsks(Request("save", "settings", s, to, Gone))
    <3> DEFINE q == Request("save", "settings", s, to, Gone)
    <3>1. Asks(q) /\ q.op = "save" /\ q.list = "settings" /\ q.on = s /\ q.to = to /\ q.state = "asked"
      BY RequestAsks DEF Request
    <3> HIDE DEF q
    <3>2. SettingAsks(q)
      BY <3>1 DEF SettingAsks
    <3> QED BY <3>2 DEF q
  <2>2. SettingAsks(Request("load", "images", Gone, Gone, Gone))
    <3> DEFINE q == Request("load", "images", Gone, Gone, Gone)
    <3>1. Asks(q) /\ q.op = "load" /\ q.list = "images" /\ q.state = "asked"
      BY RequestAsks DEF Request
    <3> HIDE DEF q
    <3>2. SettingAsks(q)
      BY <3>1 DEF SettingAsks
    <3> QED BY <3>2 DEF q
  <2>3. ASSUME NEW owner \in SettingsPage!Owners
        PROVE  SettingAsks(Request("delete", "images", owner, "none", Gone))
    <3> DEFINE q == Request("delete", "images", owner, "none", Gone)
    <3>1. Asks(q) /\ q.op = "delete" /\ q.list = "images" /\ q.on = owner /\ q.to = "none" /\ q.state = "asked"
      BY RequestAsks DEF Request
    <3> HIDE DEF q
    <3>2. SettingAsks(q)
      BY <3>1 DEF SettingAsks
    <3> QED BY <3>2 DEF q
  <2> QED BY <2>1, <2>2, <2>3
<1>5. ASSUME NEW s \in SettingKinds, SettingsPage!HandleSave(s) PROVE SettingsInv'
  <2>1. /\ ~view.loading /\ ~view.saving
        /\ view.chosen[s] \in SettingsPage!Values
        /\ SettingsPage!Ask("save", "settings", s, view.chosen[s])
        /\ view' = [view EXCEPT !.saving = TRUE] /\ UNCHANGED <<server, shown, dialog>>
    BY <1>1, <1>5 DEF SettingsPage!HandleSave, SettingsPage!Ready, SettingViews
  <2>2. SettingAsks(Request("save", "settings", s, view.chosen[s], Gone))
    BY <1>4, <2>1
  <2>3. /\ view' \in SettingViews /\ view'.loading = view.loading
        /\ view'.saving = TRUE /\ view'.deleting = view.deleting /\ view'.statsLoading = view.statsLoading
    BY <1>1, <2>1 DEF SettingViews
  <2> QED BY <1>3, <2>1, <2>2, <2>3
<1>6. CASE SettingsPage!LoadImageStats
  <2>1. /\ SettingsPage!Ask("load", "images", Gone, Gone)
        /\ view' = [view EXCEPT !.statsLoading = TRUE] /\ UNCHANGED <<server, shown, dialog>>
    BY <1>6 DEF SettingsPage!LoadImageStats, SettingsPage!Load
  <2>2. SettingAsks(Request("load", "images", Gone, Gone, Gone))
    BY <1>4
  <2>3. /\ view' \in SettingViews /\ view'.loading = view.loading
        /\ view'.saving = view.saving /\ view'.deleting = view.deleting /\ view'.statsLoading = TRUE
    BY <1>1, <2>1 DEF SettingViews
  <2> QED BY <1>3, <2>1, <2>2, <2>3
<1>7. CASE SettingsPage!HandleDeleteConfirm
  <2>1. /\ SettingsPage!Ask("delete", "images", SettingsPage!Top.on, "none")
        /\ SettingsPage!Top.on \in SettingsPage!Owners
        /\ view' = [view EXCEPT !.deleting = TRUE] /\ UNCHANGED <<server, shown, dialog>>
    BY <1>1, <1>7 DEF SettingsPage!HandleDeleteConfirm
  <2>2. SettingAsks(Request("delete", "images", SettingsPage!Top.on, "none", Gone))
    BY <1>4, <2>1
  <2>3. /\ view' \in SettingViews /\ view'.loading = view.loading
        /\ view'.saving = view.saving /\ view'.deleting = TRUE /\ view'.statsLoading = view.statsLoading
    BY <1>1, <2>1 DEF SettingViews
  <2> QED BY <1>3, <2>1, <2>2, <2>3
<1> QED BY <1>5, <1>6, <1>7

\* The settings are asked for again.
SettingLoads == {Request("setting", "settings", s, Gone, Gone) : s \in SettingKinds}

LEMMA SettingLoadsAsk ==
  /\ SettingsPage!SettingsLoads = SettingLoads
  /\ \A r \in SettingLoads : SettingAsks(r) /\ r.op = "setting" /\ r.state = "asked"
  /\ \A q, r \in SettingLoads : q.on = r.on => q = r
  /\ \E r \in SettingLoads : TRUE
<1>1. SettingsPage!SettingsLoads = SettingLoads
  BY DEF SettingsPage!SettingsLoads, SettingsPage!Request, SettingLoads, Request, SettingKinds
<1>2. ASSUME NEW s \in SettingKinds
      PROVE  LET q == Request("setting", "settings", s, Gone, Gone) IN
             SettingAsks(q) /\ q.op = "setting" /\ q.state = "asked" /\ q.on = s
  <2> DEFINE q == Request("setting", "settings", s, Gone, Gone)
  <2>1. Asks(q) /\ q.op = "setting" /\ q.list = "settings" /\ q.on = s /\ q.state = "asked"
    BY RequestAsks DEF Request
  <2> HIDE DEF q
  <2>2. SettingAsks(q)
    BY <2>1 DEF SettingAsks
  <2> QED BY <2>1, <2>2 DEF q
<1>3. \A r \in SettingLoads : SettingAsks(r) /\ r.op = "setting" /\ r.state = "asked"
  BY <1>2 DEF SettingLoads
<1>4. \A q, r \in SettingLoads : q.on = r.on => q = r
  BY <1>2 DEF SettingLoads
<1>5. "language" \in SettingKinds
  BY DEF SettingKinds, SettingsPage!Settings
<1> QED BY <1>1, <1>3, <1>4, <1>5 DEF SettingLoads

\* Requests go and are not missed, or the settings are asked for instead.
LEMMA SettingsFewer ==
  ASSUME SettingsInv, NEW kept, kept \subseteq asked, NEW more, more = {} \/ more = SettingLoads,
         asked' = kept \cup more,
         more # {} => \A r \in kept : r.op \notin {"setting", "save"},
         server' = server,
         "images" \in apart' \/ "images" \notin apart \/ \A r \in asked' : ~(r.op = "load" /\ ~r.alone)
  PROVE  SettingsSole' /\ SettingsFresh' /\ \A r \in asked' : SettingAsks(r)
<1>1. /\ \A r \in more : SettingAsks(r) /\ r.op = "setting" /\ r.state = "asked"
      /\ \A q, r \in more : q.on = r.on => q = r
  BY SettingLoadsAsk
<1>2. \A r \in asked' : SettingAsks(r)
  BY <1>1 DEF SettingsInv
<1>3. SettingsSole'
  <2>1. \A q, r \in asked' : q.op = "setting" /\ r.op = "setting" /\ q.on = r.on => q = r
    BY <1>1 DEF SettingsInv, SettingsSole
  <2>2. \A q, r \in asked' : q.op = "save" /\ r.op = "save" => q = r
    BY <1>1 DEF SettingsInv, SettingsSole
  <2>3. \A q, r \in asked' : q.op = "save" => r.op # "setting"
    BY <1>1 DEF SettingsInv, SettingsSole
  <2>4. \A r \in asked' : r.op = "load" /\ r.alone =>
          \A q \in asked' : q.op # "delete" /\ (q.op = "load" => q = r)
    BY <1>1 DEF SettingsInv, SettingsSole
  <2>5. \A r \in asked' : r.op = "load" /\ ~r.alone => "images" \in apart'
    BY <1>1 DEF SettingsInv, SettingsSole
  <2> QED BY <2>1, <2>2, <2>3, <2>4, <2>5 DEF SettingsSole
<1>4. SettingsFresh'
  BY <1>1 DEF SettingsInv, SettingsFresh
<1> QED BY <1>2, <1>3, <1>4

LEMMA SettingsTaken ==
  ASSUME SettingsInv, SettingsPage!SettingsLoaded
  PROVE  SettingsInv'
<1>1. /\ server \in [settings : SettingCopies, images : ImageCopies]
      /\ shown \in [settings : [SettingKinds -> SettingsPage!Values \cup {Gone}],
                    images : ImageCopies \cup {Gone}]
      /\ sent \in 0..Sends.settings
      /\ apart \subseteq {"settings", "images"}
      /\ view \in SettingViews /\ dialog \in Seq(SettingDialogs)
      /\ \A r \in asked : SettingAsks(r)
  BY SettingsPlain
<1>2. /\ view.saving <=> \E r \in asked : r.op = "save"
      /\ view.deleting => \E r \in asked : r.op = "delete"
      /\ view.statsLoading => \E r \in asked : r.op = "load"
  BY DEF SettingsInv, SettingsWait
<1>3. PICK loads \in SUBSET {r \in asked : r.op = "setting"} :
        /\ {r.on : r \in loads} = SettingKinds
        /\ \A r \in loads : r.state # "asked"
        /\ LET good == {r.on : r \in {q \in loads : q.state = "done"}}
               answer(s) == (CHOOSE r \in loads : r.on = s).saw[s]
               language == IF "language" \in good THEN answer("language") ELSE view.speaks
               again == language # view.speaks
           IN /\ shown' = [shown EXCEPT !.settings =
                             [s \in SettingKinds |-> IF s \in good THEN answer(s) ELSE @[s]]]
              /\ view' = [view EXCEPT !.loading = again, !.speaks = language,
                            !.chosen = [s \in SettingKinds |-> IF s \in good THEN answer(s) ELSE @[s]]]
              /\ asked' = (asked \ loads) \cup (IF again THEN SettingLoads ELSE {})
              /\ apart' = IF good = SettingKinds /\ asked = loads THEN apart \ {"settings"} ELSE apart
  <2>1. SettingsPage!SettingsLoads = SettingLoads
    BY SettingLoadsAsk
  <2> QED BY <2>1 DEF SettingsPage!SettingsLoaded, SettingKinds
<1> DEFINE good == {r.on : r \in {q \in loads : q.state = "done"}}
           answer(s) == (CHOOSE r \in loads : r.on = s).saw[s]
           language == IF "language" \in good THEN answer("language") ELSE view.speaks
           again == language # view.speaks
           settings == [s \in SettingKinds |-> IF s \in good THEN answer(s) ELSE shown.settings[s]]
           chosen == [s \in SettingKinds |-> IF s \in good THEN answer(s) ELSE view.chosen[s]]
           more == IF again THEN SettingLoads ELSE {}
<1>4. /\ shown' = [shown EXCEPT !.settings = settings]
      /\ view' = [view EXCEPT !.loading = again, !.speaks = language, !.chosen = chosen]
      /\ asked' = (asked \ loads) \cup more
      /\ apart' = IF good = SettingKinds /\ asked = loads THEN apart \ {"settings"} ELSE apart
  BY <1>3
<1>5. UNCHANGED <<server, dialog, sent>>
  BY DEF SettingsPage!SettingsLoaded
<1>6. \A s \in good : s \in SettingKinds /\ answer(s) = server.settings[s]
  <2>1. ASSUME NEW s \in good PROVE s \in SettingKinds /\ answer(s) = server.settings[s]
    <3>1. PICK r \in loads : r.on = s /\ r.state = "done"
      OBVIOUS
    <3>2. \A q \in loads : q.on = s => q = r
      BY <3>1 DEF SettingsInv, SettingsSole
    <3>3. (CHOOSE q \in loads : q.on = s) = r
      BY <3>1, <3>2
    <3>4. r.saw = server.settings /\ s \in SettingKinds
      BY <1>3, <3>1 DEF SettingsInv, SettingsFresh
    <3> QED BY <3>3, <3>4
  <2> QED BY <2>1
<1>7. "language" \in SettingKinds /\ "settings" # "images"
  BY DEF SettingKinds, SettingsPage!Settings
<1>8. /\ settings \in [SettingKinds -> SettingsPage!Values \cup {Gone}]
      /\ chosen \in [SettingKinds -> SettingsPage!Values \cup {Gone}]
      /\ language \in SettingsPage!Values
      /\ again \in BOOLEAN
  <2>1. \A s \in SettingKinds : server.settings[s] \in SettingsPage!Values
    BY <1>1 DEF SettingCopies
  <2>2. /\ \A s \in SettingKinds : shown.settings[s] \in SettingsPage!Values \cup {Gone}
        /\ \A s \in SettingKinds : view.chosen[s] \in SettingsPage!Values \cup {Gone}
        /\ view.speaks \in SettingsPage!Values
    BY <1>1 DEF SettingViews
  <2>3. \A s \in good : answer(s) \in SettingsPage!Values
    BY <1>6, <2>1
  <2> HIDE DEF good, answer
  <2> QED BY <1>7, <2>2, <2>3
<1>9. /\ \A r \in asked : r.op = "setting" => r \in loads
      /\ \A r \in loads : r \in asked /\ r.op = "setting"
      /\ \E r \in loads : TRUE
  <2>1. ASSUME NEW r \in asked, r.op = "setting" PROVE r \in loads
    <3>1. r.on \in SettingKinds
      BY <1>1, <2>1 DEF SettingAsks
    <3>2. PICK q \in loads : q.on = r.on
      BY <1>3, <3>1
    <3> QED BY <2>1, <3>2 DEF SettingsInv, SettingsSole
  <2>2. \E r \in loads : TRUE
    BY <1>3, <1>7
  <2> QED BY <2>1, <2>2
<1>10. /\ again => more = SettingLoads
       /\ ~again => more = {}
  OBVIOUS
<1>11. good = SettingKinds => settings = server.settings
  <2>1. ASSUME good = SettingKinds PROVE settings = server.settings
    <3>1. \A s \in SettingKinds : settings[s] = server.settings[s]
      BY <1>6, <2>1
    <3>2. settings \in [SettingKinds -> SettingsPage!Values \cup {Gone}]
      BY <1>8
    <3> HIDE DEF settings
    <3> QED BY <1>1, <3>1, <3>2 DEF SettingCopies
  <2> QED BY <2>1
<1>12. shown.settings = server.settings => settings = server.settings
  <2>1. ASSUME shown.settings = server.settings PROVE settings = server.settings
    <3>1. \A s \in SettingKinds : settings[s] = server.settings[s]
      BY <1>6, <2>1
    <3>2. settings \in [SettingKinds -> SettingsPage!Values \cup {Gone}]
      BY <1>8
    <3> HIDE DEF settings
    <3> QED BY <1>1, <3>1, <3>2 DEF SettingCopies
  <2> QED BY <2>1
<1> HIDE DEF good, answer, language, again, settings, chosen, more
<1> DEFINE kept == asked \ loads
<1>13. /\ SettingsSole' /\ SettingsFresh' /\ \A r \in asked' : SettingAsks(r)
  <2>1. /\ kept \subseteq asked /\ (more = {} \/ more = SettingLoads)
        /\ asked' = kept \cup more /\ server' = server
    BY <1>4, <1>5, <1>8, <1>10
  <2>2. \A r \in kept : r.op \notin {"setting", "save"}
    BY <1>9 DEF SettingsInv, SettingsSole
  <2>3. "images" \in apart' \/ "images" \notin apart
    BY <1>4
  <2> HIDE DEF kept
  <2> QED BY <2>1, <2>2, <2>3, SettingsFewer
<1>14. SettingsAgree'
  <2>1. \A r \in asked' : r.op # "save"
    BY <1>4, <1>8, <1>9, <1>10, SettingLoadsAsk DEF SettingsInv, SettingsSole
  <2>2. ASSUME "settings" \notin apart' PROVE shown'.settings = server'.settings
    <3>1. shown'.settings = settings /\ server' = server
      BY <1>1, <1>4, <1>5
    <3>2. CASE good = SettingKinds /\ asked = loads
      BY <1>11, <3>1, <3>2
    <3>3. CASE ~(good = SettingKinds /\ asked = loads)
      <4>1. "settings" \notin apart
        BY <1>4, <2>2, <3>3
      <4>2. \A r \in asked : r.op # "save"
        BY <1>9 DEF SettingsInv, SettingsSole
      <4>3. shown.settings = server.settings
        BY <4>1, <4>2 DEF SettingsInv, SettingsAgree
      <4> QED BY <1>12, <3>1, <4>3
    <3> QED BY <3>2, <3>3
  <2>3. ASSUME "images" \notin apart'
        PROVE  shown'.images = server'.images \/ \E r \in asked' : r.op = "delete" /\ r.state = "done"
    <3>1. "images" \notin apart /\ shown'.images = shown.images /\ server' = server
      BY <1>1, <1>4, <1>5, <2>3
    <3>2. shown.images = server.images \/ \E r \in asked : r.op = "delete" /\ r.state = "done"
      BY <3>1 DEF SettingsInv, SettingsAgree
    <3> QED BY <1>4, <1>9, <3>1, <3>2
  <2> QED BY <2>1, <2>2, <2>3 DEF SettingsAgree
<1>15. /\ view' \in SettingViews /\ view'.loading = again /\ view'.saving = view.saving
       /\ view'.deleting = view.deleting /\ view'.statsLoading = view.statsLoading
  BY <1>1, <1>4, <1>8 DEF SettingViews
<1>16. SettingsWait'
  <2>1. again <=> \E r \in asked' : r.op = "setting"
    <3>1. CASE again
      BY <1>4, <1>10, <3>1, SettingLoadsAsk
    <3>2. CASE ~again
      BY <1>4, <1>9, <1>10, <3>2
    <3> QED BY <3>1, <3>2
  <2>2. \A op \in {"save", "delete", "load"} :
          (\E r \in asked : r.op = op) <=> \E r \in asked' : r.op = op
    <3>1. \A r \in asked : r.op # "setting" => r \in asked'
      BY <1>4, <1>9
    <3>2. \A r \in asked' : r \in asked \/ r.op = "setting"
      BY <1>4, <1>8, <1>10, SettingLoadsAsk
    <3> QED BY <3>1, <3>2
  <2>3. view'.saving <=> \E r \in asked' : r.op = "save"
    BY <1>2, <1>15, <2>2
  <2>4. view'.deleting => \E r \in asked' : r.op = "delete"
    BY <1>2, <1>15, <2>2
  <2>5. view'.statsLoading => \E r \in asked' : r.op = "load"
    BY <1>2, <1>15, <2>2
  <2> QED BY <1>15, <2>1, <2>3, <2>4, <2>5 DEF SettingsWait
<1>17. SettingsTyped'
  BY <1>1, <1>4, <1>5, <1>8, <1>15 DEF SettingsTyped
<1> QED BY <1>13, <1>14, <1>16, <1>17 DEF SettingsInv

LEMMA SettingsLands ==
  ASSUME SettingsInv,
         \/ SettingsPage!SettingSaved \/ SettingsPage!SaveRefused \/ SettingsPage!StatsLoaded
         \/ SettingsPage!ImagesDeleted \/ SettingsPage!DeleteRefused
  PROVE  SettingsInv'
<1>1. /\ server \in [settings : SettingCopies, images : ImageCopies]
      /\ shown \in [settings : [SettingKinds -> SettingsPage!Values \cup {Gone}],
                    images : ImageCopies \cup {Gone}]
      /\ sent \in 0..Sends.settings
      /\ apart \subseteq {"settings", "images"}
      /\ view \in SettingViews /\ dialog \in Seq(SettingDialogs)
      /\ \A r \in asked : SettingAsks(r)
  BY SettingsPlain
<1>2. /\ view.loading <=> \E r \in asked : r.op = "setting"
      /\ view.saving <=> \E r \in asked : r.op = "save"
      /\ view.deleting => \E r \in asked : r.op = "delete"
      /\ view.statsLoading => \E r \in asked : r.op = "load"
  BY DEF SettingsInv, SettingsWait
<1>3. CASE SettingsPage!SettingSaved
  <2>1. PICK r \in asked :
          /\ r.op = "save" /\ r.state = "done"
          /\ LET again == r.on = "language" /\ r.to # view.speaks IN
             /\ shown' = [shown EXCEPT !.settings[r.on] = r.to]
             /\ view' = [view EXCEPT !.saving = FALSE, !.loading = again,
                                     !.speaks = IF r.on = "language" THEN r.to ELSE @]
             /\ asked' = (asked \ {r}) \cup (IF again THEN SettingLoads ELSE {})
             /\ apart' = IF again THEN apart \cup {"settings"} ELSE apart
    <3>1. SettingsPage!SettingsLoads = SettingLoads
      BY SettingLoadsAsk
    <3> QED BY <1>3, <3>1 DEF SettingsPage!SettingSaved, SettingsPage!Answers
  <2> DEFINE again == r.on = "language" /\ r.to # view.speaks
             more == IF again THEN SettingLoads ELSE {}
             speaks == IF r.on = "language" THEN r.to ELSE view.speaks
             kept == asked \ {r}
  <2>2. /\ shown' = [shown EXCEPT !.settings[r.on] = r.to]
        /\ view' = [view EXCEPT !.saving = FALSE, !.loading = again, !.speaks = speaks]
        /\ asked' = kept \cup more
        /\ apart' = IF again THEN apart \cup {"settings"} ELSE apart
        /\ UNCHANGED <<server, dialog, sent>>
    BY <1>3, <2>1 DEF SettingsPage!SettingSaved
  <2>3. again \in BOOLEAN /\ (again => more = SettingLoads) /\ (~again => more = {})
    OBVIOUS
  <2>4. r.on \in SettingKinds /\ r.to \in SettingsPage!Values
    BY <1>1, <2>1 DEF SettingAsks
  <2>5. speaks \in SettingsPage!Values
    BY <1>1, <2>4 DEF SettingViews
  <2>6. /\ kept \subseteq asked /\ r \notin kept
        /\ \A q \in asked : q \in kept \/ q = r
        /\ \A q \in kept : q.op \notin {"setting", "save"}
    BY <2>1 DEF SettingsInv, SettingsSole
  <2> HIDE DEF again, more, speaks, kept
  <2>7. SettingsSole' /\ SettingsFresh' /\ \A q \in asked' : SettingAsks(q)
    <3>1. "images" \in apart' \/ "images" \notin apart
      BY <2>2
    <3>2. (more = {} \/ more = SettingLoads) /\ server' = server /\ asked' = kept \cup more
      BY <2>2, <2>3
    <3> QED BY <2>6, <3>1, <3>2, SettingsFewer
  <2>8. /\ shown'.settings = [shown.settings EXCEPT ![r.on] = r.to] /\ shown'.images = shown.images
        /\ shown' \in [settings : [SettingKinds -> SettingsPage!Values \cup {Gone}],
                       images : ImageCopies \cup {Gone}]
    BY <1>1, <2>2, <2>4
  <2>9. SettingsAgree'
    <3>1. \A q \in asked' : q.op # "save"
      BY <2>2, <2>3, <2>6, SettingLoadsAsk
    <3>2. "settings" \notin apart' => shown'.settings = server'.settings
      BY <2>1, <2>2, <2>3, <2>8 DEF SettingsInv, SettingsAgree
    <3>3. "images" \notin apart' =>
            shown'.images = server'.images \/ \E q \in asked' : q.op = "delete" /\ q.state = "done"
      <4>1. "images" \notin apart' =>
              shown.images = server.images \/ \E q \in asked : q.op = "delete" /\ q.state = "done"
        BY <2>2, <2>3 DEF SettingsInv, SettingsAgree
      <4>2. \A q \in asked : q.op = "delete" => q \in asked'
        BY <2>1, <2>2, <2>6
      <4> QED BY <2>2, <2>8, <4>1, <4>2
    <3> QED BY <3>1, <3>2, <3>3 DEF SettingsAgree
  <2>10. /\ view' \in SettingViews /\ view'.loading = again /\ ~view'.saving
         /\ view'.deleting = view.deleting /\ view'.statsLoading = view.statsLoading
    BY <1>1, <2>2, <2>3, <2>5 DEF SettingViews
  <2>11. SettingsWait'
    <3>1. again <=> \E q \in asked' : q.op = "setting"
      BY <2>2, <2>3, <2>6, SettingLoadsAsk
    <3>2. \A q \in asked' : q.op # "save"
      BY <2>2, <2>3, <2>6, SettingLoadsAsk
    <3>3. \A q \in asked : q.op # "save" => q \in asked'
      BY <2>1, <2>2, <2>6
    <3> QED BY <1>2, <2>10, <3>1, <3>2, <3>3 DEF SettingsWait
  <2>12. SettingsTyped'
    BY <1>1, <2>2, <2>8, <2>10 DEF SettingsTyped
  <2> QED BY <2>7, <2>9, <2>11, <2>12 DEF SettingsInv
<1>4. ASSUME NEW r \in asked, r.op \in {"save", "delete"}, r.state = "refused",
             asked' = asked \ {r}, UNCHANGED <<server, shown, dialog, apart, sent>>,
             view' = IF r.op = "save" THEN [view EXCEPT !.saving = FALSE]
                     ELSE [view EXCEPT !.deleting = FALSE]
      PROVE  SettingsInv'
  <2>1. /\ SettingsSole' /\ SettingsFresh' /\ \A q \in asked' : SettingAsks(q)
    <3> DEFINE kept == asked \ {r}
               more == {}
    <3>1. /\ kept \subseteq asked /\ (more = {} \/ more = SettingLoads) /\ asked' = kept \cup more
          /\ server' = server /\ ("images" \in apart' \/ "images" \notin apart)
          /\ (more # {} => \A q \in kept : q.op \notin {"setting", "save"})
      BY <1>4
    <3> HIDE DEF kept, more
    <3> QED BY <3>1, SettingsFewer
  <2>2. SettingsAgree'
    <3>1. \A q \in asked : q.state = "done" => q \in asked'
      BY <1>4
    <3>2. ASSUME "settings" \notin apart, \A q \in asked' : q.op = "save" => q.state # "done"
          PROVE  shown.settings = server.settings
      BY <1>4, <3>1, <3>2 DEF SettingsInv, SettingsAgree
    <3>3. ASSUME "settings" \notin apart, NEW q \in asked', q.op = "save", q.state = "done"
          PROVE  server.settings = [shown.settings EXCEPT ![q.on] = q.to]
      BY <1>4, <3>3 DEF SettingsInv, SettingsAgree
    <3>4. "images" \notin apart =>
            shown.images = server.images \/ \E q \in asked' : q.op = "delete" /\ q.state = "done"
      BY <3>1 DEF SettingsInv, SettingsAgree
    <3> QED BY <1>4, <3>2, <3>3, <3>4 DEF SettingsAgree
  <2>3. /\ view' \in SettingViews /\ view'.loading = view.loading
        /\ view'.statsLoading = view.statsLoading
        /\ r.op = "save" => ~view'.saving /\ view'.deleting = view.deleting
        /\ r.op = "delete" => ~view'.deleting /\ view'.saving = view.saving
    BY <1>1, <1>4 DEF SettingViews
  <2>4. r.op = "save" => \A q \in asked' : q.op # "save"
    BY <1>4 DEF SettingsInv, SettingsSole
  <2>5. SettingsWait'
    BY <1>2, <1>4, <2>3, <2>4 DEF SettingsWait
  <2>6. SettingsTyped'
    BY <1>1, <1>4, <2>3 DEF SettingsTyped
  <2> QED BY <2>1, <2>2, <2>5, <2>6 DEF SettingsInv
<1>5. CASE SettingsPage!SaveRefused
  <2>1. PICK r \in asked :
          /\ r.op = "save" /\ r.state = "refused" /\ asked' = asked \ {r}
          /\ UNCHANGED <<server, shown, dialog, apart, sent>> /\ view' = [view EXCEPT !.saving = FALSE]
    BY <1>5 DEF SettingsPage!SaveRefused, SettingsPage!Answers, SettingsPage!Land
  <2> QED BY <1>4, <2>1
<1>6. CASE SettingsPage!DeleteRefused
  <2>1. PICK r \in asked :
          /\ r.op = "delete" /\ r.state = "refused" /\ asked' = asked \ {r}
          /\ UNCHANGED <<server, shown, dialog, apart, sent>> /\ view' = [view EXCEPT !.deleting = FALSE]
    BY <1>6 DEF SettingsPage!DeleteRefused, SettingsPage!Answers, SettingsPage!Land
  <2> QED BY <1>4, <2>1
<1>7. CASE SettingsPage!StatsLoaded
  <2>1. PICK r \in asked :
          /\ r.op = "load" /\ r.state \in {"done", "refused"} /\ r.list = "images"
          /\ shown' = IF r.state = "done" THEN [shown EXCEPT !["images"] = r.saw] ELSE shown
          /\ asked' = asked \ {r} /\ sent' = sent
          /\ apart' = IF r.op = "load" /\ r.state = "done" /\ r.alone THEN apart \ {r.list} ELSE apart
          /\ view' = [view EXCEPT !["statsLoading"] = FALSE] /\ UNCHANGED <<server, dialog>>
    BY <1>7 DEF SettingsPage!StatsLoaded, SettingsPage!Loaded, SettingsPage!Answers, SettingsPage!Land
  <2>2. /\ shown'.settings = shown.settings
        /\ shown'.images = IF r.state = "done" THEN r.saw ELSE shown.images
        /\ shown' \in [settings : [SettingKinds -> SettingsPage!Values \cup {Gone}],
                       images : ImageCopies \cup {Gone}]
    <3>1. r.state = "done" => r.saw \in ImageCopies
      BY <1>1, <2>1 DEF SettingAsks
    <3> QED BY <1>1, <2>1, <3>1
  <2>3. /\ SettingsSole' /\ SettingsFresh' /\ \A q \in asked' : SettingAsks(q)
    <3> DEFINE kept == asked \ {r}
               more == {}
    <3>1. /\ kept \subseteq asked /\ (more = {} \/ more = SettingLoads) /\ asked' = kept \cup more
          /\ server' = server
          /\ (more # {} => \A q \in kept : q.op \notin {"setting", "save"})
      BY <2>1
    <3>2. "images" \in apart' \/ "images" \notin apart \/ \A q \in asked' : ~(q.op = "load" /\ ~q.alone)
      <4>1. r.alone => \A q \in asked' : q.op # "load"
        BY <2>1 DEF SettingsInv, SettingsSole
      <4> QED BY <2>1, <4>1
    <3> HIDE DEF kept, more
    <3> QED BY <3>1, <3>2, SettingsFewer
  <2>4. SettingsAgree'
    <3>1. \A q \in asked : q.op \in {"save", "delete"} => q \in asked'
      BY <2>1
    <3>2. "settings" \notin apart' => "settings" \notin apart
      BY <2>1
    <3>3. ASSUME "settings" \notin apart', \A q \in asked' : q.op = "save" => q.state # "done"
          PROVE  shown'.settings = server'.settings
      BY <2>1, <2>2, <3>1, <3>2, <3>3 DEF SettingsInv, SettingsAgree
    <3>4. ASSUME "settings" \notin apart', NEW q \in asked', q.op = "save", q.state = "done"
          PROVE  server'.settings = [shown'.settings EXCEPT ![q.on] = q.to]
      BY <2>1, <2>2, <3>2, <3>4 DEF SettingsInv, SettingsAgree
    <3>5. ASSUME "images" \notin apart'
          PROVE  shown'.images = server'.images \/ \E q \in asked' : q.op = "delete" /\ q.state = "done"
      <4>1. CASE r.state = "done"
        <5>1. r.alone
          BY <2>1, <3>5, <4>1 DEF SettingsInv, SettingsSole
        <5>2. r.saw = server.images
          BY <2>1, <4>1, <5>1 DEF SettingsInv, SettingsFresh
        <5> QED BY <2>1, <2>2, <4>1, <5>2
      <4>2. CASE r.state # "done"
        <5>1. "images" \notin apart
          BY <2>1, <3>5, <4>2
        <5> QED BY <2>1, <2>2, <3>1, <4>2, <5>1 DEF SettingsInv, SettingsAgree
      <4> QED BY <4>1, <4>2
    <3> QED BY <3>3, <3>4, <3>5 DEF SettingsAgree
  <2>5. /\ view' \in SettingViews /\ view'.loading = view.loading /\ ~view'.statsLoading
        /\ view'.saving = view.saving /\ view'.deleting = view.deleting
    BY <1>1, <2>1 DEF SettingViews
  <2>6. SettingsWait'
    BY <1>2, <2>1, <2>5 DEF SettingsWait
  <2>7. SettingsTyped'
    BY <1>1, <2>1, <2>2, <2>5 DEF SettingsTyped
  <2> QED BY <2>3, <2>4, <2>6, <2>7 DEF SettingsInv
<1>8. CASE SettingsPage!ImagesDeleted
  <2> DEFINE q == Request("load", "images", Gone, Gone, Gone)
  <2>1. PICK r \in asked :
          /\ r.op = "delete" /\ r.state = "done" /\ asked' = Add(asked \ {r}, q)
          /\ apart' = apart \cup {"images"}
          /\ view' = [view EXCEPT !.deleting = FALSE, !.statsLoading = TRUE]
          /\ dialog' = <<>> /\ UNCHANGED <<server, shown, sent>>
    BY <1>8 DEF SettingsPage!ImagesDeleted, SettingsPage!Answers, SettingsPage!Add,
                SettingsPage!Request, SettingsPage!Closed, Add, Request
  <2>2. Asks(q) /\ q.op = "load" /\ q.list = "images" /\ q.state = "asked"
    BY RequestAsks DEF Request
  <2> HIDE DEF q
  <2> DEFINE others == asked \ {r}
  <2>3. /\ others \subseteq asked /\ \A p \in asked : p \in others \/ p.op = "delete"
        /\ asked' = Add(others, q) /\ UNCHANGED <<server, shown>>
        /\ apart \subseteq apart' /\ ("images" \in apart' \/ asked = {})
    BY <2>1
  <2>4. SettingAsks(q) /\ q.op # "setting"
    BY <2>2 DEF SettingAsks
  <2>5. q.op = "save" => \A p \in asked : p.op \notin {"setting", "save"}
    BY <2>2
  <2> HIDE DEF others
  <2>6. /\ SettingsSole' /\ SettingsFresh' /\ SettingsAgree'
        /\ \A s \in asked' : SettingAsks(s)
        /\ \A p \in others \cup {q} : \E s \in asked' : s.op = p.op
        /\ \A s \in asked' : \E p \in others \cup {q} : s.op = p.op
    BY <2>2, <2>3, <2>4, <2>5, SettingsJoin
  <2>7. /\ view' \in SettingViews /\ view'.loading = view.loading
        /\ view'.saving = view.saving /\ ~view'.deleting
    BY <1>1, <2>1 DEF SettingViews
  <2>8. SettingsWait'
    BY <1>2, <2>2, <2>3, <2>6, <2>7 DEF SettingsWait
  <2>9. dialog' \in Seq(SettingDialogs)
    BY <2>1
  <2>10. SettingsTyped'
    BY <1>1, <2>1, <2>7, <2>9 DEF SettingsTyped
  <2> QED BY <2>6, <2>8, <2>10 DEF SettingsInv
<1> QED BY <1>3, <1>5, <1>6, <1>7, <1>8

LEMMA SettingsServed ==
  ASSUME SettingsInv, SettingsPage!Serve(SettingsPage!Effect, SettingsPage!Accepts)
  PROVE  SettingsInv'
<1>1. PICK r \in asked :
        /\ r.state = "asked"
        /\ \/ /\ SettingsPage!Accepts(r)
              /\ server' = SettingsPage!Effect(r)
              /\ asked' = (asked \ {r}) \cup {Answer(r)}
              /\ apart' = apart
           \/ /\ asked' = (asked \ {r}) \cup {Refusal(r)}
              /\ server' = server /\ apart' = apart
           \/ /\ SettingsPage!Accepts(r)
              /\ server' = SettingsPage!Effect(r)
              /\ asked' = (asked \ {r}) \cup {Refusal(r)}
              /\ apart' = DOMAIN shown
  BY DEF SettingsPage!Serve, SettingsPage!Answer, SettingsPage!Refusal, SettingsPage!Brings, Answer, Refusal, Brings
<1>2. UNCHANGED <<shown, dialog, view, sent>>
  BY DEF SettingsPage!Serve
<1>3. /\ SettingAsks(r) /\ Asks(r) /\ \A q \in asked : SettingAsks(q)
      /\ server \in [settings : SettingCopies, images : ImageCopies]
      /\ DOMAIN shown = {"settings", "images"} /\ apart \subseteq {"settings", "images"}
  BY SettingsPlain
<1>4. PICK s :
        /\ asked' = (asked \ {r}) \cup {s}
        /\ Asks(s) /\ Twin(s, r) /\ s.alone = r.alone
        /\ \/ /\ s.state = "done" /\ SettingsPage!Accepts(r) /\ server' = SettingsPage!Effect(r)
              /\ apart' = apart
              /\ s.saw = IF r.op \in Brings THEN server'[r.list] ELSE r.saw
           \/ /\ s.state = "refused" /\ s.saw = Gone
              /\ \/ server' = server /\ apart' = apart
                 \/ /\ SettingsPage!Accepts(r) /\ server' = SettingsPage!Effect(r)
                    /\ apart' = DOMAIN shown
  <2> DEFINE accepts == SettingsPage!Accepts(r)
             effect == SettingsPage!Effect(r)
  <2>1. \/ accepts /\ server' = effect /\ asked' = (asked \ {r}) \cup {Answer(r)} /\ apart' = apart
        \/ asked' = (asked \ {r}) \cup {Refusal(r)} /\ server' = server /\ apart' = apart
        \/ /\ accepts /\ server' = effect /\ asked' = (asked \ {r}) \cup {Refusal(r)}
           /\ apart' = DOMAIN shown
    BY <1>1
  <2> HIDE DEF accepts, effect
  <2> QED BY <1>3, <2>1, Answering DEF accepts, effect
<1>5. /\ s.op = r.op /\ s.list = r.list /\ s.on = r.on /\ s.to = r.to /\ s.alone = r.alone
      /\ apart \subseteq apart' /\ apart' \subseteq {"settings", "images"}
      /\ apart' = apart \/ apart' = {"settings", "images"}
  BY <1>3, <1>4 DEF Twin
<1>6. /\ server' \in [settings : SettingCopies, images : ImageCopies]
      /\ r.op # "save" => server'.settings = server.settings
      /\ r.op # "delete" => server'.images = server.images
      /\ r.op = "save" /\ s.state = "done" =>
           server'.settings = [server.settings EXCEPT ![r.on] = r.to]
      /\ s.state # "done" /\ apart' = apart => server' = server \/ apart = {"settings", "images"}
  <2>1. CASE server' = server /\ s.state # "done"
    BY <1>3, <2>1
  <2>2. CASE server' = SettingsPage!Effect(r) /\ r.op \notin {"save", "delete"}
    BY <1>3, <2>2 DEF SettingsPage!Effect
  <2>3. CASE server' = SettingsPage!Effect(r) /\ r.op = "save"
    <3>1. server' = [server EXCEPT !["settings"][r.on] = r.to]
      BY <1>3, <2>3 DEF SettingsPage!Effect, SettingAsks
    <3>2. r.on \in SettingKinds /\ r.to \in SettingsPage!Values
      BY <1>3, <2>3 DEF SettingAsks
    <3>3. [server.settings EXCEPT ![r.on] = r.to] \in SettingCopies
      BY <1>3, <3>2 DEF SettingCopies
    <3>4. /\ server'.settings = [server.settings EXCEPT ![r.on] = r.to]
          /\ server'.images = server.images
          /\ server' \in [settings : SettingCopies, images : ImageCopies]
      BY <1>3, <3>1, <3>3
    <3> QED BY <1>3, <1>4, <2>3, <3>4
  <2>4. CASE server' = SettingsPage!Effect(r) /\ r.op = "delete"
    <3>1. server' = [server EXCEPT !["images"][r.on] = r.to]
      BY <1>3, <2>4 DEF SettingsPage!Effect, SettingAsks
    <3>2. r.on \in SettingsPage!Owners /\ r.to = "none"
      BY <1>3, <2>4 DEF SettingAsks
    <3>3. [server.images EXCEPT ![r.on] = r.to] \in ImageCopies
      BY <1>3, <3>2 DEF ImageCopies
    <3>4. /\ server'.settings = server.settings
          /\ server' \in [settings : SettingCopies, images : ImageCopies]
      BY <1>3, <3>1, <3>3
    <3> QED BY <1>3, <1>4, <2>4, <3>4
  <2>5. r.op \in {"setting", "save", "load", "delete"}
    BY <1>3 DEF SettingAsks
  <2> QED BY <1>4, <2>1, <2>2, <2>3, <2>4, <2>5
<1>7. /\ s.op = "setting" /\ s.state = "done" => s.saw = server'.settings
      /\ s.op = "load" /\ s.state = "done" => s.saw = server'.images
  <2>1. r.op = "setting" => r.list = "settings"
    BY <1>3 DEF SettingAsks
  <2>2. r.op = "load" => r.list = "images"
    BY <1>3 DEF SettingAsks
  <2>3. s.state = "done" /\ r.op \in {"setting", "load"} => s.saw = server'[r.list]
    BY <1>4 DEF Brings
  <2> QED BY <1>5, <2>1, <2>2, <2>3
<1>8. \A q \in asked' : SettingAsks(q)
  <2>1. SettingAsks(s)
    BY <1>3, <1>4, <1>5, <1>6, <1>7 DEF SettingAsks
  <2> QED BY <1>3, <1>4, <2>1
<1>9. SettingsSole'
  <2>1. \A p, q \in asked' : p.op = "setting" /\ q.op = "setting" /\ p.on = q.on => p = q
    BY <1>4, <1>5 DEF SettingsInv, SettingsSole
  <2>2. \A p, q \in asked' : p.op = "save" /\ q.op = "save" => p = q
    BY <1>4, <1>5 DEF SettingsInv, SettingsSole
  <2>3. \A p, q \in asked' : p.op = "save" => q.op # "setting"
    BY <1>4, <1>5 DEF SettingsInv, SettingsSole
  <2>4. \A p \in asked' : p.op = "load" /\ p.alone =>
          \A q \in asked' : q.op # "delete" /\ (q.op = "load" => q = p)
    BY <1>4, <1>5 DEF SettingsInv, SettingsSole
  <2>5. \A p \in asked' : p.op = "load" /\ ~p.alone => "images" \in apart'
    BY <1>4, <1>5 DEF SettingsInv, SettingsSole
  <2> QED BY <2>1, <2>2, <2>3, <2>4, <2>5 DEF SettingsSole
<1>10. SettingsFresh'
  <2>1. ASSUME NEW q \in asked', q.op = "setting", q.state = "done" PROVE q.saw = server'.settings
    <3>1. r.op # "save"
      BY <1>4, <1>5, <2>1 DEF SettingsInv, SettingsSole
    <3> QED BY <1>4, <1>6, <1>7, <2>1, <3>1 DEF SettingsInv, SettingsFresh
  <2>2. ASSUME NEW q \in asked', q.op = "load", q.state = "done", q.alone PROVE q.saw = server'.images
    <3>1. r.op # "delete"
      BY <1>4, <1>5, <2>2 DEF SettingsInv, SettingsSole
    <3> QED BY <1>4, <1>6, <1>7, <2>2, <3>1 DEF SettingsInv, SettingsFresh
  <2> QED BY <2>1, <2>2 DEF SettingsFresh
<1>11. SettingsAgree'
  <2>1. ASSUME "settings" \notin apart'
        PROVE  /\ \A q \in asked' : q.op = "save" /\ q.state = "done" =>
                    server'.settings = [shown'.settings EXCEPT ![q.on] = q.to]
               /\ (\A q \in asked' : q.op = "save" => q.state # "done") =>
                    shown'.settings = server'.settings
    <3>1. "settings" \notin apart /\ apart' = apart /\ (s.state = "done" \/ server' = server)
      BY <1>5, <1>6, <2>1
    <3>2. /\ \A q \in asked : q.op = "save" /\ q.state = "done" =>
               server.settings = [shown.settings EXCEPT ![q.on] = q.to]
          /\ (\A q \in asked : q.op = "save" => q.state # "done") => shown.settings = server.settings
      BY <3>1 DEF SettingsInv, SettingsAgree
    <3>3. CASE r.op = "save"
      <4>1. /\ \A q \in asked : q.op = "save" => q = r
            /\ \A q \in asked' : q.op = "save" => q = s
        BY <1>4, <1>5, <3>3 DEF SettingsInv, SettingsSole
      <4>2. shown.settings = server.settings
        BY <1>1, <3>2, <4>1
      <4>3. s \in asked' /\ s.op = "save"
        BY <1>4, <1>5, <3>3
      <4> QED BY <1>2, <1>5, <1>6, <3>1, <3>3, <4>1, <4>2, <4>3
    <3>4. CASE r.op # "save"
      <4>1. \A q : q.op = "save" => (q \in asked <=> q \in asked')
        BY <1>4, <1>5, <3>4
      <4> QED BY <1>2, <1>6, <3>2, <3>4, <4>1
    <3> QED BY <3>3, <3>4
  <2>2. ASSUME "images" \notin apart'
        PROVE  shown'.images = server'.images \/ \E q \in asked' : q.op = "delete" /\ q.state = "done"
    <3>1. "images" \notin apart /\ (s.state = "done" \/ server' = server)
      BY <1>5, <1>6, <2>2
    <3>2. shown.images = server.images \/ \E q \in asked : q.op = "delete" /\ q.state = "done"
      BY <3>1 DEF SettingsInv, SettingsAgree
    <3>3. \A q \in asked : q.state = "done" => q \in asked'
      BY <1>1, <1>4
    <3>4. r.op = "delete" /\ s.state = "done" => \E q \in asked' : q.op = "delete" /\ q.state = "done"
      BY <1>4, <1>5
    <3> QED BY <1>2, <1>6, <3>1, <3>2, <3>3, <3>4
  <2> QED BY <2>1, <2>2 DEF SettingsAgree
<1>12. SettingsWait'
  <2>1. \A op : (\E q \in asked : q.op = op) <=> \E q \in asked' : q.op = op
    BY <1>4, <1>5
  <2> QED BY <1>2, <2>1 DEF SettingsInv, SettingsWait
<1>13. SettingsTyped'
  BY <1>2, <1>5, <1>6 DEF SettingsInv, SettingsTyped
<1> QED BY <1>8, <1>9, <1>10, <1>11, <1>12, <1>13 DEF SettingsInv

LEMMA SettingsStart == ASSUME SettingsPage!Init PROVE SettingsInv
<1> DEFINE q == Request("load", "images", Gone, Gone, Gone)
<1>1. /\ asked = SettingLoads \cup {q} /\ dialog = <<>> /\ apart = DOMAIN shown /\ sent = 0
      /\ shown = [settings |-> [language |-> "plain", timezone |-> Gone], images |-> Gone]
      /\ view = [chosen |-> shown.settings, speaks |-> "plain", loading |-> TRUE, saving |-> FALSE,
                 statsLoading |-> TRUE, deleting |-> FALSE]
  BY SettingLoadsAsk DEF SettingsPage!Init, SettingsPage!Request, SettingsPage!Closed, Request
<1>2. PICK settings \in SettingCopies :
        server = [settings |-> settings, images |-> [o \in SettingsPage!Owners |-> "some"]]
  BY DEF SettingsPage!Init, SettingCopies, SettingKinds
<1>3. Asks(q) /\ q.op = "load" /\ q.list = "images" /\ q.state = "asked" /\ q.alone
  BY RequestAsks DEF Request
<1> HIDE DEF q
<1>4. /\ [language |-> "plain", timezone |-> Gone] \in [SettingKinds -> SettingsPage!Values \cup {Gone}]
      /\ "plain" \in SettingsPage!Values
  BY DEF SettingKinds, SettingsPage!Settings, SettingsPage!Values
<1>5. /\ shown \in [settings : [SettingKinds -> SettingsPage!Values \cup {Gone}],
                    images : ImageCopies \cup {Gone}]
      /\ server \in [settings : SettingCopies, images : ImageCopies]
      /\ view \in SettingViews /\ dialog \in Seq(SettingDialogs)
      /\ apart = {"settings", "images"}
  <2>1. [o \in SettingsPage!Owners |-> "some"] \in ImageCopies
    BY DEF ImageCopies
  <2> DEFINE held == [language |-> "plain", timezone |-> Gone]
  <2>2. held \in [SettingKinds -> SettingsPage!Values \cup {Gone}]
    BY <1>4
  <2>3. shown = [settings |-> held, images |-> Gone]
    BY <1>1
  <2> HIDE DEF held
  <2>4. shown.settings = held /\ apart = {"settings", "images"}
    BY <1>1, <2>3
  <2> QED BY <1>1, <1>2, <1>4, <2>1, <2>2, <2>3, <2>4 DEF SettingViews
<1>6. SettingsTyped
  BY <1>1, <1>5, ClientAssumption DEF SettingsTyped, ClientAssumption
<1>7. /\ \A r \in SettingLoads : SettingAsks(r) /\ r.op = "setting" /\ r.state = "asked"
      /\ \A p, r \in SettingLoads : p.on = r.on => p = r
      /\ \E r \in SettingLoads : TRUE
      /\ SettingAsks(q)
  BY <1>3, SettingLoadsAsk DEF SettingAsks
<1>8. SettingsSole /\ \A r \in asked : SettingAsks(r)
  BY <1>1, <1>3, <1>7 DEF SettingsSole
<1>9. SettingsFresh /\ SettingsAgree
  BY <1>1, <1>3, <1>5, <1>7 DEF SettingsFresh, SettingsAgree
<1>10. SettingsWait
  BY <1>1, <1>3, <1>7 DEF SettingsWait
<1> QED BY <1>6, <1>8, <1>9, <1>10 DEF SettingsInv

LEMMA SettingsStep == ASSUME SettingsInv, [SettingsPage!Next]_pageVars PROVE SettingsInv'
<1>1. CASE UNCHANGED pageVars
  <2>1. UNCHANGED <<server, shown, asked, apart, sent, dialog, view>>
    BY <1>1 DEF pageVars
  <2>2. view' \in SettingViews /\ dialog' \in Seq(SettingDialogs)
    BY <2>1, SettingsPlain
  <2> QED BY <2>1, <2>2, SettingsIdle
<1>2. CASE SettingsPage!Next
  BY <1>2, SettingsLook, SettingsAsks, SettingsTaken, SettingsLands, SettingsServed
     DEF SettingsPage!Next, SettingKinds
<1> QED BY <1>1, <1>2

SettingsHold == page = "settings" => SettingsInv

LEMMA SettingsAlways == Spec => []SettingsHold
<1>1. Init => SettingsHold
  BY SettingsStart DEF Init, SettingsHold
<1>2. ASSUME SettingsHold, [Next]_vars PROVE SettingsHold'
  <2>1. page' = page /\ (page = "settings" => [SettingsPage!Next]_pageVars)
    BY <1>2 DEF Next, vars
  <2> QED BY <1>2, <2>1, SettingsStep DEF SettingsHold
<1> QED BY <1>1, <1>2, PTL DEF Spec

-----------------------------------------------------------------------------
(* Profile.tsx. *)

Palettes == [Swatches -> Profile!Values]
ProfileAsks(r) ==
  /\ Asks(r)
  /\ r.op \in {"load", "preference", "password", "logout"}
  /\ r.op = "load" => r.list \in {"palettes", "sessions"}
  /\ r.op = "preference" => r.list = "palettes" /\ r.on \in Swatches /\ r.to \in Profile!Values
  /\ r.op \in {"load", "preference"} /\ r.state = "done" =>
       r.saw \in IF r.list = "palettes" THEN Palettes ELSE {"some", "none"}
ProfileViews ==
  [isLoading : BOOLEAN, saving : BOOLEAN, timers : [Swatches -> Profile!Values \cup {Gone}],
   password : Profile!Forms, changing : BOOLEAN, told : {"nothing", "error", "success"}, leaving : BOOLEAN]

\* Requests are alone all of them, the first two that the page sends, or none;
\* another one that is alone is the only one.
ProfileSole ==
  /\ \A r \in asked : ~r.alone => "palettes" \in apart
  /\ \A q, r \in asked : q.alone => r.alone
  /\ \A r \in asked : r.alone /\ r.op # "load" => asked = {r}
ProfileAgree ==
  /\ \A r \in asked : r.alone /\ r.op \in {"load", "preference"} /\ r.list = "palettes" /\ r.state = "done" =>
       r.saw = server.palettes
  /\ "palettes" \notin apart =>
       shown.palettes = server.palettes \/ \E r \in asked : r.op = "preference" /\ r.state = "done"
ProfileWait ==
  /\ view.isLoading => \E r \in asked : r.op = "load" /\ r.list = "sessions"
  /\ view.saving => \E r \in asked : r.op = "preference"
  /\ view.changing => \E r \in asked : r.op = "password"
ProfileTyped ==
  /\ server \in [palettes : Palettes, sessions : {"some", "none"}]
  /\ shown \in [palettes : Palettes, sessions : {"some", "none", Gone}]
  /\ sent \in 0..Sends.profile /\ apart \subseteq {"palettes", "sessions"}
  /\ view \in ProfileViews /\ dialog = <<>>
ProfileInv ==
  /\ ProfileTyped
  /\ \A r \in asked : ProfileAsks(r)
  /\ ProfileSole /\ ProfileAgree /\ ProfileWait

LEMMA ProfilePlain ==
  ASSUME ProfileInv
  PROVE  /\ server \in [palettes : Palettes, sessions : {"some", "none"}]
         /\ shown \in [palettes : Palettes, sessions : {"some", "none", Gone}]
         /\ DOMAIN shown = {"palettes", "sessions"}
         /\ sent \in 0..Sends.profile /\ Sends.profile \in Nat
         /\ apart \subseteq {"palettes", "sessions"}
         /\ view \in ProfileViews /\ dialog = <<>>
         /\ \A r \in asked : ProfileAsks(r) /\ Asks(r)
         /\ view.isLoading => \E r \in asked : r.op = "load" /\ r.list = "sessions"
         /\ view.saving => \E r \in asked : r.op = "preference"
         /\ view.changing => \E r \in asked : r.op = "password"
<1>1. Sends.profile \in Nat
  BY ClientAssumption DEF ClientAssumption
<1> QED BY <1>1 DEF ProfileInv, ProfileTyped, ProfileAsks, ProfileWait

\* The user types, and picks colours.
LEMMA ProfileLook ==
  ASSUME ProfileInv,
         UNCHANGED <<server, asked, sent, dialog>>,
         \/ shown' = shown /\ apart' = apart
         \/ /\ shown' \in [palettes : Palettes, sessions : {"some", "none", Gone}]
            /\ apart' = apart \cup {"palettes"},
         view' \in ProfileViews,
         view'.isLoading = view.isLoading, view'.saving = view.saving, view'.changing = view.changing
  PROVE  ProfileInv'
<1>1. ProfileTyped'
  BY DEF ProfileInv, ProfileTyped
<1>2. ProfileSole' /\ ProfileAgree'
  BY DEF ProfileInv, ProfileSole, ProfileAgree
<1>3. ProfileWait'
  BY DEF ProfileInv, ProfileWait
<1> QED BY <1>1, <1>2, <1>3 DEF ProfileInv

\* One more request.
LEMMA ProfileJoin ==
  ASSUME ProfileInv, NEW op, NEW list, NEW on, NEW to,
         Profile!Ask(op, list, on, to), UNCHANGED <<server, shown>>,
         op \in {"preference", "password", "logout"},
         op = "preference" => list = "palettes" /\ on \in Swatches /\ to \in Profile!Values
  PROVE  /\ ProfileSole' /\ ProfileAgree' /\ \A r \in asked' : ProfileAsks(r)
         /\ sent' \in 0..Sends.profile /\ apart' \subseteq {"palettes", "sessions"}
         /\ \A p \in asked : \E r \in asked' : r.op = p.op /\ r.list = p.list
         /\ \E r \in asked' : r.op = op
<1> DEFINE q == Request(op, list, on, to, Gone)
<1>1. /\ asked' = Add(asked, q) /\ sent < Sends.profile /\ sent' = sent + 1
      /\ apart' = IF asked = {} THEN apart ELSE DOMAIN shown
  BY DEF Profile!Ask, Profile!AskSeeing, Profile!Add, Profile!Request, Add, Request
<1>2. /\ Asks(q) /\ q.op = op /\ q.list = list /\ q.on = on /\ q.to = to /\ q.state = "asked"
  BY RequestAsks DEF Request
<1> HIDE DEF q
<1>3. ProfileAsks(q)
  BY <1>2 DEF ProfileAsks
<1>4. /\ \A r \in asked : ProfileAsks(r) /\ Asks(r)
      /\ DOMAIN shown = {"palettes", "sessions"} /\ apart \subseteq {"palettes", "sessions"}
      /\ sent \in 0..Sends.profile /\ Sends.profile \in Nat
  BY ProfilePlain
<1>5. /\ \A r \in asked' : Asks(r) /\ \E p \in asked \cup {q} : Same(r, p)
      /\ \A p \in asked \cup {q} : \E r \in asked' : Same(r, p)
      /\ asked = {} => \A r \in asked' : asked' = {r} /\ r.alone
      /\ asked # {} => \A r \in asked' : ~r.alone
  <2> DEFINE others == asked
  <2>1. asked' = Add(others, q) /\ \A r \in others : Asks(r)
    BY <1>1, <1>4
  <2>2. /\ \A r \in asked' : Asks(r) /\ \E p \in others \cup {q} : Same(r, p)
        /\ \A p \in others \cup {q} : \E r \in asked' : Same(r, p)
        /\ others = {} => \A r \in asked' : asked' = {r} /\ r.alone
        /\ others # {} => \A r \in asked' : ~r.alone
    <3> HIDE DEF others
    <3> QED BY <1>2, <2>1, JoinAsks
  <2> QED BY <2>2
<1>6. \A r \in asked' : ProfileAsks(r)
  BY <1>3, <1>4, <1>5 DEF ProfileAsks, Same
<1>7. ProfileSole'
  BY <1>1, <1>4, <1>5 DEF ProfileSole
<1>8. ProfileAgree'
  <2>1. ASSUME NEW r \in asked', r.alone PROVE r.state = "asked"
    BY <1>2, <1>5, <2>1 DEF Same
  <2>2. ASSUME "palettes" \notin apart' PROVE shown'.palettes = server'.palettes
    <3>1. asked = {} /\ "palettes" \notin apart
      BY <1>1, <1>4, <2>2
    <3> QED BY <3>1 DEF ProfileInv, ProfileAgree
  <2> QED BY <2>1, <2>2 DEF ProfileAgree
<1>9. /\ \A p \in asked : \E r \in asked' : r.op = p.op /\ r.list = p.list
      /\ \E r \in asked' : r.op = op
  BY <1>2, <1>5 DEF Same
<1>10. sent' \in 0..Sends.profile /\ apart' \subseteq {"palettes", "sessions"}
  BY <1>1, <1>4
<1> QED BY <1>6, <1>7, <1>8, <1>9, <1>10

\* A request is taken, and what it brought with it.
LEMMA ProfileTaken ==
  ASSUME ProfileInv, NEW r \in asked, r.state \in {"done", "refused"}, asked' = asked \ {r},
         UNCHANGED <<server, sent>>,
         \/ /\ shown' = shown /\ apart' = apart
            /\ r.state = "done" => r.op # "preference"
         \/ /\ r.op = "load" /\ r.list = "sessions" /\ r.state = "done"
            /\ shown' = [shown EXCEPT !.sessions = r.saw]
            /\ apart' = apart \/ apart' = apart \ {"sessions"}
         \/ /\ r.op \in {"load", "preference"} /\ r.list = "palettes" /\ r.state = "done"
            /\ shown' = [shown EXCEPT !.palettes = r.saw]
            /\ apart' = IF r.alone THEN apart \ {"palettes"} ELSE apart
  PROVE  /\ ProfileSole' /\ ProfileAgree' /\ \A q \in asked' : ProfileAsks(q)
         /\ shown' \in [palettes : Palettes, sessions : {"some", "none", Gone}]
         /\ sent' \in 0..Sends.profile /\ apart' \subseteq {"palettes", "sessions"}
<1>1. /\ \A q \in asked : ProfileAsks(q)
      /\ shown \in [palettes : Palettes, sessions : {"some", "none", Gone}]
      /\ sent \in 0..Sends.profile /\ apart \subseteq {"palettes", "sessions"}
  BY ProfilePlain
<1>2. /\ shown' \in [palettes : Palettes, sessions : {"some", "none", Gone}]
  <2>1. r.op \in {"load", "preference"} /\ r.state = "done" =>
          r.saw \in IF r.list = "palettes" THEN Palettes ELSE {"some", "none"}
    BY <1>1 DEF ProfileAsks
  <2> QED BY <1>1, <2>1
<1>3. apart' \subseteq apart /\ ("palettes" \in apart /\ "palettes" \notin apart' => r.alone)
  OBVIOUS
<1>4. ProfileSole'
  BY <1>3 DEF ProfileInv, ProfileSole
<1>5. ProfileAgree'
  <2>1. ASSUME "palettes" \notin apart'
        PROVE  shown'.palettes = server'.palettes \/ \E q \in asked' : q.op = "preference" /\ q.state = "done"
    <3>1. CASE /\ r.op \in {"load", "preference"} /\ r.list = "palettes" /\ r.state = "done"
               /\ shown' = [shown EXCEPT !.palettes = r.saw]
               /\ apart' = IF r.alone THEN apart \ {"palettes"} ELSE apart
      <4>1. r.alone
        BY <2>1, <3>1 DEF ProfileInv, ProfileSole
      <4>2. r.saw = server.palettes
        BY <3>1, <4>1 DEF ProfileInv, ProfileAgree
      <4>3. shown'.palettes = r.saw
        BY <1>1, <3>1
      <4> QED BY <4>2, <4>3
    <3>2. CASE \/ /\ shown' = shown /\ apart' = apart
                  /\ r.state = "done" => r.op # "preference"
               \/ /\ r.op = "load" /\ r.list = "sessions" /\ r.state = "done"
                  /\ shown' = [shown EXCEPT !.sessions = r.saw]
                  /\ apart' = apart \/ apart' = apart \ {"sessions"}
      <4>1. "palettes" \notin apart /\ shown'.palettes = shown.palettes
        BY <1>1, <2>1, <3>2
      <4>2. \A q \in asked : q.op = "preference" /\ q.state = "done" => q \in asked'
        BY <3>2
      <4> QED BY <4>1, <4>2 DEF ProfileInv, ProfileAgree
    <3> QED BY <3>1, <3>2
  <2> QED BY <2>1 DEF ProfileInv, ProfileAgree
<1> QED BY <1>1, <1>2, <1>3, <1>4, <1>5

LEMMA ProfileActs ==
  ASSUME ProfileInv,
         \/ Profile!SessionsLoaded \/ Profile!PreferencesLoaded
         \/ \E c \in Swatches : Profile!UpdateColorDebounced(c) \/ Profile!UpdatePreference(c)
         \/ Profile!PreferenceUpdated \/ Profile!TypePassword \/ Profile!HandlePasswordChange
         \/ Profile!PasswordChanged \/ Profile!HandleLogoutAll \/ Profile!LoggedOutAll
  PROVE  ProfileInv'
<1>1. /\ server \in [palettes : Palettes, sessions : {"some", "none"}]
      /\ shown \in [palettes : Palettes, sessions : {"some", "none", Gone}]
      /\ view \in ProfileViews /\ dialog = <<>>
      /\ view.isLoading => \E r \in asked : r.op = "load" /\ r.list = "sessions"
      /\ view.saving => \E r \in asked : r.op = "preference"
      /\ view.changing => \E r \in asked : r.op = "password"
      /\ \A r \in asked : ProfileAsks(r)
  BY ProfilePlain
\* A request is taken.
<1>2. ASSUME ProfileSole', ProfileAgree', \A q \in asked' : ProfileAsks(q),
             shown' \in [palettes : Palettes, sessions : {"some", "none", Gone}],
             sent' \in 0..Sends.profile, apart' \subseteq {"palettes", "sessions"},
             UNCHANGED <<server, dialog>>, view' \in ProfileViews, ProfileWait'
      PROVE  ProfileInv'
  <2>1. ProfileTyped'
    BY <1>1, <1>2 DEF ProfileTyped
  <2> QED BY <1>2, <2>1 DEF ProfileInv
<1>3. CASE Profile!SessionsLoaded
  <2>1. PICK r \in asked :
          /\ r.op = "load" /\ r.list = "sessions" /\ r.state \in {"done", "refused"}
          /\ shown' = IF r.state = "done" THEN [shown EXCEPT !["sessions"] = r.saw] ELSE shown
          /\ asked' = asked \ {r}
          /\ apart' = IF r.op = "load" /\ r.state = "done" /\ r.alone THEN apart \ {r.list} ELSE apart
          /\ view' = [view EXCEPT !["isLoading"] = FALSE] /\ UNCHANGED <<server, dialog, sent>>
    BY <1>3 DEF Profile!SessionsLoaded, Profile!Loaded, Profile!Answers, Profile!Land
  <2>2. \/ /\ shown' = shown /\ apart' = apart
           /\ r.state = "done" => r.op # "preference"
        \/ /\ r.op = "load" /\ r.list = "sessions" /\ r.state = "done"
           /\ shown' = [shown EXCEPT !.sessions = r.saw]
           /\ apart' = apart \/ apart' = apart \ {"sessions"}
    BY <2>1
  <2>3. /\ ProfileSole' /\ ProfileAgree' /\ \A q \in asked' : ProfileAsks(q)
        /\ shown' \in [palettes : Palettes, sessions : {"some", "none", Gone}]
        /\ sent' \in 0..Sends.profile /\ apart' \subseteq {"palettes", "sessions"}
    BY <2>1, <2>2, ProfileTaken
  <2>4. /\ view' \in ProfileViews /\ ~view'.isLoading /\ view'.saving = view.saving
        /\ view'.changing = view.changing
    BY <1>1, <2>1 DEF ProfileViews
  <2>5. ProfileWait'
    BY <1>1, <2>1, <2>4 DEF ProfileWait
  <2> QED BY <1>2, <2>1, <2>3, <2>4, <2>5
<1>4. CASE Profile!PreferencesLoaded
  <2>1. PICK r \in asked :
          /\ r.op = "load" /\ r.list = "palettes" /\ r.state \in {"done", "refused"}
          /\ shown' = IF r.state = "done" THEN [shown EXCEPT !.palettes = r.saw] ELSE shown
          /\ asked' = asked \ {r}
          /\ apart' = IF r.op = "load" /\ r.state = "done" /\ r.alone THEN apart \ {r.list} ELSE apart
          /\ UNCHANGED <<server, dialog, view, sent>>
    BY <1>4 DEF Profile!PreferencesLoaded, Profile!Answers, Profile!Land
  <2>2. \/ /\ shown' = shown /\ apart' = apart
           /\ r.state = "done" => r.op # "preference"
        \/ /\ r.op \in {"load", "preference"} /\ r.list = "palettes" /\ r.state = "done"
           /\ shown' = [shown EXCEPT !.palettes = r.saw]
           /\ apart' = IF r.alone THEN apart \ {"palettes"} ELSE apart
    BY <2>1
  <2>3. /\ ProfileSole' /\ ProfileAgree' /\ \A q \in asked' : ProfileAsks(q)
        /\ shown' \in [palettes : Palettes, sessions : {"some", "none", Gone}]
        /\ sent' \in 0..Sends.profile /\ apart' \subseteq {"palettes", "sessions"}
    BY <2>1, <2>2, ProfileTaken
  <2>4. view' \in ProfileViews /\ ProfileWait'
    BY <1>1, <2>1 DEF ProfileWait
  <2> QED BY <1>2, <2>1, <2>3, <2>4
<1>5. ASSUME NEW c \in Swatches, Profile!UpdateColorDebounced(c) PROVE ProfileInv'
  <2>1. PICK value \in Profile!Values :
          /\ shown' = [shown EXCEPT !.palettes[c] = value]
          /\ view' = [view EXCEPT !.timers[c] = value]
          /\ apart' = apart \cup {"palettes"} /\ UNCHANGED <<server, asked, dialog, sent>>
    BY <1>5 DEF Profile!UpdateColorDebounced
  <2>2. [shown.palettes EXCEPT ![c] = value] \in Palettes
    BY <1>1 DEF Palettes
  <2>3. shown' \in [palettes : Palettes, sessions : {"some", "none", Gone}]
    BY <1>1, <2>1, <2>2
  <2>4. [view.timers EXCEPT ![c] = value] \in [Swatches -> Profile!Values \cup {Gone}]
    BY <1>1 DEF ProfileViews
  <2>5. /\ view' \in ProfileViews /\ view'.isLoading = view.isLoading
        /\ view'.saving = view.saving /\ view'.changing = view.changing
    BY <1>1, <2>1, <2>4 DEF ProfileViews
  <2> QED BY <2>1, <2>3, <2>5, ProfileLook
<1>6. ASSUME NEW c \in Swatches, Profile!UpdatePreference(c) PROVE ProfileInv'
  <2>1. /\ view.timers[c] # Gone
        /\ Profile!Ask("preference", "palettes", c, view.timers[c])
        /\ view' = [view EXCEPT !.timers[c] = Gone, !.saving = TRUE] /\ UNCHANGED <<server, shown, dialog>>
    BY <1>6 DEF Profile!UpdatePreference
  <2> DEFINE to == view.timers[c]
  <2>2. to \in Profile!Values /\ Profile!Ask("preference", "palettes", c, to)
    BY <1>1, <2>1 DEF ProfileViews
  <2> HIDE DEF to
  <2>3. /\ ProfileSole' /\ ProfileAgree' /\ \A r \in asked' : ProfileAsks(r)
        /\ sent' \in 0..Sends.profile /\ apart' \subseteq {"palettes", "sessions"}
        /\ \A p \in asked : \E r \in asked' : r.op = p.op /\ r.list = p.list
        /\ \E r \in asked' : r.op = "preference"
    BY <2>1, <2>2, ProfileJoin
  <2>4. [view.timers EXCEPT ![c] = Gone] \in [Swatches -> Profile!Values \cup {Gone}]
    BY <1>1 DEF ProfileViews
  <2>5. /\ view' \in ProfileViews /\ view'.isLoading = view.isLoading /\ view'.changing = view.changing
    BY <1>1, <2>1, <2>4 DEF ProfileViews
  <2>6. ProfileWait'
    BY <1>1, <2>3, <2>5 DEF ProfileWait
  <2> QED BY <1>1, <1>2, <2>1, <2>3, <2>5, <2>6
<1>7. CASE Profile!PreferenceUpdated
  <2>1. PICK r \in asked :
          /\ r.op = "preference" /\ r.state \in {"done", "refused"}
          /\ asked' = asked \ {r}
          /\ shown' = IF r.state = "done" THEN [shown EXCEPT !.palettes = r.saw] ELSE shown
          /\ apart' = IF r.state = "done" /\ r.alone THEN apart \ {"palettes"} ELSE apart
          /\ view' = [view EXCEPT !.saving = FALSE] /\ UNCHANGED <<server, dialog, sent>>
    BY <1>7 DEF Profile!PreferenceUpdated, Profile!Answers
  <2>2. r.list = "palettes"
    BY <1>1, <2>1 DEF ProfileAsks
  <2>3. \/ /\ shown' = shown /\ apart' = apart
           /\ r.state = "done" => r.op # "preference"
        \/ /\ r.op \in {"load", "preference"} /\ r.list = "palettes" /\ r.state = "done"
           /\ shown' = [shown EXCEPT !.palettes = r.saw]
           /\ apart' = IF r.alone THEN apart \ {"palettes"} ELSE apart
    BY <2>1, <2>2
  <2>4. /\ ProfileSole' /\ ProfileAgree' /\ \A q \in asked' : ProfileAsks(q)
        /\ shown' \in [palettes : Palettes, sessions : {"some", "none", Gone}]
        /\ sent' \in 0..Sends.profile /\ apart' \subseteq {"palettes", "sessions"}
    BY <2>1, <2>3, ProfileTaken
  <2>5. /\ view' \in ProfileViews /\ view'.isLoading = view.isLoading /\ ~view'.saving
        /\ view'.changing = view.changing
    BY <1>1, <2>1 DEF ProfileViews
  <2>6. ProfileWait'
    BY <1>1, <2>1, <2>5 DEF ProfileWait
  <2> QED BY <1>2, <2>1, <2>4, <2>5, <2>6
<1>8. CASE Profile!TypePassword
  <2>1. /\ UNCHANGED <<server, shown, asked, dialog, apart, sent>>
        /\ \E form \in Profile!Forms : view' = [view EXCEPT !.password = form]
    BY <1>8 DEF Profile!TypePassword
  <2>2. /\ view' \in ProfileViews /\ view'.isLoading = view.isLoading
        /\ view'.saving = view.saving /\ view'.changing = view.changing
    BY <1>1, <2>1 DEF ProfileViews
  <2> QED BY <2>1, <2>2, ProfileLook
<1>9. CASE Profile!HandlePasswordChange
  <2>1. CASE view' = [view EXCEPT !.told = "error"] /\ UNCHANGED <<asked, apart, sent>>
    <3>1. /\ view' \in ProfileViews /\ view'.isLoading = view.isLoading
          /\ view'.saving = view.saving /\ view'.changing = view.changing
      BY <1>1, <2>1 DEF ProfileViews
    <3>2. UNCHANGED <<server, shown, asked, dialog, apart, sent>>
      BY <1>9, <2>1 DEF Profile!HandlePasswordChange
    <3> QED BY <3>1, <3>2, ProfileLook
  <2>2. CASE /\ Profile!Ask("password", "none", Gone, Gone)
             /\ view' = [view EXCEPT !.changing = TRUE, !.told = "nothing"]
    <3>1. UNCHANGED <<server, shown, dialog>>
      BY <1>9 DEF Profile!HandlePasswordChange
    <3>2. /\ ProfileSole' /\ ProfileAgree' /\ \A r \in asked' : ProfileAsks(r)
          /\ sent' \in 0..Sends.profile /\ apart' \subseteq {"palettes", "sessions"}
          /\ \A p \in asked : \E r \in asked' : r.op = p.op /\ r.list = p.list
          /\ \E r \in asked' : r.op = "password"
      BY <2>2, <3>1, ProfileJoin
    <3>3. /\ view' \in ProfileViews /\ view'.isLoading = view.isLoading /\ view'.saving = view.saving
      BY <1>1, <2>2 DEF ProfileViews
    <3>4. ProfileWait'
      BY <1>1, <3>2, <3>3 DEF ProfileWait
    <3> QED BY <1>1, <1>2, <3>1, <3>2, <3>3, <3>4
  <2> QED BY <1>9, <2>1, <2>2 DEF Profile!HandlePasswordChange
\* A request is taken, and brings nothing.
<1>10. ASSUME NEW r \in asked, r.op \in {"password", "logout"}, r.state \in {"done", "refused"},
              Profile!Land(r), UNCHANGED <<server, shown, dialog>>,
              view' \in ProfileViews, view'.isLoading = view.isLoading, view'.saving = view.saving,
              view'.changing => r.op # "password" /\ view.changing
       PROVE  ProfileInv'
  <2>1. asked' = asked \ {r} /\ sent' = sent /\ apart' = apart
    BY <1>10 DEF Profile!Land
  <2>2. shown' = shown /\ apart' = apart /\ (r.state = "done" => r.op # "preference") /\ server' = server
    BY <1>10, <2>1
  <2>3. /\ ProfileSole' /\ ProfileAgree' /\ \A q \in asked' : ProfileAsks(q)
        /\ shown' \in [palettes : Palettes, sessions : {"some", "none", Gone}]
        /\ sent' \in 0..Sends.profile /\ apart' \subseteq {"palettes", "sessions"}
    BY <1>10, <2>1, <2>2, ProfileTaken
  <2>4. ProfileWait'
    BY <1>1, <1>10, <2>1 DEF ProfileWait
  <2> QED BY <1>2, <1>10, <2>3, <2>4
<1>11. CASE Profile!PasswordChanged
  <2>1. PICK r \in asked :
          /\ r.op = "password" /\ r.state \in {"done", "refused"} /\ Profile!Land(r)
          /\ view' = IF r.state = "done" THEN [view EXCEPT !.changing = FALSE, !.told = "success", !.password = "blank"]
                     ELSE [view EXCEPT !.changing = FALSE]
          /\ UNCHANGED <<server, shown, dialog>>
    BY <1>11 DEF Profile!PasswordChanged, Profile!Answers
  <2>2. /\ view' \in ProfileViews /\ view'.isLoading = view.isLoading
        /\ view'.saving = view.saving /\ ~view'.changing
    BY <1>1, <2>1 DEF ProfileViews, Profile!Forms
  <2> QED BY <1>10, <2>1, <2>2
<1>12. CASE Profile!HandleLogoutAll
  <2>1. Profile!Ask("logout", "sessions", Gone, Gone) /\ UNCHANGED <<server, shown, dialog, view>>
    BY <1>12 DEF Profile!HandleLogoutAll
  <2>2. /\ ProfileSole' /\ ProfileAgree' /\ \A r \in asked' : ProfileAsks(r)
        /\ sent' \in 0..Sends.profile /\ apart' \subseteq {"palettes", "sessions"}
        /\ \A p \in asked : \E r \in asked' : r.op = p.op /\ r.list = p.list
    BY <2>1, ProfileJoin
  <2>3. ProfileWait' /\ view' \in ProfileViews
    BY <1>1, <2>1, <2>2 DEF ProfileWait
  <2> QED BY <1>1, <1>2, <2>1, <2>2, <2>3
<1>13. CASE Profile!LoggedOutAll
  <2>1. PICK r \in asked :
          /\ r.op = "logout" /\ r.state \in {"done", "refused"} /\ Profile!Land(r)
          /\ view' = [view EXCEPT !.leaving = TRUE] /\ UNCHANGED <<server, shown, dialog>>
    BY <1>13 DEF Profile!LoggedOutAll, Profile!Answers
  <2>2. /\ view' \in ProfileViews /\ view'.isLoading = view.isLoading
        /\ view'.saving = view.saving /\ view'.changing = view.changing
    BY <1>1, <2>1 DEF ProfileViews
  <2> QED BY <1>10, <2>1, <2>2
<1> QED BY <1>3, <1>4, <1>5, <1>6, <1>7, <1>8, <1>9, <1>11, <1>12, <1>13

LEMMA ProfileServed ==
  ASSUME ProfileInv, Profile!Serve(Profile!Effect, Profile!Accepts)
  PROVE  ProfileInv'
<1>1. PICK r \in asked :
        /\ r.state = "asked"
        /\ \/ /\ Profile!Accepts(r)
              /\ server' = Profile!Effect(r)
              /\ asked' = (asked \ {r}) \cup {Answer(r)}
              /\ apart' = apart
           \/ /\ asked' = (asked \ {r}) \cup {Refusal(r)}
              /\ server' = server /\ apart' = apart
           \/ /\ Profile!Accepts(r)
              /\ server' = Profile!Effect(r)
              /\ asked' = (asked \ {r}) \cup {Refusal(r)}
              /\ apart' = DOMAIN shown
  BY DEF Profile!Serve, Profile!Answer, Profile!Refusal, Profile!Brings, Answer, Refusal, Brings
<1>2. UNCHANGED <<shown, dialog, view, sent>>
  BY DEF Profile!Serve
<1>3. /\ ProfileAsks(r) /\ Asks(r) /\ \A q \in asked : ProfileAsks(q)
      /\ server \in [palettes : Palettes, sessions : {"some", "none"}]
      /\ DOMAIN shown = {"palettes", "sessions"} /\ apart \subseteq {"palettes", "sessions"}
  BY ProfilePlain
<1>4. PICK s :
        /\ asked' = (asked \ {r}) \cup {s}
        /\ Asks(s) /\ Twin(s, r) /\ s.alone = r.alone
        /\ \/ /\ s.state = "done" /\ Profile!Accepts(r) /\ server' = Profile!Effect(r)
              /\ apart' = apart
              /\ s.saw = IF r.op \in Brings THEN server'[r.list] ELSE r.saw
           \/ /\ s.state = "refused" /\ s.saw = Gone
              /\ \/ server' = server /\ apart' = apart
                 \/ /\ Profile!Accepts(r) /\ server' = Profile!Effect(r)
                    /\ apart' = DOMAIN shown
  <2> DEFINE accepts == Profile!Accepts(r)
             effect == Profile!Effect(r)
  <2>1. \/ accepts /\ server' = effect /\ asked' = (asked \ {r}) \cup {Answer(r)} /\ apart' = apart
        \/ asked' = (asked \ {r}) \cup {Refusal(r)} /\ server' = server /\ apart' = apart
        \/ /\ accepts /\ server' = effect /\ asked' = (asked \ {r}) \cup {Refusal(r)}
           /\ apart' = DOMAIN shown
    BY <1>1
  <2> HIDE DEF accepts, effect
  <2> QED BY <1>3, <2>1, Answering DEF accepts, effect
<1>5. /\ s.op = r.op /\ s.list = r.list /\ s.on = r.on /\ s.to = r.to /\ s.alone = r.alone
      /\ apart \subseteq apart' /\ apart' \subseteq {"palettes", "sessions"}
      /\ "palettes" \notin apart' => s.state = "done" \/ server' = server
  BY <1>3, <1>4 DEF Twin
<1>6. /\ server' \in [palettes : Palettes, sessions : {"some", "none"}]
      /\ r.op # "preference" => server'.palettes = server.palettes
  <2>1. CASE server' = server
    BY <1>3, <2>1
  <2>2. CASE server' = Profile!Effect(r) /\ r.op = "preference"
    <3>1. server' = [server EXCEPT !.palettes[r.on] = r.to]
      BY <2>2 DEF Profile!Effect
    <3>2. [server.palettes EXCEPT ![r.on] = r.to] \in Palettes
      BY <1>3, <2>2 DEF ProfileAsks, Palettes
    <3> QED BY <1>3, <2>2, <3>1, <3>2
  <2>3. CASE server' = Profile!Effect(r) /\ r.op # "preference"
    <3>1. server' = server \/ server' = [server EXCEPT !.sessions = "none"]
      BY <2>3 DEF Profile!Effect
    <3> QED BY <1>3, <3>1
  <2> QED BY <1>4, <2>1, <2>2, <2>3
<1>7. s.op \in {"load", "preference"} /\ s.state = "done" => s.saw = server'[s.list]
  BY <1>4, <1>5 DEF Brings
<1>8. \A q \in asked' : ProfileAsks(q)
  <2>1. s.op \in {"load", "preference"} => s.list \in {"palettes", "sessions"}
    BY <1>3, <1>5 DEF ProfileAsks
  <2>2. s.op \in {"load", "preference"} /\ s.state = "done" =>
          s.saw \in IF s.list = "palettes" THEN Palettes ELSE {"some", "none"}
    BY <1>6, <1>7, <2>1
  <2>3. ProfileAsks(s)
    BY <1>3, <1>4, <1>5, <2>2 DEF ProfileAsks
  <2> QED BY <1>3, <1>4, <2>3
<1>9. ProfileSole'
  BY <1>4, <1>5 DEF ProfileInv, ProfileSole
<1>10. ProfileAgree'
  <2>1. ASSUME NEW q \in asked', q.alone, q.op \in {"load", "preference"}, q.list = "palettes", q.state = "done"
        PROVE  q.saw = server'.palettes
    <3>1. CASE q = s
      BY <1>7, <2>1, <3>1
    <3>2. CASE q # s
      <4>1. q \in asked /\ q # r /\ r \in asked
        BY <1>4, <3>2
      <4>2. r.alone
        BY <2>1, <4>1 DEF ProfileInv, ProfileSole
      <4>3. r.op = "load"
        BY <4>1, <4>2 DEF ProfileInv, ProfileSole
      <4>4. server'.palettes = server.palettes
        BY <1>6, <4>3
      <4> QED BY <2>1, <4>1, <4>4 DEF ProfileInv, ProfileAgree
    <3> QED BY <3>1, <3>2
  <2>2. ASSUME "palettes" \notin apart'
        PROVE  shown'.palettes = server'.palettes \/ \E q \in asked' : q.op = "preference" /\ q.state = "done"
    <3>1. shown.palettes = server.palettes \/ \E q \in asked : q.op = "preference" /\ q.state = "done"
      BY <1>5, <2>2 DEF ProfileInv, ProfileAgree
    <3>2. \A q \in asked : q.state = "done" => q \in asked'
      BY <1>1, <1>4
    <3>3. server'.palettes = server.palettes \/ (s.op = "preference" /\ s.state = "done")
      BY <1>5, <1>6, <2>2
    <3> QED BY <1>2, <1>4, <3>1, <3>2, <3>3
  <2> QED BY <2>1, <2>2 DEF ProfileAgree
<1>11. ProfileWait'
  <2>1. \A q \in asked : \E p \in asked' : p.op = q.op /\ p.list = q.list
    BY <1>4, <1>5
  <2>2. /\ view.isLoading => \E q \in asked : q.op = "load" /\ q.list = "sessions"
        /\ view.saving => \E q \in asked : q.op = "preference"
        /\ view.changing => \E q \in asked : q.op = "password"
    BY ProfilePlain
  <2>3. /\ view.isLoading => \E q \in asked' : q.op = "load" /\ q.list = "sessions"
        /\ view.saving => \E q \in asked' : q.op = "preference"
        /\ view.changing => \E q \in asked' : q.op = "password"
    BY <2>1, <2>2
  <2> QED BY <1>2, <2>3 DEF ProfileWait
<1>12. ProfileTyped'
  BY <1>2, <1>5, <1>6 DEF ProfileInv, ProfileTyped
<1> QED BY <1>8, <1>9, <1>10, <1>11, <1>12 DEF ProfileInv

LEMMA ProfileStart == ASSUME Profile!Init PROVE ProfileInv
<1> DEFINE p == Request("load", "palettes", Gone, Gone, Gone)
           q == Request("load", "sessions", Gone, Gone, Gone)
<1>1. /\ asked = {p, q} /\ dialog = <<>> /\ apart = DOMAIN shown /\ sent = 0
      /\ server = [palettes |-> [c \in Swatches |-> "plain"], sessions |-> "some"]
      /\ shown = [palettes |-> Cached, sessions |-> Gone]
      /\ view = [isLoading |-> TRUE, saving |-> FALSE, timers |-> [c \in Swatches |-> Gone],
                 password |-> "blank", changing |-> FALSE, told |-> "nothing", leaving |-> FALSE]
  BY DEF Profile!Init, Profile!Request, Profile!Closed, Request
<1>2. /\ Asks(p) /\ p.op = "load" /\ p.list = "palettes" /\ p.state = "asked" /\ p.alone
      /\ Asks(q) /\ q.op = "load" /\ q.list = "sessions" /\ q.state = "asked" /\ q.alone
  BY RequestAsks DEF Request
<1> HIDE DEF p, q
<1>3. Cached \in Palettes /\ Sends.profile \in Nat
  BY ClientAssumption DEF ClientAssumption, Palettes
<1>4. ProfileTyped
  <2>1. view \in ProfileViews
    BY <1>1 DEF ProfileViews, Profile!Forms
  <2>2. [c \in Swatches |-> "plain"] \in Palettes
    BY DEF Palettes, Profile!Values
  <2> QED BY <1>1, <1>3, <2>1, <2>2 DEF ProfileTyped
<1>5. ProfileSole /\ ProfileAgree /\ \A r \in asked : ProfileAsks(r)
  BY <1>1, <1>2 DEF ProfileSole, ProfileAgree, ProfileAsks
<1>6. ProfileWait
  BY <1>1, <1>2 DEF ProfileWait
<1> QED BY <1>4, <1>5, <1>6 DEF ProfileInv

LEMMA ProfileStep == ASSUME ProfileInv, [Profile!Next]_pageVars PROVE ProfileInv'
<1>1. CASE UNCHANGED pageVars
  <2>1. UNCHANGED <<server, shown, asked, apart, sent, dialog, view>>
    BY <1>1 DEF pageVars
  <2>2. view' \in ProfileViews
    BY <2>1, ProfilePlain
  <2> QED BY <2>1, <2>2, ProfileLook
<1>2. CASE Profile!Next
  BY <1>2, ProfileActs, ProfileServed DEF Profile!Next
<1> QED BY <1>1, <1>2

ProfileHolds == page = "profile" => ProfileInv

LEMMA ProfileAlways == Spec => []ProfileHolds
<1>1. Init => ProfileHolds
  BY ProfileStart DEF Init, ProfileHolds
<1>2. ASSUME ProfileHolds, [Next]_vars PROVE ProfileHolds'
  <2>1. page' = page /\ (page = "profile" => [Profile!Next]_pageVars)
    BY <1>2 DEF Next, vars
  <2> QED BY <1>2, <2>1, ProfileStep DEF ProfileHolds
<1> QED BY <1>1, <1>2, PTL DEF Spec

-----------------------------------------------------------------------------
(* What the invariants come to: the properties of the six pages. *)

LEMMA UsersPromises ==
  ASSUME UsersInv
  PROVE  /\ UsersPage!PageOK /\ UsersPage!TypeOK
         /\ UsersPage!ListsShowServer /\ UsersPage!SpinnersHaveRequests
<1>1. UsersPage!RequestsOK
  <2>1. \A r \in asked : Asks(r)
    BY DEF UsersInv, UsersAgree, UserAsks
  <2> QED BY <2>1, AsksOK DEF UsersPage!RequestsOK
<1>2. \A i \in DOMAIN dialog : "is" \in DOMAIN dialog[i]
  <2>1. \A d \in UserDialogs : "is" \in DOMAIN d
    BY DEF UserDialogs
  <2>2. \A i \in DOMAIN dialog : dialog[i] \in UserDialogs
    BY DEF UsersInv
  <2> QED BY <2>1, <2>2
<1>3. UsersPage!PageOK
  BY <1>1, <1>2 DEF UsersPage!PageOK, UsersInv, UsersTyped
<1>4. UsersPage!TypeOK
  BY DEF UsersPage!TypeOK, UsersInv, UsersTyped, UserViews
<1>5. UsersPage!ListsShowServer
  <2>1. DOMAIN shown = {"users", "links"}
    BY DEF UsersInv, UsersTyped, UsersPage!Lists
  <2>2. ASSUME asked = {}, NEW list \in DOMAIN shown \ apart PROVE shown[list] = server[list]
    BY <2>1, <2>2 DEF UsersInv, UsersAgree, Settled
  <2> QED BY <2>2 DEF UsersPage!ListsShowServer, UsersPage!ShowsServer
<1>6. UsersPage!SpinnersHaveRequests
  BY DEF UsersPage!SpinnersHaveRequests, UsersPage!Waiting, UsersInv, UsersWait
<1> QED BY <1>3, <1>4, <1>5, <1>6

LEMMA TagsPromises ==
  ASSUME TagsInv
  PROVE  /\ TagsPage!RequestsOK /\ TagsPage!TypeOK
         /\ TagsPage!ListsShowServer /\ TagsPage!SpinnersHaveRequests
<1>1. TagsPage!RequestsOK
  <2>1. \A r \in asked : Asks(r)
    BY DEF TagsInv, TagAsks
  <2> QED BY <2>1, AsksOK DEF TagsPage!RequestsOK
<1>2. TagsPage!TypeOK
  <2>1. view \in TagViews
    BY DEF TagsInv
  <2>2. TagForms = {TagsPage!Form(op) : op \in TagsPage!Ops} /\ TagsPage!None = "none"
    BY DEF TagForms, TagsPage!Form, TagsPage!Ops, TagsPage!None
  <2>3. view \in [loading : BOOLEAN, busy : SUBSET {TagsPage!Form(op) : op \in TagsPage!Ops},
                  color : TagsPage!Colors, sources : SUBSET Tags, target : Tags \cup {TagsPage!None}]
    BY <2>1, <2>2 DEF TagViews
  <2> QED BY <2>3 DEF TagsPage!TypeOK, TagsInv
<1>3. TagsPage!ListsShowServer
  <2>1. DOMAIN shown = {"tags"}
    BY DEF TagsInv, TagsPage!Lists
  <2>2. ASSUME asked = {}, NEW list \in DOMAIN shown \ apart PROVE shown[list] = server[list]
    BY <2>1, <2>2 DEF TagsInv, TagsAgree
  <2> QED BY <2>2 DEF TagsPage!ListsShowServer, TagsPage!ShowsServer
<1>4. TagsPage!SpinnersHaveRequests
  BY DEF TagsPage!SpinnersHaveRequests, TagsPage!Waiting, TagsInv, TagsWait
<1> QED BY <1>1, <1>2, <1>3, <1>4

LEMMA CategoriesPromises ==
  ASSUME CategoriesInv
  PROVE  /\ CategoriesPage!PageOK /\ CategoriesPage!TypeOK
         /\ CategoriesPage!ListsShowServer /\ CategoriesPage!SpinnersHaveRequests
<1>1. CategoriesPage!RequestsOK
  <2>1. \A r \in asked : Asks(r)
    BY DEF CategoriesInv, CategoryAsks
  <2> QED BY <2>1, AsksOK DEF CategoriesPage!RequestsOK
<1>2. \A i \in DOMAIN dialog : "is" \in DOMAIN dialog[i]
  <2>1. \A d \in CategoryDialogs : "is" \in DOMAIN d
    BY DEF CategoryDialogs
  <2>2. \A i \in DOMAIN dialog : dialog[i] \in CategoryDialogs
    BY DEF CategoriesInv, CategoriesTyped
  <2> QED BY <2>1, <2>2
<1>3. DOMAIN shown = {"categories"}
  BY DEF CategoriesInv, CategoriesTyped, CategoriesPage!Lists
<1>4. CategoriesPage!PageOK
  BY <1>1, <1>2, <1>3 DEF CategoriesPage!PageOK, CategoriesInv, CategoriesTyped
<1>5. CategoriesPage!TypeOK
  BY DEF CategoriesPage!TypeOK, CategoriesInv, CategoriesTyped, CategoryViews
<1>6. CategoriesPage!ListsShowServer
  <2>1. ASSUME asked = {}, NEW list \in DOMAIN shown \ apart PROVE shown[list] = server[list]
    BY <1>3, <2>1 DEF CategoriesInv, CategoriesAgree, Saves
  <2> QED BY <2>1 DEF CategoriesPage!ListsShowServer, CategoriesPage!ShowsServer
<1>7. CategoriesPage!SpinnersHaveRequests
  <2>1. CategoriesPage!Top = TopOf(dialog)
    BY DEF CategoriesPage!Top, CategoriesPage!Closed, TopOf
  <2>2. Currents # {} <=> \E r \in asked : r.op = "workers" /\ r.to = "current"
    BY DEF Currents
  <2>3. view.loading => \E r \in asked : r.op = "load"
    BY DEF CategoriesInv, CategoriesWait, Saves
  <2>4. TopOf(dialog).is = "category" => (view.workersLoading <=> Currents # {})
    BY DEF CategoriesInv, CategoriesWait
  <2> QED BY <2>1, <2>2, <2>3, <2>4 DEF CategoriesPage!SpinnersHaveRequests, CategoriesPage!Waiting
<1> QED BY <1>4, <1>5, <1>6, <1>7

LEMMA WorkersPromises ==
  ASSUME WorkersInv
  PROVE  /\ WorkersPage!PageOK /\ WorkersPage!TypeOK
         /\ WorkersPage!ListsShowServer /\ WorkersPage!SpinnersHaveRequests
<1>1. WorkersPage!RequestsOK
  BY WorkersPlain, AsksOK DEF WorkersPage!RequestsOK
<1>2. \A i \in DOMAIN dialog : "is" \in DOMAIN dialog[i]
  <2>1. \A d \in WorkerDialogs : "is" \in DOMAIN d
    BY DEF WorkerDialogs
  <2>2. \A i \in DOMAIN dialog : dialog[i] \in WorkerDialogs
    BY DEF WorkersInv, WorkersTyped
  <2> QED BY <2>1, <2>2
<1>3. DOMAIN shown = {"workers"}
  BY WorkersPlain
<1>4. WorkersPage!PageOK
  BY <1>1, <1>2, <1>3 DEF WorkersPage!PageOK, WorkersInv, WorkersTyped
<1>5. WorkersPage!TypeOK
  BY DEF WorkersPage!TypeOK, WorkersInv, WorkersTyped, WorkerViews
<1>6. WorkersPage!ListsShowServer
  <2>1. ASSUME asked = {}, "workers" \notin apart, NEW w \in Workers
        PROVE  Values(shown.workers[w]) = {server.workers[w]} \ {Gone}
    <3>1. \A op : DoneTo(op, w) = {}
      BY <2>1 DEF DoneTo
    <3>2. PICK held \in WorkersPage!Forms \cup {Gone} : RowsShow(shown.workers[w], held) /\ Patched(w, held)
      BY <2>1 DEF WorkersInv, WorkersPatched
    <3> QED BY <3>1, <3>2 DEF Patched, Follows, RowsShow
  <2>2. ~view.twice => \A w \in Workers : Len(shown.workers[w]) <= 1
    BY DEF WorkersInv, WorkersOnce
  <2> QED BY <2>1, <2>2 DEF WorkersPage!ListsShowServer, Values
<1>7. WorkersPage!SpinnersHaveRequests
  BY DEF WorkersPage!SpinnersHaveRequests, WorkersPage!Waiting, WorkersInv, WorkersWait
<1> QED BY <1>4, <1>5, <1>6, <1>7

LEMMA SettingsPromises ==
  ASSUME SettingsInv
  PROVE  /\ SettingsPage!PageOK /\ SettingsPage!TypeOK
         /\ SettingsPage!ListsShowServer /\ SettingsPage!SpinnersHaveRequests
<1>1. SettingsPage!RequestsOK
  BY SettingsPlain, AsksOK DEF SettingsPage!RequestsOK
<1>2. \A i \in DOMAIN dialog : "is" \in DOMAIN dialog[i]
  <2>1. \A d \in SettingDialogs : "is" \in DOMAIN d
    BY DEF SettingDialogs
  <2>2. \A i \in DOMAIN dialog : dialog[i] \in SettingDialogs
    BY SettingsPlain
  <2> QED BY <2>1, <2>2
<1>3. DOMAIN shown = {"settings", "images"}
  BY SettingsPlain
<1>4. SettingsPage!PageOK
  BY <1>1, <1>2, <1>3, SettingsPlain DEF SettingsPage!PageOK
<1>5. SettingsPage!TypeOK
  BY DEF SettingsPage!TypeOK, SettingsInv, SettingsTyped, SettingViews, SettingKinds, SettingCopies, ImageCopies
<1>6. SettingsPage!ListsShowServer
  <2>1. ASSUME asked = {}, NEW list \in DOMAIN shown \ apart PROVE shown[list] = server[list]
    BY <1>3, <2>1 DEF SettingsInv, SettingsAgree
  <2> QED BY <2>1 DEF SettingsPage!ListsShowServer, SettingsPage!ShowsServer
<1>7. SettingsPage!SpinnersHaveRequests
  BY DEF SettingsPage!SpinnersHaveRequests, SettingsPage!Waiting, SettingsInv, SettingsWait
<1> QED BY <1>4, <1>5, <1>6, <1>7

LEMMA ProfilePromises ==
  ASSUME ProfileInv
  PROVE  /\ Profile!PageOK /\ Profile!TypeOK
         /\ Profile!ListsShowServer /\ Profile!SpinnersHaveRequests
<1>1. Profile!RequestsOK
  BY ProfilePlain, AsksOK DEF Profile!RequestsOK
<1>2. Profile!PageOK
  BY <1>1, ProfilePlain DEF Profile!PageOK
<1>3. Profile!TypeOK
  BY DEF Profile!TypeOK, ProfileInv, ProfileTyped, ProfileViews, Palettes
<1>4. Profile!ListsShowServer
  BY DEF Profile!ListsShowServer, Profile!ShowsServer, ProfileInv, ProfileAgree
<1>5. Profile!SpinnersHaveRequests
  BY DEF Profile!SpinnersHaveRequests, Profile!Waiting, ProfileInv, ProfileWait
<1> QED BY <1>2, <1>3, <1>4, <1>5

-----------------------------------------------------------------------------
(* The tabs of TorrentDetailsModal.tsx, and their lists. *)

TabLists(gone) ==
  [files : [Files -> Tabs!Priorities \cup gone], trackers : [Urls -> {"there", Gone}],
   peers : [Peers -> {"there", Gone}]]
TabCopies(list) == IF list = "files" THEN [Files -> Tabs!Priorities \cup {Gone}]
                   ELSE IF list = "trackers" THEN [Urls -> {"there", Gone}]
                   ELSE [Peers -> {"there", Gone}]
TabViews ==
  [tab : Tabs!Tabs, loading : BOOLEAN, error : BOOLEAN, pending : Pendings,
   applying : BOOLEAN, applyError : BOOLEAN, newUrl : Urls \cup {Gone}, adding : BOOLEAN,
   pendingUrls : SUBSET Urls, editing : Urls \cup {Gone}, banning : Peers \cup {Gone}]
TabDialogs == [is : {"confirm"}, on : {Gone}] \cup [is : {"ban"}, on : Peers]

TabAsks(r) ==
  /\ Asks(r)
  /\ r.op \in {"load", "apply", "add", "remove", "edit", "ban"} /\ r.list \in Tabs!Tabs
  /\ r.op = "apply" => r.list = "files" /\ r.to \in Batches
  /\ r.op \in {"add", "edit", "remove"} => r.list = "trackers" /\ r.on \in Urls
  /\ r.op = "ban" => r.list = "peers" /\ r.on \in Peers
  /\ r.op = "add" => r.to = "there"
  /\ r.op = "edit" => r.to \in Urls
  /\ r.op \in {"remove", "ban"} => r.to = Gone
  /\ r.op = "load" => r.heard
  /\ r.op = "load" /\ r.state = "done" => r.saw \in TabCopies(r.list)

\* What is heard of belongs to the tab that is open, and so does the dialog.
TabsHear == \A r \in asked : (r.heard => r.list = view.tab) /\ (r.alone => r.heard)
TabsDialog ==
  \/ dialog = <<>>
  \/ \E d \in TabDialogs : dialog = <<d>> /\ view.tab = IF d.is = "confirm" THEN "files" ELSE "peers"

\* A removal or a ban that is done is patched into the list; after any other
\* change the list is loaded again.
TabAgrees(list) ==
  /\ \A r \in asked : r.op \in {"remove", "ban"} /\ r.list = list /\ r.state = "done" =>
       server[list] = [shown[list] EXCEPT ![r.on] = Gone]
  /\ (\A r \in asked : r.op # "load" /\ r.list = list => r.state # "done") => shown[list] = server[list]
TabsAgree ==
  /\ Solo /\ FreshLoads
  /\ \A list \in Tabs!Tabs \ apart : TabAgrees(list)

\* A change that loads its list again is over when that load is.
FollowUp(op, to) == \E r \in asked : (r.op = op /\ r.heard) \/ (r.op = "load" /\ r.to = to)
FollowsUrl(u) ==
  \E r \in asked : (r.op \in {"remove", "edit"} /\ r.on = u /\ r.heard) \/ (r.op = "load" /\ r.to = u)
TabsWait ==
  /\ view.loading => \E r \in asked : r.op = "load"
  /\ view.applying => FollowUp("apply", "applying")
  /\ view.adding => FollowUp("add", "adding")
  /\ \A u \in view.pendingUrls : FollowsUrl(u)
  /\ view.banning # Gone => \E r \in asked : r.op = "ban" /\ r.heard
TabsTyped ==
  /\ server \in TabLists({}) /\ shown \in TabLists({Gone})
  /\ sent \in 0..Sends.tabs /\ apart \subseteq Tabs!Tabs
  /\ view \in TabViews /\ TabsDialog
TabsInv ==
  /\ TabsTyped
  /\ \A r \in asked : TabAsks(r)
  /\ TabsHear /\ TabsAgree /\ TabsWait

LEMMA TabsPlain ==
  ASSUME TabsInv
  PROVE  /\ server \in TabLists({}) /\ shown \in TabLists({Gone})
         /\ DOMAIN shown = Tabs!Tabs /\ Tabs!Tabs = {"files", "trackers", "peers"}
         /\ sent \in 0..Sends.tabs /\ Sends.tabs \in Nat /\ apart \subseteq Tabs!Tabs
         /\ view \in TabViews /\ view.tab \in Tabs!Tabs
         /\ \A r \in asked : TabAsks(r) /\ Asks(r)
         /\ Tabs!Top = TopOf(dialog)
         /\ \/ dialog = <<>> /\ Tabs!Top.is = "none"
            \/ Tabs!Top.is = "confirm" /\ view.tab = "files"
            \/ Tabs!Top.is = "ban" /\ view.tab = "peers" /\ Tabs!Top.on \in Peers
         /\ Tabs!CloseTop = <<>>
<1>1. Tabs!Top = TopOf(dialog)
  BY DEF Tabs!Top, Tabs!Closed, TopOf
<1>2. Sends.tabs \in Nat
  BY ClientAssumption DEF ClientAssumption
<1>3. CASE dialog = <<>>
  <2>1. Tabs!Top.is = "none" /\ Tabs!CloseTop = <<>>
    BY <1>3 DEF Tabs!Top, Tabs!Closed, Tabs!CloseTop
  <2> QED BY <1>1, <1>2, <1>3, <2>1 DEF TabsInv, TabsTyped, TabAsks, TabLists, TabViews, Tabs!Tabs
<1>4. CASE dialog # <<>>
  <2>1. PICK d \in TabDialogs :
          dialog = <<d>> /\ view.tab = IF d.is = "confirm" THEN "files" ELSE "peers"
    BY <1>4 DEF TabsInv, TabsTyped, TabsDialog
  <2>2. Tabs!Top = d /\ Tabs!CloseTop = <<>>
    BY <2>1 DEF Tabs!Top, Tabs!Closed, Tabs!CloseTop
  <2>3. (d.is = "confirm" /\ view.tab = "files") \/ (d.is = "ban" /\ view.tab = "peers" /\ d.on \in Peers)
    BY <2>1 DEF TabDialogs
  <2> QED BY <1>1, <1>2, <2>2, <2>3 DEF TabsInv, TabsTyped, TabAsks, TabLists, TabViews, Tabs!Tabs
<1> QED BY <1>3, <1>4

\* Nothing happens to the requests and the lists.
LEMMA TabsIdle ==
  ASSUME TabsInv, UNCHANGED <<server, shown, asked, apart, sent>>,
         view' \in TabViews, TabsDialog', view'.tab = view.tab,
         view'.loading = view.loading, view'.applying = view.applying,
         view'.adding = view.adding, view'.pendingUrls = view.pendingUrls,
         view'.banning = view.banning
  PROVE  TabsInv'
<1>1. TabsTyped'
  BY DEF TabsInv, TabsTyped
<1>2. TabsAgree' /\ TabsHear'
  BY DEF TabsInv, TabsAgree, TabAgrees, Solo, FreshLoads, TabsHear
<1>3. TabsWait'
  BY DEF TabsInv, TabsWait, FollowUp, FollowsUrl
<1> QED BY <1>1, <1>2, <1>3 DEF TabsInv

\* The user types, chooses and opens dialogs.
LEMMA TabsLook ==
  ASSUME TabsInv,
         \/ \E f \in Files, priority \in Tabs!Priorities : Tabs!SetPendingPriority(f, priority)
         \/ Tabs!SelectAll \/ Tabs!SelectNone \/ Tabs!AskToApply \/ Tabs!CancelEdit \/ Tabs!CloseDialog
         \/ \E u \in Urls : Tabs!TypeUrl(u) \/ Tabs!StartEdit(u)
         \/ \E p \in Peers : Tabs!AskToBan(p)
  PROVE  TabsInv'
<1>1. view \in TabViews /\ Tabs!CloseTop = <<>>
  BY TabsPlain
<1>2. TabsDialog
  BY DEF TabsInv, TabsTyped
<1>3. ASSUME NEW pending \in Pendings, Tabs!Choose(pending) PROVE TabsInv'
  <2> DEFINE no == FALSE
  <2>1. view' = [view EXCEPT !.pending = pending, !.applyError = no]
        /\ UNCHANGED <<server, shown, asked, dialog, apart, sent>>
    BY <1>3 DEF Tabs!Choose, Tabs!Look
  <2>2. no \in BOOLEAN
    OBVIOUS
  <2> HIDE DEF no
  <2>3. /\ view' \in TabViews /\ view'.tab = view.tab
        /\ view'.loading = view.loading /\ view'.applying = view.applying
        /\ view'.adding = view.adding /\ view'.pendingUrls = view.pendingUrls
        /\ view'.banning = view.banning
    BY <1>1, <2>1, <2>2 DEF TabViews
  <2>4. TabsDialog'
    BY <1>2, <2>1, <2>3 DEF TabsDialog
  <2> QED BY <2>1, <2>3, <2>4, TabsIdle
<1>4. CASE \E f \in Files, priority \in Tabs!Priorities : Tabs!SetPendingPriority(f, priority)
  <2>1. PICK f \in Files, priority \in Tabs!Priorities :
          Tabs!Choose([view.pending EXCEPT ![f] = priority])
    BY <1>4 DEF Tabs!SetPendingPriority
  <2>2. [view.pending EXCEPT ![f] = priority] \in Pendings
    BY <1>1 DEF TabViews, Pendings
  <2> QED BY <1>3, <2>1, <2>2
<1>5. CASE Tabs!SelectAll
  <2>1. [f \in Files |-> IF Tabs!Effective(f) = "skip" THEN "normal" ELSE view.pending[f]] \in Pendings
    BY <1>1 DEF TabViews, Pendings, Tabs!Priorities
  <2> QED BY <1>3, <1>5, <2>1 DEF Tabs!SelectAll
<1>6. CASE Tabs!SelectNone
  <2>1. [f \in Files |-> "skip"] \in Pendings
    BY DEF Pendings, Tabs!Priorities
  <2> QED BY <1>3, <1>6, <2>1 DEF Tabs!SelectNone
<1>7. CASE Tabs!CancelEdit \/ \E u \in Urls : Tabs!TypeUrl(u) \/ Tabs!StartEdit(u)
  <2>1. /\ \/ \E u \in Urls \cup {Gone} : view' = [view EXCEPT !.editing = u]
           \/ \E u \in Urls : view' = [view EXCEPT !.newUrl = u]
        /\ UNCHANGED <<server, shown, asked, dialog, apart, sent>>
    BY <1>7 DEF Tabs!CancelEdit, Tabs!TypeUrl, Tabs!StartEdit, Tabs!Look
  <2>2. /\ view' \in TabViews /\ view'.tab = view.tab
        /\ view'.loading = view.loading /\ view'.applying = view.applying
        /\ view'.adding = view.adding /\ view'.pendingUrls = view.pendingUrls
        /\ view'.banning = view.banning
    BY <1>1, <2>1 DEF TabViews
  <2>3. TabsDialog'
    BY <1>2, <2>1, <2>2 DEF TabsDialog
  <2> QED BY <2>1, <2>2, <2>3, TabsIdle
<1>8. CASE Tabs!AskToApply \/ Tabs!CloseDialog \/ \E p \in Peers : Tabs!AskToBan(p)
  <2>1. UNCHANGED <<server, shown, asked, view, apart, sent>>
    BY <1>8 DEF Tabs!AskToApply, Tabs!CloseDialog, Tabs!AskToBan
  <2>2. TabsDialog'
    <3>1. CASE Tabs!AskToApply
      <4> DEFINE d == [is |-> "confirm", on |-> Gone]
      <4>1. dialog = <<>> /\ view.tab = "files" /\ dialog' = Append(dialog, d)
        BY <3>1 DEF Tabs!AskToApply, Tabs!On, Tabs!Closed, Tabs!Over, Tabs!Dialog
      <4>2. d \in TabDialogs /\ d.is = "confirm"
        BY DEF TabDialogs
      <4>3. dialog' = <<d>>
        BY <4>1
      <4> HIDE DEF d
      <4> QED BY <2>1, <4>1, <4>2, <4>3 DEF TabsDialog
    <3>2. ASSUME NEW p \in Peers, Tabs!AskToBan(p) PROVE TabsDialog'
      <4> DEFINE d == [is |-> "ban", on |-> p]
      <4>1. dialog = <<>> /\ view.tab = "peers" /\ dialog' = Append(dialog, d)
        BY <3>2 DEF Tabs!AskToBan, Tabs!On, Tabs!Closed, Tabs!Over, Tabs!Dialog
      <4>2. d \in TabDialogs /\ d.is = "ban"
        BY DEF TabDialogs
      <4>3. dialog' = <<d>>
        BY <4>1
      <4> HIDE DEF d
      <4> QED BY <2>1, <4>1, <4>2, <4>3 DEF TabsDialog
    <3>3. CASE Tabs!CloseDialog
      BY <1>1, <3>3 DEF Tabs!CloseDialog, TabsDialog
    <3> QED BY <1>8, <3>1, <3>2, <3>3
  <2>3. view' \in TabViews
    BY <1>1, <2>1
  <2> QED BY <2>1, <2>2, <2>3, TabsIdle
<1> QED BY <1>4, <1>5, <1>6, <1>7, <1>8

\* The requests that were under way still are, as far as anyone hears of them.
LEMMA TabsCarry ==
  ASSUME \A p \in asked : p.heard => \E r \in asked' :
           r.op = p.op /\ r.on = p.on /\ r.heard /\ (p.op # "apply" => r.to = p.to),
         \A r \in asked : r.op = "load" => r.heard
  PROVE  /\ (\E r \in asked : r.op = "load") => \E r \in asked' : r.op = "load"
         /\ FollowUp("apply", "applying") => FollowUp("apply", "applying")'
         /\ FollowUp("add", "adding") => FollowUp("add", "adding")'
         /\ \A u : FollowsUrl(u) => FollowsUrl(u)'
         /\ (\E r \in asked : r.op = "ban" /\ r.heard) => \E r \in asked' : r.op = "ban" /\ r.heard
<1>1. \A p \in asked : p.op = "load" =>
        \E r \in asked' : r.op = "load" /\ r.to = p.to
  OBVIOUS
<1>2. \A p \in asked : p.heard => \E r \in asked' : r.op = p.op /\ r.on = p.on /\ r.heard
  OBVIOUS
<1> QED BY <1>1, <1>2 DEF FollowUp, FollowsUrl

\* One more request, from the tab that is open.
LEMMA TabsJoin ==
  ASSUME TabsInv, NEW op, NEW on, NEW to, NEW saw,
         Tabs!AskSeeing(op, view.tab, on, to, saw), UNCHANGED <<server, shown>>,
         view'.tab = view.tab,
         op \in {"load", "apply", "add", "remove", "edit", "ban"},
         op = "apply" => view.tab = "files" /\ to \in Batches,
         op \in {"add", "edit", "remove"} => view.tab = "trackers" /\ on \in Urls,
         op = "ban" => view.tab = "peers" /\ on \in Peers,
         op = "add" => to = "there",
         op = "edit" => to \in Urls,
         op \in {"remove", "ban"} => to = Gone
  PROVE  /\ TabsHear' /\ TabsAgree' /\ \A r \in asked' : TabAsks(r)
         /\ sent' \in 0..Sends.tabs /\ apart' \subseteq Tabs!Tabs
         /\ \A p \in asked : \E r \in asked' : Twin(r, p)
         /\ \E r \in asked' : r.op = op /\ r.on = on /\ r.to = to /\ r.heard
<1> DEFINE q == Request(op, view.tab, on, to, saw)
<1>1. /\ asked' = Add(asked, q) /\ sent < Sends.tabs /\ sent' = sent + 1
      /\ apart' = IF asked = {} THEN apart ELSE DOMAIN shown
  BY DEF Tabs!AskSeeing, Tabs!Add, Tabs!Request, Add, Request
<1>2. /\ Asks(q) /\ q.op = op /\ q.list = view.tab /\ q.on = on /\ q.to = to
      /\ q.state = "asked" /\ q.heard
  BY RequestAsks DEF Request
<1> HIDE DEF q
<1>3. /\ \A r \in asked : TabAsks(r) /\ Asks(r)
      /\ DOMAIN shown = Tabs!Tabs /\ apart \subseteq Tabs!Tabs /\ view.tab \in Tabs!Tabs
      /\ sent \in 0..Sends.tabs /\ Sends.tabs \in Nat
  BY TabsPlain
<1>4. TabAsks(q)
  BY <1>2, <1>3 DEF TabAsks
<1>5. /\ \A r \in asked' : Asks(r) /\ \E p \in asked \cup {q} : Same(r, p)
      /\ \A p \in asked \cup {q} : \E r \in asked' : Same(r, p)
      /\ asked = {} => \A r \in asked' : asked' = {r} /\ r.alone
      /\ asked # {} => \A r \in asked' : ~r.alone
  <2> DEFINE others == asked
  <2>1. asked' = Add(others, q) /\ \A r \in others : Asks(r)
    BY <1>1, <1>3
  <2>2. /\ \A r \in asked' : Asks(r) /\ \E p \in others \cup {q} : Same(r, p)
        /\ \A p \in others \cup {q} : \E r \in asked' : Same(r, p)
        /\ others = {} => \A r \in asked' : asked' = {r} /\ r.alone
        /\ others # {} => \A r \in asked' : ~r.alone
    <3> HIDE DEF others
    <3> QED BY <1>2, <2>1, JoinAsks
  <2> QED BY <2>2
<1>6. \A r \in asked' : TabAsks(r)
  BY <1>3, <1>4, <1>5 DEF TabAsks, Same
<1>7. TabsHear'
  <2>1. \A p \in asked \cup {q} : (p.heard => p.list = view.tab)
    BY <1>2 DEF TabsInv, TabsHear
  <2>2. \A r \in asked' : r.heard => r.list = view'.tab
    BY <1>5, <2>1 DEF Same
  <2>3. \A r \in asked' : r.alone => r.heard
    BY <1>2, <1>5 DEF Same
  <2> QED BY <2>2, <2>3 DEF TabsHear
<1>8. TabsAgree'
  <2>1. ASSUME NEW r \in asked', r.alone PROVE r.state = "asked"
    BY <1>2, <1>5, <2>1 DEF Same
  <2>2. FreshLoads'
    BY <2>1 DEF FreshLoads
  <2>3. Solo'
    BY <1>1, <1>5 DEF Solo
  <2>4. ASSUME NEW list \in Tabs!Tabs, list \notin apart' PROVE TabAgrees(list)'
    <3>1. asked = {} /\ list \notin apart
      BY <1>1, <1>3, <2>4
    <3>2. \A r \in asked' : r.state = "asked"
      BY <1>5, <2>1, <3>1
    <3>3. shown[list] = server[list]
      BY <3>1 DEF TabsInv, TabsAgree, TabAgrees
    <3> QED BY <3>2, <3>3 DEF TabAgrees
  <2> QED BY <2>2, <2>3, <2>4 DEF TabsAgree
<1>9. /\ \A p \in asked : \E r \in asked' : Twin(r, p)
      /\ \E r \in asked' : r.op = op /\ r.on = on /\ r.to = to /\ r.heard
  BY <1>2, <1>5 DEF Same, Twin
<1>10. sent' \in 0..Sends.tabs /\ apart' \subseteq Tabs!Tabs
  BY <1>1, <1>3
<1> QED BY <1>6, <1>7, <1>8, <1>9, <1>10

\* A dialog closes or stays where it is.
LEMMA TabsCloses ==
  ASSUME TabsInv, dialog' = <<>> \/ (dialog' = dialog /\ view'.tab = view.tab)
  PROVE  TabsDialog'
<1>1. TabsDialog
  BY DEF TabsInv, TabsTyped
<1> QED BY <1>1 DEF TabsDialog

\* What was waited for still is.
LEMMA TabsWaits ==
  ASSUME TabsInv, \A p \in asked : \E r \in asked' : Twin(r, p)
  PROVE  /\ view.loading => \E r \in asked' : r.op = "load"
         /\ view.applying => FollowUp("apply", "applying")'
         /\ view.adding => FollowUp("add", "adding")'
         /\ \A u \in view.pendingUrls : FollowsUrl(u)'
         /\ view.banning # Gone => \E r \in asked' : r.op = "ban" /\ r.heard
<1>1. \A p \in asked : p.heard => \E r \in asked' :
        r.op = p.op /\ r.on = p.on /\ r.heard /\ (p.op # "apply" => r.to = p.to)
  BY DEF Twin
<1>2. \A r \in asked : r.op = "load" => r.heard
  BY TabsPlain DEF TabAsks
<1>3. /\ (\E r \in asked : r.op = "load") => \E r \in asked' : r.op = "load"
      /\ FollowUp("apply", "applying") => FollowUp("apply", "applying")'
      /\ FollowUp("add", "adding") => FollowUp("add", "adding")'
      /\ \A u : FollowsUrl(u) => FollowsUrl(u)'
      /\ (\E r \in asked : r.op = "ban" /\ r.heard) => \E r \in asked' : r.op = "ban" /\ r.heard
  BY <1>1, <1>2, TabsCarry
<1> QED BY <1>3 DEF TabsInv, TabsWait

\* The user asks for something.
LEMMA TabsAsk ==
  ASSUME TabsInv, BatchInv,
         \/ Tabs!Retry \/ Tabs!PerformApply \/ Tabs!HandleAdd \/ Tabs!ConfirmBan
         \/ \E u \in Urls : Tabs!HandleRemove(u) \/ Tabs!HandleEditSave(u)
  PROVE  TabsInv'
<1>1. /\ server \in TabLists({}) /\ shown \in TabLists({Gone}) /\ view \in TabViews
      /\ Tabs!CloseTop = <<>>
      /\ \/ dialog = <<>> /\ Tabs!Top.is = "none"
         \/ Tabs!Top.is = "confirm" /\ view.tab = "files"
         \/ Tabs!Top.is = "ban" /\ view.tab = "peers" /\ Tabs!Top.on \in Peers
  BY TabsPlain
<1>2. UNCHANGED <<server, shown>>
  BY DEF Tabs!Retry, Tabs!PerformApply, Tabs!HandleAdd, Tabs!ConfirmBan, Tabs!HandleRemove,
         Tabs!HandleEditSave
<1>3. ASSUME TabsHear', TabsAgree', \A r \in asked' : TabAsks(r), view' \in TabViews, TabsDialog',
             sent' \in 0..Sends.tabs, apart' \subseteq Tabs!Tabs, TabsWait'
      PROVE  TabsInv'
  <2>1. TabsTyped'
    BY <1>1, <1>2, <1>3 DEF TabsTyped
  <2> QED BY <1>3, <2>1 DEF TabsInv
<1>4. CASE Tabs!Retry
  <2> DEFINE yes == TRUE
             no == FALSE
  <2>1. /\ Tabs!AskSeeing("load", view.tab, Gone, Gone, Gone)
        /\ view' = [view EXCEPT !.loading = yes, !.error = no] /\ dialog' = dialog
    BY <1>4 DEF Tabs!Retry, Tabs!Ask
  <2>2. yes \in BOOLEAN /\ no \in BOOLEAN
    OBVIOUS
  <2> HIDE DEF yes, no
  <2>3. /\ view' \in TabViews /\ view'.tab = view.tab
        /\ view'.applying = view.applying /\ view'.adding = view.adding
        /\ view'.pendingUrls = view.pendingUrls /\ view'.banning = view.banning
    BY <1>1, <2>1, <2>2 DEF TabViews
  <2>4. /\ TabsHear' /\ TabsAgree' /\ \A r \in asked' : TabAsks(r)
        /\ sent' \in 0..Sends.tabs /\ apart' \subseteq Tabs!Tabs
        /\ \A p \in asked : \E r \in asked' : Twin(r, p)
        /\ \E r \in asked' : r.op = "load"
    BY <1>2, <2>1, <2>3, TabsJoin
  <2>5. TabsWait'
    BY <2>3, <2>4, TabsWaits DEF TabsWait
  <2> QED BY <1>3, <2>1, <2>3, <2>4, <2>5, TabsCloses
<1>5. CASE Tabs!PerformApply
  <2> DEFINE yes == TRUE
             no == FALSE
  <2>1. PICK groups \in Tabs!OrderedGroups : Tabs!AskSeeing("apply", "files", Gone, groups, Tabs!Outcome)
    BY <1>5 DEF Tabs!PerformApply
  <2>2. /\ view' = [view EXCEPT !.applying = yes, !.applyError = no]
        /\ dialog' = <<>> /\ Tabs!Top.is = "confirm" /\ Tabs!Pending # {}
    BY <1>1, <1>5 DEF Tabs!PerformApply
  <2>3. yes \in BOOLEAN /\ no \in BOOLEAN
    OBVIOUS
  <2>4. groups \in Batches
    <3>1. view.pending \in Pendings
      BY <1>1 DEF TabViews
    <3> QED BY <2>1, <2>2, <3>1, BatchComes
  <2> HIDE DEF yes, no
  <2>5. /\ view' \in TabViews /\ view'.tab = view.tab /\ view.tab = "files"
        /\ view'.loading = view.loading /\ view'.adding = view.adding
        /\ view'.pendingUrls = view.pendingUrls /\ view'.banning = view.banning
    BY <1>1, <2>2, <2>3 DEF TabViews
  <2>6. /\ TabsHear' /\ TabsAgree' /\ \A r \in asked' : TabAsks(r)
        /\ sent' \in 0..Sends.tabs /\ apart' \subseteq Tabs!Tabs
        /\ \A p \in asked : \E r \in asked' : Twin(r, p)
        /\ \E r \in asked' : r.op = "apply" /\ r.heard
    <3>1. Tabs!AskSeeing("apply", view.tab, Gone, groups, Tabs!Outcome)
      BY <2>1, <2>5
    <3> QED BY <1>2, <2>4, <2>5, <3>1, TabsJoin
  <2>7. TabsWait'
    BY <2>5, <2>6, TabsWaits DEF TabsWait, FollowUp
  <2> QED BY <1>3, <2>2, <2>5, <2>6, <2>7, TabsCloses
<1>6. CASE Tabs!HandleAdd
  <2> DEFINE yes == TRUE
  <2>1. /\ Tabs!AskSeeing("add", "trackers", view.newUrl, "there", Gone)
        /\ view' = [view EXCEPT !.adding = yes] /\ dialog' = dialog
        /\ view.tab = "trackers" /\ view.newUrl # Gone
    BY <1>6 DEF Tabs!HandleAdd, Tabs!Ask, Tabs!On
  <2>2. yes \in BOOLEAN /\ view.newUrl \in Urls
    BY <1>1, <2>1 DEF TabViews
  <2> HIDE DEF yes
  <2>3. /\ view' \in TabViews /\ view'.tab = view.tab
        /\ view'.loading = view.loading /\ view'.applying = view.applying
        /\ view'.pendingUrls = view.pendingUrls /\ view'.banning = view.banning
    BY <1>1, <2>1, <2>2 DEF TabViews
  <2>4. /\ TabsHear' /\ TabsAgree' /\ \A r \in asked' : TabAsks(r)
        /\ sent' \in 0..Sends.tabs /\ apart' \subseteq Tabs!Tabs
        /\ \A p \in asked : \E r \in asked' : Twin(r, p)
        /\ \E r \in asked' : r.op = "add" /\ r.heard
    <3>1. Tabs!AskSeeing("add", view.tab, view.newUrl, "there", Gone)
      BY <2>1
    <3> QED BY <1>2, <2>1, <2>2, <2>3, <3>1, TabsJoin
  <2>5. TabsWait'
    BY <2>3, <2>4, TabsWaits DEF TabsWait, FollowUp
  <2> QED BY <1>3, <2>1, <2>3, <2>4, <2>5, TabsCloses
<1>7. CASE Tabs!ConfirmBan
  <2> DEFINE peer == Tabs!Top.on
  <2>1. /\ Tabs!AskSeeing("ban", "peers", peer, Gone, Gone)
        /\ view' = [view EXCEPT !.banning = peer] /\ dialog' = <<>>
        /\ Tabs!Top.is = "ban"
    BY <1>1, <1>7 DEF Tabs!ConfirmBan, Tabs!Ask
  <2>2. peer \in Peers /\ view.tab = "peers"
    BY <1>1, <2>1
  <2> HIDE DEF peer
  <2>3. /\ view' \in TabViews /\ view'.tab = view.tab
        /\ view'.loading = view.loading /\ view'.applying = view.applying
        /\ view'.pendingUrls = view.pendingUrls /\ view'.adding = view.adding
    BY <1>1, <2>1, <2>2 DEF TabViews
  <2>4. /\ TabsHear' /\ TabsAgree' /\ \A r \in asked' : TabAsks(r)
        /\ sent' \in 0..Sends.tabs /\ apart' \subseteq Tabs!Tabs
        /\ \A p \in asked : \E r \in asked' : Twin(r, p)
        /\ \E r \in asked' : r.op = "ban" /\ r.heard
    <3>1. Tabs!AskSeeing("ban", view.tab, peer, Gone, Gone)
      BY <2>1, <2>2
    <3> QED BY <1>2, <2>1, <2>2, <2>3, <3>1, TabsJoin
  <2>5. TabsWait'
    BY <2>3, <2>4, TabsWaits DEF TabsWait
  <2> QED BY <1>3, <2>1, <2>3, <2>4, <2>5, TabsCloses
<1>8. ASSUME NEW op \in {"remove", "edit"}, NEW url \in Urls, NEW to,
             Tabs!AskSeeing(op, "trackers", url, to, Gone),
             view' = [view EXCEPT !.pendingUrls = view.pendingUrls \cup {url}],
             dialog' = dialog, view.tab = "trackers",
             op = "remove" => to = Gone, op = "edit" => to \in Urls
      PROVE  TabsInv'
  <2>1. /\ view' \in TabViews /\ view'.tab = view.tab
        /\ view'.loading = view.loading /\ view'.applying = view.applying
        /\ view'.adding = view.adding /\ view'.banning = view.banning
        /\ view'.pendingUrls = view.pendingUrls \cup {url}
    BY <1>1, <1>8 DEF TabViews
  <2>2. /\ TabsHear' /\ TabsAgree' /\ \A r \in asked' : TabAsks(r)
        /\ sent' \in 0..Sends.tabs /\ apart' \subseteq Tabs!Tabs
        /\ \A p \in asked : \E r \in asked' : Twin(r, p)
        /\ \E r \in asked' : r.op = op /\ r.on = url /\ r.heard
    <3>1. Tabs!AskSeeing(op, view.tab, url, to, Gone)
      BY <1>8
    <3> QED BY <1>2, <1>8, <2>1, <3>1, TabsJoin
  <2>3. FollowsUrl(url)'
    BY <1>8, <2>2 DEF FollowsUrl
  <2>4. TabsWait'
    BY <2>1, <2>2, <2>3, TabsWaits DEF TabsWait
  <2> QED BY <1>3, <1>8, <2>1, <2>2, <2>4, TabsCloses
<1>9. ASSUME NEW u \in Urls, Tabs!HandleRemove(u) PROVE TabsInv'
  <2> DEFINE op == "remove"
  <2>1. /\ Tabs!AskSeeing(op, "trackers", u, Gone, Gone)
        /\ view' = [view EXCEPT !.pendingUrls = view.pendingUrls \cup {u}] /\ dialog' = dialog
        /\ view.tab = "trackers"
    BY <1>9 DEF Tabs!HandleRemove, Tabs!Ask, Tabs!On
  <2>2. op \in {"remove", "edit"} /\ op # "edit"
    OBVIOUS
  <2> HIDE DEF op
  <2> QED BY <1>8, <2>1, <2>2
<1>10. ASSUME NEW u \in Urls, Tabs!HandleEditSave(u) PROVE TabsInv'
  <2> DEFINE op == "edit"
             url == view.editing
  <2>1. /\ Tabs!AskSeeing(op, "trackers", url, u, Gone)
        /\ view' = [view EXCEPT !.pendingUrls = view.pendingUrls \cup {url}] /\ dialog' = dialog
        /\ view.tab = "trackers" /\ url \in Tabs!Members(view.tab)
    BY <1>10 DEF Tabs!HandleEditSave, Tabs!Ask, Tabs!On, Tabs!Rows
  <2>2. op \in {"remove", "edit"} /\ op # "remove" /\ url \in Urls
    BY <2>1 DEF Tabs!Members
  <2> HIDE DEF op, url
  <2> QED BY <1>8, <2>1, <2>2
<1> QED BY <1>4, <1>5, <1>6, <1>7, <1>9, <1>10

\* A request is taken, and what it brought or did is shown.
LEMMA TabsTaken ==
  ASSUME TabsInv, NEW r \in asked, Tabs!Land(r), server' = server, view'.tab = view.tab,
         \/ shown' = shown /\ (r.state = "refused" \/ (~r.heard /\ r.op # "load"))
         \/ r.op = "load" /\ r.state = "done" /\ shown' = [shown EXCEPT ![r.list] = r.saw]
         \/ /\ r.op \in {"remove", "ban"} /\ r.state = "done"
            /\ shown' = [shown EXCEPT ![r.list] = [shown[r.list] EXCEPT ![r.on] = Gone]]
  PROVE  /\ TabsHear' /\ TabsAgree' /\ \A q \in asked' : TabAsks(q)
         /\ sent' \in 0..Sends.tabs /\ apart' \subseteq Tabs!Tabs /\ shown' \in TabLists({Gone})
<1>1. /\ asked' = asked \ {r} /\ sent' = sent
      /\ apart' = IF r.op = "load" /\ r.state = "done" /\ r.alone THEN apart \ {r.list} ELSE apart
  BY DEF Tabs!Land
<1>2. /\ \A q \in asked : TabAsks(q)
      /\ TabAsks(r) /\ r.list \in Tabs!Tabs /\ Tabs!Tabs = {"files", "trackers", "peers"}
      /\ DOMAIN shown = Tabs!Tabs /\ apart \subseteq Tabs!Tabs /\ shown \in TabLists({Gone})
      /\ sent \in 0..Sends.tabs
  BY TabsPlain DEF TabAsks
<1>3. Solo /\ FreshLoads /\ TabsHear /\ \A list \in Tabs!Tabs \ apart : TabAgrees(list)
  BY DEF TabsInv, TabsAgree
<1>4. shown' \in TabLists({Gone})
  <2>1. CASE shown' = shown
    BY <1>2, <2>1
  <2>2. CASE r.op = "load" /\ r.state = "done" /\ shown' = [shown EXCEPT ![r.list] = r.saw]
    <3>1. r.saw \in TabCopies(r.list)
      BY <1>2, <2>2 DEF TabAsks
    <3>2. CASE r.list = "files"
      BY <1>2, <2>2, <3>1, <3>2 DEF TabLists, TabCopies
    <3>3. CASE r.list = "trackers"
      BY <1>2, <2>2, <3>1, <3>3 DEF TabLists, TabCopies
    <3>4. CASE r.list = "peers"
      BY <1>2, <2>2, <3>1, <3>4 DEF TabLists, TabCopies
    <3> QED BY <1>2, <3>2, <3>3, <3>4
  <2>3. CASE /\ r.op = "remove"
             /\ shown' = [shown EXCEPT ![r.list] = [shown[r.list] EXCEPT ![r.on] = Gone]]
    <3>1. r.list = "trackers" /\ r.on \in Urls
      BY <1>2, <2>3 DEF TabAsks
    <3>2. [shown.trackers EXCEPT ![r.on] = Gone] \in [Urls -> {"there", Gone}]
      BY <1>2, <3>1 DEF TabLists
    <3> QED BY <1>2, <2>3, <3>1, <3>2 DEF TabLists
  <2>4. CASE /\ r.op = "ban"
             /\ shown' = [shown EXCEPT ![r.list] = [shown[r.list] EXCEPT ![r.on] = Gone]]
    <3>1. r.list = "peers" /\ r.on \in Peers
      BY <1>2, <2>4 DEF TabAsks
    <3>2. [shown.peers EXCEPT ![r.on] = Gone] \in [Peers -> {"there", Gone}]
      BY <1>2, <3>1 DEF TabLists
    <3> QED BY <1>2, <2>4, <3>1, <3>2 DEF TabLists
  <2> QED BY <2>1, <2>2, <2>3, <2>4
<1>5. TabsHear'
  BY <1>1, <1>3 DEF TabsHear
<1>6. DOMAIN shown' = Tabs!Tabs
  BY <1>2, <1>4 DEF TabLists
<1>7. r.alone \/ Tabs!Tabs \subseteq apart'
  BY <1>1, <1>2, <1>3 DEF Solo
<1>8. r.alone => asked = {r} /\ asked' = {} /\ r.heard
  BY <1>1, <1>3 DEF Solo, TabsHear
<1>9. Solo' /\ FreshLoads'
  <2>1. Solo'
    BY <1>1, <1>2, <1>3, <1>6 DEF Solo
  <2>2. FreshLoads'
    BY <1>1, <1>3 DEF FreshLoads
  <2> QED BY <2>1, <2>2
<1>10. ASSUME NEW list \in Tabs!Tabs, list \notin apart' PROVE shown'[list] = server[list]
  <2>1. r.alone /\ asked = {r} /\ r.heard
    BY <1>7, <1>8, <1>10
  <2>2. CASE shown' = shown /\ (r.state = "refused" \/ (~r.heard /\ r.op # "load"))
    <3>1. r.state = "refused" /\ apart' = apart
      BY <1>1, <2>1, <2>2
    <3>2. TabAgrees(list)
      BY <1>3, <1>10, <3>1
    <3> QED BY <2>1, <2>2, <3>1, <3>2 DEF TabAgrees
  <2>3. CASE r.op = "load" /\ r.state = "done" /\ shown' = [shown EXCEPT ![r.list] = r.saw]
    <3>1. CASE list = r.list
      <4>1. shown'[list] = r.saw
        BY <1>2, <2>3, <3>1
      <4> QED BY <1>3, <2>1, <2>3, <3>1, <4>1 DEF FreshLoads
    <3>2. CASE list # r.list
      <4>1. list \notin apart /\ shown'[list] = shown[list]
        BY <1>1, <1>2, <1>10, <2>3, <3>2
      <4>2. TabAgrees(list)
        BY <1>3, <4>1
      <4> QED BY <2>1, <2>3, <4>1, <4>2 DEF TabAgrees
    <3> QED BY <3>1, <3>2
  <2>4. CASE /\ r.op \in {"remove", "ban"} /\ r.state = "done"
             /\ shown' = [shown EXCEPT ![r.list] = [shown[r.list] EXCEPT ![r.on] = Gone]]
    <3>1. apart' = apart /\ TabAgrees(list)
      BY <1>1, <1>3, <1>10, <2>4
    <3>2. CASE list = r.list
      <4>1. shown'[list] = [shown[list] EXCEPT ![r.on] = Gone]
        BY <1>2, <2>4, <3>2
      <4>2. server[list] = [shown[list] EXCEPT ![r.on] = Gone]
        BY <2>4, <3>1, <3>2 DEF TabAgrees
      <4> QED BY <4>1, <4>2
    <3>3. CASE list # r.list
      <4>1. shown'[list] = shown[list]
        BY <1>2, <2>4, <3>3
      <4> QED BY <2>1, <3>1, <3>3, <4>1 DEF TabAgrees
    <3> QED BY <3>2, <3>3
  <2> QED BY <2>2, <2>3, <2>4
<1>11. ASSUME NEW list \in Tabs!Tabs, list \notin apart' PROVE TabAgrees(list)'
  <2>1. asked' = {}
    BY <1>7, <1>8, <1>11
  <2>2. shown'[list] = server'[list]
    BY <1>10, <1>11
  <2> QED BY <2>1, <2>2 DEF TabAgrees
<1>12. TabsAgree'
  BY <1>9, <1>11 DEF TabsAgree
<1> QED BY <1>1, <1>2, <1>4, <1>5, <1>12

\* What is still waited for when a request is taken.
LEMMA TabsEnds ==
  ASSUME TabsInv, NEW r \in asked, asked' = asked \ {r}
  PROVE  /\ view.loading /\ r.op # "load" => \E q \in asked' : q.op = "load"
         /\ view.applying /\ (r.op = "apply" => ~r.heard) /\ (r.op = "load" => r.to # "applying") =>
              FollowUp("apply", "applying")'
         /\ view.adding /\ (r.op = "add" => ~r.heard) /\ (r.op = "load" => r.to # "adding") =>
              FollowUp("add", "adding")'
         /\ \A u \in view.pendingUrls :
              (r.op \in {"remove", "edit"} => ~r.heard \/ r.on # u) /\ (r.op = "load" => r.to # u)
                => FollowsUrl(u)'
         /\ view.banning # Gone /\ (r.op = "ban" => ~r.heard) => \E q \in asked' : q.op = "ban" /\ q.heard
  BY DEF TabsInv, TabsWait, FollowUp, FollowsUrl

LEMMA TabsLandKeeps ==
  ASSUME TabsInv,
         \/ Tabs!TabLoaded \/ Tabs!AppliedUnheard \/ Tabs!ApplyRefused \/ Tabs!AddRefused
         \/ Tabs!Removed \/ Tabs!ChangeRefused \/ Tabs!Banned
         \/ Tabs!NobodyHears({"add", "remove", "edit", "ban"})
  PROVE  TabsInv'
<1>1. /\ server \in TabLists({}) /\ view \in TabViews
      /\ \A r \in asked : TabAsks(r)
  BY TabsPlain
<1>2. /\ server' = server /\ dialog' = dialog
  BY DEF Tabs!TabLoaded, Tabs!AppliedUnheard, Tabs!ApplyRefused, Tabs!AddRefused, Tabs!Removed,
         Tabs!ChangeRefused, Tabs!Banned, Tabs!NobodyHears
<1>3. ASSUME NEW r \in asked, Tabs!Land(r),
             \/ shown' = shown /\ (r.state = "refused" \/ (~r.heard /\ r.op # "load"))
             \/ r.op = "load" /\ r.state = "done" /\ shown' = [shown EXCEPT ![r.list] = r.saw]
             \/ /\ r.op \in {"remove", "ban"} /\ r.state = "done"
                /\ shown' = [shown EXCEPT ![r.list] = [shown[r.list] EXCEPT ![r.on] = Gone]],
             view' \in TabViews, view'.tab = view.tab, TabsWait'
      PROVE  TabsInv'
  <2>1. /\ TabsHear' /\ TabsAgree' /\ \A q \in asked' : TabAsks(q)
        /\ sent' \in 0..Sends.tabs /\ apart' \subseteq Tabs!Tabs /\ shown' \in TabLists({Gone})
    BY <1>2, <1>3, TabsTaken
  <2>2. TabsDialog'
    BY <1>2, <1>3, TabsCloses
  <2>3. TabsTyped'
    BY <1>1, <1>2, <1>3, <2>1, <2>2 DEF TabsTyped
  <2> QED BY <1>3, <2>1, <2>3 DEF TabsInv
<1>4. ASSUME NEW r \in asked, Tabs!Land(r) PROVE asked' = asked \ {r}
  BY <1>4 DEF Tabs!Land
<1>5. CASE Tabs!AppliedUnheard \/ Tabs!NobodyHears({"add", "remove", "edit", "ban"})
  <2>1. PICK r \in asked : r.op # "load" /\ ~r.heard /\ Tabs!Land(r)
    BY <1>5 DEF Tabs!AppliedUnheard, Tabs!NobodyHears
  <2>2. shown' = shown /\ view' = view
    BY <1>5 DEF Tabs!AppliedUnheard, Tabs!NobodyHears
  <2>3. asked' = asked \ {r}
    BY <1>4, <2>1
  <2>4. TabsWait'
    BY <2>1, <2>2, <2>3, TabsEnds DEF TabsWait
  <2> QED BY <1>1, <1>3, <2>1, <2>2, <2>4
<1>6. CASE Tabs!ApplyRefused
  <2> DEFINE yes == TRUE
             no == FALSE
  <2>1. PICK r \in asked : r.op = "apply" /\ r.state = "refused" /\ Tabs!Land(r)
    BY <1>6 DEF Tabs!ApplyRefused, Tabs!Answers
  <2>2. shown' = shown /\ view' = [view EXCEPT !.applying = no, !.applyError = yes]
    BY <1>6 DEF Tabs!ApplyRefused
  <2>3. asked' = asked \ {r}
    BY <1>4, <2>1
  <2>4. no = FALSE /\ yes = TRUE
    OBVIOUS
  <2> HIDE DEF yes, no
  <2>5. /\ view' \in TabViews /\ view'.tab = view.tab /\ view'.applying = no
        /\ view'.loading = view.loading /\ view'.adding = view.adding
        /\ view'.pendingUrls = view.pendingUrls /\ view'.banning = view.banning
    BY <1>1, <2>2, <2>4 DEF TabViews
  <2>6. TabsWait'
    BY <2>1, <2>3, <2>4, <2>5, TabsEnds DEF TabsWait
  <2> QED BY <1>3, <2>1, <2>2, <2>5, <2>6
<1>7. CASE Tabs!AddRefused
  <2> DEFINE no == FALSE
  <2>1. PICK r \in asked : r.op = "add" /\ r.state = "refused" /\ Tabs!Land(r)
    BY <1>7 DEF Tabs!AddRefused, Tabs!Answers
  <2>2. shown' = shown /\ view' = [view EXCEPT !.adding = no]
    BY <1>7 DEF Tabs!AddRefused
  <2>3. asked' = asked \ {r}
    BY <1>4, <2>1
  <2>4. no = FALSE
    OBVIOUS
  <2> HIDE DEF no
  <2>5. /\ view' \in TabViews /\ view'.tab = view.tab /\ view'.adding = no
        /\ view'.loading = view.loading /\ view'.applying = view.applying
        /\ view'.pendingUrls = view.pendingUrls /\ view'.banning = view.banning
    BY <1>1, <2>2, <2>4 DEF TabViews
  <2>6. TabsWait'
    BY <2>1, <2>3, <2>4, <2>5, TabsEnds DEF TabsWait
  <2> QED BY <1>3, <2>1, <2>2, <2>5, <2>6
<1>8. CASE Tabs!Removed \/ Tabs!ChangeRefused
  <2>1. PICK r \in asked :
          /\ r.op \in {"remove", "edit"} /\ Tabs!Land(r)
          /\ view' = [view EXCEPT !.pendingUrls = view.pendingUrls \ {r.on}]
          /\ \/ shown' = shown /\ r.state = "refused"
             \/ r.op = "remove" /\ r.state = "done" /\ shown' = [shown EXCEPT !.trackers[r.on] = Gone]
    BY <1>8 DEF Tabs!Removed, Tabs!ChangeRefused, Tabs!Answers
  <2>2. r.op = "remove" => r.list = "trackers"
    BY <1>1 DEF TabAsks
  <2>3. \/ shown' = shown /\ r.state = "refused"
        \/ /\ r.op = "remove" /\ r.state = "done"
           /\ shown' = [shown EXCEPT ![r.list] = [shown[r.list] EXCEPT ![r.on] = Gone]]
    BY <2>1, <2>2
  <2>4. asked' = asked \ {r}
    BY <1>4, <2>1
  <2>5. /\ view' \in TabViews /\ view'.tab = view.tab /\ view'.adding = view.adding
        /\ view'.loading = view.loading /\ view'.applying = view.applying
        /\ view'.pendingUrls = view.pendingUrls \ {r.on} /\ view'.banning = view.banning
    BY <1>1, <2>1 DEF TabViews
  <2>6. \A u \in view'.pendingUrls : FollowsUrl(u)'
    BY <2>1, <2>4, <2>5, TabsEnds
  <2>7. TabsWait'
    BY <2>1, <2>4, <2>5, <2>6, TabsEnds DEF TabsWait
  <2> QED BY <1>3, <2>1, <2>3, <2>5, <2>7
<1>9. CASE Tabs!Banned
  <2>1. PICK r \in asked :
          /\ r.op = "ban" /\ r.state \in {"done", "refused"} /\ Tabs!Land(r)
          /\ shown' = IF r.state = "done" THEN [shown EXCEPT !.peers[r.on] = Gone] ELSE shown
    BY <1>9 DEF Tabs!Banned, Tabs!Answers
  <2>2. r.list = "peers"
    BY <1>1, <2>1 DEF TabAsks
  <2>3. \/ shown' = shown /\ r.state = "refused"
        \/ /\ r.op = "ban" /\ r.state = "done"
           /\ shown' = [shown EXCEPT ![r.list] = [shown[r.list] EXCEPT ![r.on] = Gone]]
    BY <2>1, <2>2
  <2>4. asked' = asked \ {r} /\ view' = [view EXCEPT !.banning = Gone]
    BY <1>4, <1>9, <2>1 DEF Tabs!Banned
  <2>5. /\ view' \in TabViews /\ view'.tab = view.tab /\ view'.adding = view.adding
        /\ view'.loading = view.loading /\ view'.applying = view.applying
        /\ view'.pendingUrls = view.pendingUrls /\ view'.banning = Gone
    BY <1>1, <2>4 DEF TabViews
  <2>6. TabsWait'
    BY <2>1, <2>4, <2>5, TabsEnds DEF TabsWait
  <2> QED BY <1>3, <2>1, <2>3, <2>5, <2>6
<1>10. CASE Tabs!TabLoaded
  <2>1. PICK r \in asked :
          /\ r.op = "load" /\ r.state \in {"done", "refused"} /\ Tabs!Land(r)
          /\ shown' = IF r.state = "done" THEN [shown EXCEPT ![r.list] = r.saw] ELSE shown
          /\ view' = [view EXCEPT !.loading = FALSE, !.error = @ \/ r.state = "refused",
                        !.pending = IF r.list = "files" /\ r.state = "done" THEN Tabs!Blank("files") ELSE @,
                        !.applying = @ /\ r.to # "applying", !.adding = @ /\ r.to # "adding",
                        !.pendingUrls = @ \ {r.to}]
    BY <1>10 DEF Tabs!TabLoaded, Tabs!Answers
  <2> DEFINE pending == IF r.list = "files" /\ r.state = "done"
                        THEN Tabs!Blank("files") ELSE view.pending
             error == view.error \/ r.state = "refused"
             applying == view.applying /\ r.to # "applying"
             adding == view.adding /\ r.to # "adding"
             urls == view.pendingUrls \ {r.to}
             no == FALSE
  <2>2. /\ pending \in Pendings /\ error \in BOOLEAN /\ applying \in BOOLEAN /\ adding \in BOOLEAN
        /\ urls \in SUBSET Urls /\ no \in BOOLEAN
    BY <1>1, BlankHolds DEF TabViews
  <2>3. view' = [view EXCEPT !.loading = no, !.error = error, !.pending = pending,
                             !.applying = applying, !.adding = adding, !.pendingUrls = urls]
    BY <2>1
  <2>4. asked' = asked \ {r}
    BY <1>4, <2>1
  <2>5. /\ applying => view.applying /\ r.to # "applying"
        /\ adding => view.adding /\ r.to # "adding"
        /\ urls = view.pendingUrls \ {r.to} /\ ~no
    OBVIOUS
  <2> HIDE DEF pending, error, applying, adding, urls, no
  <2>6. /\ view' \in TabViews /\ view'.tab = view.tab /\ view'.adding = adding
        /\ view'.loading = no /\ view'.applying = applying
        /\ view'.pendingUrls = urls /\ view'.banning = view.banning
    <3> DEFINE v == [view EXCEPT !.loading = no, !.error = error, !.pending = pending]
               w == [v EXCEPT !.applying = applying, !.adding = adding, !.pendingUrls = urls]
    <3>1. /\ v \in TabViews /\ v.loading = no /\ v.tab = view.tab /\ v.banning = view.banning
      BY <1>1, <2>2 DEF TabViews
    <3>2. view' = w
      BY <1>1, <2>3 DEF TabViews
    <3> HIDE DEF v
    <3>3. /\ w \in TabViews /\ w.loading = v.loading /\ w.tab = v.tab /\ w.banning = v.banning
          /\ w.applying = applying /\ w.adding = adding /\ w.pendingUrls = urls
      BY <2>2, <3>1 DEF TabViews
    <3> HIDE DEF w
    <3> QED BY <3>1, <3>2, <3>3
  <2>7. \A u \in view'.pendingUrls : FollowsUrl(u)'
    BY <2>1, <2>4, <2>5, <2>6, TabsEnds
  <2>8. TabsWait'
    BY <2>1, <2>4, <2>5, <2>6, <2>7, TabsEnds DEF TabsWait
  <2> QED BY <1>3, <2>1, <2>6, <2>8
<1> QED BY <1>5, <1>6, <1>7, <1>8, <1>9, <1>10

\* Some requests are left, and one more is sent.
LEMMA TabsFollow ==
  ASSUME TabsInv, NEW others, \A p \in others : TabAsks(p), NEW list \in Tabs!Tabs, NEW to,
         asked' = Add(others, Request("load", list, Gone, to, Gone))
  PROVE  /\ \A r \in asked' : TabAsks(r) /\ \E p \in others \cup {Request("load", list, Gone, to, Gone)} : Same(r, p)
         /\ \A p \in others : \E r \in asked' : Twin(r, p)
         /\ \E r \in asked' : r.op = "load" /\ r.list = list /\ r.to = to
         /\ others = {} => \A r \in asked' :
              asked' = {r} /\ r.alone /\ r.heard /\ r.list = list /\ r.op = "load" /\ r.state = "asked"
         /\ others # {} => \A r \in asked' : ~r.alone
<1> DEFINE q == Request("load", list, Gone, to, Gone)
<1>1. /\ Asks(q) /\ q.op = "load" /\ q.list = list /\ q.to = to /\ q.state = "asked" /\ q.heard
  BY RequestAsks DEF Request
<1>2. asked' = Add(others, q)
  OBVIOUS
<1> HIDE DEF q
<1>3. TabAsks(q)
  BY <1>1 DEF TabAsks
<1>4. \A p \in others : Asks(p)
  BY DEF TabAsks
<1>5. /\ \A r \in asked' : Asks(r) /\ \E p \in others \cup {q} : Same(r, p)
      /\ \A p \in others \cup {q} : \E r \in asked' : Same(r, p)
      /\ others = {} => \A r \in asked' : asked' = {r} /\ r.alone
      /\ others # {} => \A r \in asked' : ~r.alone
  BY <1>1, <1>2, <1>4, JoinAsks
<1>6. \A r \in asked' : TabAsks(r)
  BY <1>3, <1>5 DEF TabAsks, Same
<1>7. /\ \A p \in others : \E r \in asked' : Twin(r, p)
      /\ \E r \in asked' : r.op = "load" /\ r.list = list /\ r.to = to
  BY <1>1, <1>5 DEF Same, Twin
<1>8. others = {} => \A r \in asked' :
        asked' = {r} /\ r.alone /\ r.heard /\ r.list = list /\ r.op = "load" /\ r.state = "asked"
  BY <1>1, <1>5 DEF Same
<1> QED BY <1>5, <1>6, <1>7, <1>8 DEF q

LEMMA TabsOpen ==
  ASSUME TabsInv, NEW tab \in Tabs!Tabs, Tabs!OpenTab(tab) PROVE TabsInv'
<1> DEFINE going == {r \in Tabs!Unheard : r.op # "load"}
           q == Request("load", tab, Gone, Gone, Gone)
<1>1. /\ asked' = Add(going, q) /\ sent < Sends.tabs /\ sent' = sent + 1
      /\ shown' = [shown EXCEPT ![tab] = Tabs!Blank(tab)] /\ view' = Tabs!Fresh(tab)
      /\ apart' = DOMAIN shown /\ server' = server /\ dialog' = dialog /\ dialog = <<>>
  BY DEF Tabs!OpenTab, Tabs!Add, Tabs!Request, Add, Request, Tabs!Closed
<1>2. /\ server \in TabLists({}) /\ shown \in TabLists({Gone}) /\ DOMAIN shown = Tabs!Tabs
      /\ sent \in 0..Sends.tabs /\ Sends.tabs \in Nat
      /\ \A r \in asked : TabAsks(r) /\ Asks(r)
  BY TabsPlain
<1>3. ASSUME NEW p \in going PROVE TabAsks(p) /\ ~p.heard
  <2>1. PICK r \in asked : p = [r EXCEPT !.heard = FALSE]
    BY DEF Tabs!Unheard
  <2> DEFINE s == [r EXCEPT !.heard = FALSE]
  <2>2. /\ Asks(s) /\ s.op = r.op /\ s.list = r.list /\ s.on = r.on /\ s.to = r.to
        /\ s.state = r.state /\ s.alone = r.alone /\ s.heard = FALSE /\ s.saw = r.saw
    BY <1>2, UnheardAsks
  <2> HIDE DEF s
  <2>3. s.op # "load"
    BY <2>1 DEF s
  <2>4. TabAsks(s)
    BY <1>2, <2>2, <2>3 DEF TabAsks
  <2> QED BY <2>1, <2>2, <2>4 DEF s
<1>4. /\ \A r \in asked' : TabAsks(r) /\ \E p \in going \cup {q} : Same(r, p)
      /\ \E r \in asked' : r.op = "load"
      /\ going = {} => \A r \in asked' :
           asked' = {r} /\ r.alone /\ r.heard /\ r.list = tab /\ r.op = "load" /\ r.state = "asked"
      /\ going # {} => \A r \in asked' : ~r.alone
  <2> DEFINE others == going
  <2>1. asked' = Add(others, Request("load", tab, Gone, Gone, Gone)) /\ \A p \in others : TabAsks(p)
    BY <1>1, <1>3
  <2>2. /\ \A r \in asked' : TabAsks(r) /\ \E p \in others \cup {q} : Same(r, p)
        /\ \E r \in asked' : r.op = "load"
        /\ others = {} => \A r \in asked' :
             asked' = {r} /\ r.alone /\ r.heard /\ r.list = tab /\ r.op = "load" /\ r.state = "asked"
        /\ others # {} => \A r \in asked' : ~r.alone
    <3> HIDE DEF others
    <3> QED BY <2>1, TabsFollow
  <2> QED BY <2>2
<1>5. q.list = tab
  BY DEF Request
<1>6. view' \in TabViews /\ view'.tab = tab /\ view'.applying = FALSE /\ view'.adding = FALSE
      /\ view'.pendingUrls = {} /\ view'.banning = Gone
  <2>1. Tabs!Blank("files") \in Pendings
    BY BlankHolds
  <2> QED BY <1>1, <2>1 DEF Tabs!Fresh, TabViews
<1>7. shown' \in TabLists({Gone})
  <2>1. Tabs!Blank(tab) \in TabCopies(tab)
    BY DEF Tabs!Blank, Tabs!Members, TabCopies, Tabs!Tabs
  <2>2. CASE tab = "files"
    BY <1>1, <1>2, <2>1, <2>2 DEF TabLists, TabCopies
  <2>3. CASE tab = "trackers"
    BY <1>1, <1>2, <2>1, <2>3 DEF TabLists, TabCopies
  <2>4. CASE tab = "peers"
    BY <1>1, <1>2, <2>1, <2>4 DEF TabLists, TabCopies
  <2> QED BY <2>2, <2>3, <2>4 DEF Tabs!Tabs
<1> HIDE DEF going, q
<1>8. TabsTyped'
  <2>1. TabsDialog'
    BY <1>1 DEF TabsDialog
  <2>2. sent' \in 0..Sends.tabs
    BY <1>1, <1>2
  <2> QED BY <1>1, <1>2, <1>6, <1>7, <2>1, <2>2 DEF TabsTyped
<1>9. TabsHear'
  <2>1. \A r \in asked' : r.heard => r.list = view'.tab
    BY <1>3, <1>4, <1>5, <1>6 DEF Same
  <2>2. \A r \in asked' : r.alone => r.heard
    BY <1>4
  <2> QED BY <2>1, <2>2 DEF TabsHear
<1>10. TabsAgree'
  <2>1. DOMAIN shown' = Tabs!Tabs
    BY <1>1, <1>2
  <2>2. Solo'
    BY <1>1, <1>2, <1>4, <2>1 DEF Solo
  <2>3. FreshLoads'
    BY <1>4 DEF FreshLoads
  <2> QED BY <1>1, <1>2, <2>2, <2>3 DEF TabsAgree
<1>11. TabsWait'
  BY <1>4, <1>6 DEF TabsWait
<1> QED BY <1>4, <1>8, <1>9, <1>10, <1>11 DEF TabsInv

\* A change is done, and the list is loaded again.
LEMMA TabsReload ==
  ASSUME TabsInv, NEW r \in asked, r.op \in {"apply", "add", "edit"}, r.state = "done", r.heard,
         NEW to, Tabs!LoadAfter(r, to), UNCHANGED <<server, shown>>, view'.tab = view.tab
  PROVE  /\ TabsHear' /\ TabsAgree' /\ \A q \in asked' : TabAsks(q)
         /\ sent' \in 0..Sends.tabs /\ apart' \subseteq Tabs!Tabs
         /\ \A p \in asked \ {r} : \E q \in asked' : Twin(q, p)
         /\ \E q \in asked' : q.op = "load" /\ q.to = to
<1> DEFINE others == asked \ {r}
           q == Request("load", view.tab, Gone, to, Gone)
<1>1. /\ asked' = Add(others, q) /\ sent < Sends.tabs /\ sent' = sent + 1
      /\ apart' = apart \cup {view.tab}
  BY DEF Tabs!LoadAfter, Tabs!Add, Tabs!Request, Add, Request
<1>2. /\ \A p \in asked : TabAsks(p)
      /\ DOMAIN shown = Tabs!Tabs /\ apart \subseteq Tabs!Tabs /\ view.tab \in Tabs!Tabs
      /\ sent \in 0..Sends.tabs /\ Sends.tabs \in Nat
  BY TabsPlain
<1>3. Solo /\ TabsHear /\ \A list \in Tabs!Tabs \ apart : TabAgrees(list)
  BY DEF TabsInv, TabsAgree
<1>4. others \subseteq asked /\ (r.alone => others = {}) /\ (~r.alone => Tabs!Tabs \subseteq apart)
  BY <1>2, <1>3 DEF Solo
<1>5. q.list = view.tab
  BY DEF Request
<1>6. /\ \A s \in asked' : TabAsks(s) /\ \E p \in others \cup {q} : Same(s, p)
      /\ \A p \in others : \E s \in asked' : Twin(s, p)
      /\ \E s \in asked' : s.op = "load" /\ s.to = to
      /\ others = {} => \A s \in asked' :
           asked' = {s} /\ s.alone /\ s.heard /\ s.list = view.tab /\ s.op = "load" /\ s.state = "asked"
      /\ others # {} => \A s \in asked' : ~s.alone
  <2>1. asked' = Add(others, Request("load", view.tab, Gone, to, Gone)) /\ \A p \in others : TabAsks(p)
    BY <1>1, <1>2
  <2> DEFINE tab == view.tab
  <2>2. tab \in Tabs!Tabs
    BY <1>2
  <2>3. asked' = Add(others, Request("load", tab, Gone, to, Gone))
    BY <2>1
  <2> HIDE DEF others, tab
  <2>4. /\ \A s \in asked' : TabAsks(s) /\ \E p \in others \cup {Request("load", tab, Gone, to, Gone)} : Same(s, p)
        /\ \A p \in others : \E s \in asked' : Twin(s, p)
        /\ \E s \in asked' : s.op = "load" /\ s.list = tab /\ s.to = to
        /\ others = {} => \A s \in asked' :
             asked' = {s} /\ s.alone /\ s.heard /\ s.list = tab /\ s.op = "load" /\ s.state = "asked"
        /\ others # {} => \A s \in asked' : ~s.alone
    BY <2>1, <2>2, <2>3, TabsFollow
  <2> QED BY <2>4 DEF tab
<1> HIDE DEF others, q
<1>7. TabsHear'
  <2>1. \A p \in others \cup {q} : p.heard => p.list = view.tab
    BY <1>3, <1>4, <1>5 DEF TabsHear
  <2>2. \A s \in asked' : s.heard => s.list = view'.tab
    BY <1>6, <2>1 DEF Same
  <2>3. \A s \in asked' : s.alone => s.heard
    BY <1>6
  <2> QED BY <2>2, <2>3 DEF TabsHear
<1>8. TabsAgree'
  <2>1. Solo'
    BY <1>1, <1>2, <1>4, <1>6 DEF Solo
  <2>2. FreshLoads'
    BY <1>6 DEF FreshLoads
  <2>3. ASSUME NEW list \in Tabs!Tabs, list \notin apart' PROVE TabAgrees(list)'
    <3>1. list \notin apart /\ list # view.tab
      BY <1>1, <2>3
    <3>2. asked = {r} /\ others = {}
      BY <1>3, <1>4, <3>1 DEF Solo
    <3>3. TabAgrees(list) /\ r.list = view.tab
      BY <1>3, <3>1 DEF TabsHear
    <3>4. shown[list] = server[list]
      BY <3>1, <3>2, <3>3 DEF TabAgrees
    <3>5. \A s \in asked' : s.state = "asked"
      BY <1>6, <3>2
    <3> QED BY <3>4, <3>5 DEF TabAgrees
  <2> QED BY <2>1, <2>2, <2>3 DEF TabsAgree
<1>9. sent' \in 0..Sends.tabs /\ apart' \subseteq Tabs!Tabs
  BY <1>1, <1>2
<1> QED BY <1>6, <1>7, <1>8, <1>9 DEF others

LEMMA TabsReloadKeeps ==
  ASSUME TabsInv, Tabs!Applied \/ Tabs!Added \/ Tabs!Edited PROVE TabsInv'
<1>1. /\ server \in TabLists({}) /\ shown \in TabLists({Gone}) /\ view \in TabViews
      /\ \A r \in asked : TabAsks(r)
  BY TabsPlain
<1>2. UNCHANGED <<server, shown, dialog>>
  BY DEF Tabs!Applied, Tabs!Added, Tabs!Edited
<1> DEFINE yes == TRUE
           no == FALSE
<1>3. yes = TRUE /\ no = FALSE
  OBVIOUS
<1>4. \/ view' = [view EXCEPT !.loading = yes, !.error = no]
      \/ view' = [view EXCEPT !.newUrl = Gone, !.loading = yes, !.error = no]
      \/ view' = [view EXCEPT !.editing = Gone, !.loading = yes, !.error = no]
  BY DEF Tabs!Applied, Tabs!Added, Tabs!Edited
<1> HIDE DEF yes, no
<1>5. /\ view' \in TabViews /\ view'.tab = view.tab
      /\ view'.applying = view.applying /\ view'.adding = view.adding
      /\ view'.pendingUrls = view.pendingUrls /\ view'.banning = view.banning
  BY <1>1, <1>3, <1>4 DEF TabViews
<1>6. PICK r, to :
        /\ r \in asked
        /\ r.state = "done" /\ r.heard /\ Tabs!LoadAfter(r, to)
        /\ \/ r.op = "apply" /\ to = "applying"
           \/ r.op = "add" /\ to = "adding"
           \/ r.op = "edit" /\ to = r.on
  BY DEF Tabs!Applied, Tabs!Added, Tabs!Edited, Tabs!Answers
<1>7. /\ TabsHear' /\ TabsAgree' /\ \A q \in asked' : TabAsks(q)
      /\ sent' \in 0..Sends.tabs /\ apart' \subseteq Tabs!Tabs
      /\ \A p \in asked \ {r} : \E q \in asked' : Twin(q, p)
      /\ \E q \in asked' : q.op = "load" /\ q.to = to
  <2>1. r.op \in {"apply", "add", "edit"}
    BY <1>6
  <2> QED BY <1>2, <1>5, <1>6, <2>1, TabsReload
<1>8. TabsWait'
  <2>1. /\ view.applying => FollowUp("apply", "applying")
        /\ view.adding => FollowUp("add", "adding")
        /\ \A u \in view.pendingUrls : FollowsUrl(u)
        /\ view.banning # Gone => \E p \in asked : p.op = "ban" /\ p.heard
    BY DEF TabsInv, TabsWait
  <2>2. view.applying => FollowUp("apply", "applying")'
    <3>1. CASE r.op = "apply"
      BY <1>6, <1>7, <3>1 DEF FollowUp
    <3>2. CASE r.op # "apply" /\ r.op # "load"
      BY <1>7, <2>1, <3>2 DEF FollowUp, Twin
    <3> QED BY <1>6, <3>1, <3>2
  <2>3. view.adding => FollowUp("add", "adding")'
    <3>1. CASE r.op = "add"
      BY <1>6, <1>7, <3>1 DEF FollowUp
    <3>2. CASE r.op # "add" /\ r.op # "load"
      BY <1>7, <2>1, <3>2 DEF FollowUp, Twin
    <3> QED BY <1>6, <3>1, <3>2
  <2>4. ASSUME NEW u \in view.pendingUrls PROVE FollowsUrl(u)'
    <3>1. CASE r.op = "edit" /\ r.on = u
      BY <1>6, <1>7, <3>1 DEF FollowsUrl
    <3>2. CASE r.op # "load" /\ (r.op = "edit" => r.on # u)
      <4>1. PICK p \in asked : (p.op \in {"remove", "edit"} /\ p.on = u /\ p.heard) \/ (p.op = "load" /\ p.to = u)
        BY <2>1 DEF FollowsUrl
      <4>2. p # r
        BY <1>6, <3>2, <4>1
      <4> QED BY <1>7, <4>1, <4>2 DEF FollowsUrl, Twin
    <3> QED BY <1>6, <3>1, <3>2
  <2>5. view.banning # Gone => \E p \in asked' : p.op = "ban" /\ p.heard
    BY <1>6, <1>7, <2>1 DEF Twin
  <2>6. \E q \in asked' : q.op = "load"
    BY <1>7
  <2> QED BY <1>5, <2>2, <2>3, <2>4, <2>5, <2>6 DEF TabsWait
<1>9. TabsDialog'
  BY <1>2, <1>5, TabsCloses
<1>10. TabsTyped'
  BY <1>1, <1>2, <1>5, <1>7, <1>9 DEF TabsTyped
<1> QED BY <1>7, <1>8, <1>10 DEF TabsInv

\* Another group of a batch goes out.
LEMMA TabsNextGroup ==
  ASSUME TabsInv, BatchInv, Tabs!NextGroup PROVE TabsInv'
<1>1. PICK r \in asked :
        /\ r.op = "apply" /\ r.state = "done" /\ Len(r.to) > 1
        /\ asked' = (asked \ {r}) \cup {[r EXCEPT !.to = Tail(r.to), !.state = "asked"]}
  BY DEF Tabs!NextGroup
<1>2. /\ apart' = apart \cup {"files"} /\ UNCHANGED <<server, shown, dialog, view, sent>>
  BY DEF Tabs!NextGroup
<1>3. /\ \A q \in asked : TabAsks(q) /\ Asks(q)
      /\ DOMAIN shown = Tabs!Tabs /\ Tabs!Tabs = {"files", "trackers", "peers"}
      /\ view \in TabViews
  BY TabsPlain
<1> DEFINE rest == Tail(r.to)
           t == [r EXCEPT !.to = rest]
           s == [t EXCEPT !.state = "asked"]
<1>4. /\ Asks(s) /\ s.op = r.op /\ s.list = r.list /\ s.on = r.on /\ s.to = rest
      /\ s.state = "asked" /\ s.alone = r.alone /\ s.heard = r.heard
  <2>1. /\ t.op = r.op /\ t.list = r.list /\ t.on = r.on /\ t.to = rest
        /\ t.alone = r.alone /\ t.heard = r.heard
        /\ t = Sent(t.op, t.list, t.on, t.to, t.state, t.alone, t.heard, t.saw)
    <3> HIDE DEF rest
    <3>1. t = Sent(r.op, r.list, r.on, rest, r.state, r.alone, r.heard, r.saw)
      BY <1>3, SentEdits DEF Asks
    <3> HIDE DEF t
    <3> QED BY <3>1, SentFields
  <2>2. s = Sent(t.op, t.list, t.on, t.to, "asked", t.alone, t.heard, t.saw)
    <3> DEFINE x == "asked"
    <3> HIDE DEF x, t, rest
    <3>1. [t EXCEPT !.state = x] = Sent(t.op, t.list, t.on, t.to, x, t.alone, t.heard, t.saw)
      BY <2>1, SentEdits
    <3> QED BY <3>1 DEF x
  <2> HIDE DEF s, t, rest
  <2>3. /\ s.op = t.op /\ s.list = t.list /\ s.on = t.on /\ s.to = t.to
        /\ s.state = "asked" /\ s.alone = t.alone /\ s.heard = t.heard
        /\ s = Sent(s.op, s.list, s.on, s.to, s.state, s.alone, s.heard, s.saw)
    BY <2>2, SentFields
  <2> QED BY <1>3, <2>1, <2>3 DEF Asks
<1> HIDE DEF s, t, rest
<1>5. asked' = (asked \ {r}) \cup {s}
  <2>1. r = Sent(r.op, r.list, r.on, r.to, r.state, r.alone, r.heard, r.saw)
    BY <1>3 DEF Asks
  <2>2. [r EXCEPT !.to = rest, !.state = "asked"] = s
    BY <2>1 DEF s, t
  <2> QED BY <1>1, <2>2 DEF rest
<1>6. s.to \in Batches
  <2>1. BatchInv'
    BY NextGroupKeeps
  <2> QED BY <1>1, <1>4, <1>5, <2>1 DEF BatchInv, Orderly, Aimed
<1>7. \A q \in asked' : TabAsks(q)
  <2>1. TabAsks(s)
    BY <1>1, <1>3, <1>4, <1>6 DEF TabAsks
  <2> QED BY <1>3, <1>5, <2>1
<1>8. TabsHear'
  BY <1>2, <1>4, <1>5 DEF TabsInv, TabsHear
<1>9. TabsAgree'
  <2>1. Solo /\ FreshLoads /\ \A list \in Tabs!Tabs \ apart : TabAgrees(list)
    BY DEF TabsInv, TabsAgree
  <2>2. Solo'
    BY <1>2, <1>4, <1>5, <2>1 DEF Solo
  <2>3. FreshLoads'
    BY <1>2, <1>4, <1>5, <2>1 DEF FreshLoads
  <2>4. ASSUME NEW list \in Tabs!Tabs, list \notin apart' PROVE TabAgrees(list)'
    <3>1. list \notin apart /\ list # "files" /\ TabAgrees(list)
      BY <1>2, <2>1, <2>4
    <3>2. asked = {r}
      BY <1>3, <2>1, <3>1 DEF Solo
    <3>3. r.list = "files" /\ asked' = {s}
      BY <1>1, <1>3, <1>5, <3>2 DEF TabAsks
    <3>4. shown[list] = server[list]
      BY <3>1, <3>2, <3>3 DEF TabAgrees
    <3> QED BY <1>2, <1>4, <3>3, <3>4 DEF TabAgrees
  <2> QED BY <2>2, <2>3, <2>4 DEF TabsAgree
<1>10. TabsWait'
  <2>1. \A p \in asked : p.heard => \E q \in asked' :
          q.op = p.op /\ q.on = p.on /\ q.heard /\ (p.op # "apply" => q.to = p.to)
    BY <1>1, <1>4, <1>5
  <2>2. \A q \in asked : q.op = "load" => q.heard
    BY <1>3 DEF TabAsks
  <2>3. /\ (\E q \in asked : q.op = "load") => \E q \in asked' : q.op = "load"
        /\ FollowUp("apply", "applying") => FollowUp("apply", "applying")'
        /\ FollowUp("add", "adding") => FollowUp("add", "adding")'
        /\ \A u : FollowsUrl(u) => FollowsUrl(u)'
        /\ (\E q \in asked : q.op = "ban" /\ q.heard) => \E q \in asked' : q.op = "ban" /\ q.heard
    BY <2>1, <2>2, TabsCarry
  <2> QED BY <1>2, <2>3 DEF TabsInv, TabsWait
<1>11. TabsTyped'
  <2>1. TabsDialog'
    BY <1>2, TabsCloses
  <2> QED BY <1>2, <1>3, <2>1 DEF TabsInv, TabsTyped
<1> QED BY <1>7, <1>8, <1>9, <1>10, <1>11 DEF TabsInv

\* What the worker does for a request.
LEMMA TabsEffect ==
  ASSUME TabsInv, NEW r \in asked
  PROVE  /\ Tabs!Effect(r) \in TabLists({})
         /\ \A list \in Tabs!Tabs \ {r.list} : Tabs!Effect(r)[list] = server[list]
         /\ r.op = "load" => Tabs!Effect(r) = server
         /\ r.op \in {"remove", "ban"} =>
              Tabs!Effect(r)[r.list] = [server[r.list] EXCEPT ![r.on] = Gone]
<1>1. /\ server \in TabLists({}) /\ TabAsks(r) /\ Tabs!Tabs = {"files", "trackers", "peers"}
  BY TabsPlain
<1> DEFINE after == Tabs!Effect(r)
<1>2. CASE r.op = "load"
  BY <1>1, <1>2 DEF Tabs!Effect
<1>3. CASE r.op = "apply"
  <2> DEFINE files == [f \in Files |-> IF f \in Head(r.to).files THEN Head(r.to).priority
                                       ELSE server.files[f]]
  <2>1. after = [server EXCEPT !.files = files]
    BY <1>3 DEF Tabs!Effect
  <2>2. Head(r.to) \in Groups /\ r.list = "files"
    <3>1. r.to \in Batches /\ r.list = "files"
      BY <1>1, <1>3 DEF TabAsks
    <3> QED BY <3>1, TailBatch
  <2>3. files \in [Files -> Tabs!Priorities]
    BY <1>1, <2>2 DEF Groups, TabLists
  <2> HIDE DEF files, after
  <2> QED BY <1>1, <1>3, <2>1, <2>2, <2>3 DEF TabLists, after
<1>4. CASE r.op = "edit"
  <2> DEFINE urls == [server.trackers EXCEPT ![r.on] = Gone, ![r.to] = "there"]
  <2>1. r.list = "trackers" /\ r.on \in Urls /\ r.to \in Urls
    BY <1>1, <1>4 DEF TabAsks
  <2>2. urls \in [Urls -> {"there", Gone}]
    BY <1>1, <2>1 DEF TabLists
  <2>3. after = [server EXCEPT !.trackers = urls]
    BY <1>1, <1>4, <2>1 DEF Tabs!Effect, TabLists
  <2> HIDE DEF urls, after
  <2> QED BY <1>1, <1>4, <2>1, <2>2, <2>3 DEF TabLists, after
<1>5. CASE r.op \in {"add", "remove"}
  <2> DEFINE urls == [server.trackers EXCEPT ![r.on] = r.to]
  <2>1. r.list = "trackers" /\ r.on \in Urls /\ r.to \in {"there", Gone}
    BY <1>1, <1>5 DEF TabAsks
  <2>2. urls \in [Urls -> {"there", Gone}]
    BY <1>1, <2>1 DEF TabLists
  <2>3. after = [server EXCEPT !.trackers = urls]
    BY <1>1, <1>5, <2>1 DEF Tabs!Effect
  <2>4. r.op = "remove" => urls = [server.trackers EXCEPT ![r.on] = Gone]
    BY <1>1, <1>5 DEF TabAsks
  <2> HIDE DEF urls, after
  <2> QED BY <1>1, <1>5, <2>1, <2>2, <2>3, <2>4 DEF TabLists, after
<1>6. CASE r.op = "ban"
  <2> DEFINE peers == [server.peers EXCEPT ![r.on] = r.to]
  <2>1. r.list = "peers" /\ r.on \in Peers /\ r.to = Gone
    BY <1>1, <1>6 DEF TabAsks
  <2>2. peers \in [Peers -> {"there", Gone}]
    BY <1>1, <2>1 DEF TabLists
  <2>3. after = [server EXCEPT !.peers = peers]
    BY <1>1, <1>6, <2>1 DEF Tabs!Effect
  <2>4. peers = [server.peers EXCEPT ![r.on] = Gone]
    BY <2>1
  <2> HIDE DEF peers, after
  <2> QED BY <1>1, <1>6, <2>1, <2>2, <2>3, <2>4 DEF TabLists, after
<1> QED BY <1>1, <1>2, <1>3, <1>4, <1>5, <1>6 DEF TabAsks

LEMMA TabsServed ==
  ASSUME TabsInv, Tabs!Serve(Tabs!Effect, Tabs!Accepts)
  PROVE  TabsInv'
<1>1. PICK r \in asked :
        /\ r.state = "asked"
        /\ \/ /\ Tabs!Accepts(r)
              /\ server' = Tabs!Effect(r)
              /\ asked' = (asked \ {r}) \cup {Answer(r)}
              /\ apart' = apart
           \/ /\ asked' = (asked \ {r}) \cup {Refusal(r)}
              /\ server' = server /\ apart' = apart
           \/ /\ Tabs!Accepts(r)
              /\ server' = Tabs!Effect(r)
              /\ asked' = (asked \ {r}) \cup {Refusal(r)}
              /\ apart' = DOMAIN shown
  BY DEF Tabs!Serve, Tabs!Answer, Tabs!Refusal, Tabs!Brings, Answer, Refusal, Brings
<1>2. UNCHANGED <<shown, dialog, view, sent>>
  BY DEF Tabs!Serve
<1>3. /\ TabAsks(r) /\ Asks(r) /\ r.list \in Tabs!Tabs
      /\ \A q \in asked : TabAsks(q)
      /\ server \in TabLists({}) /\ DOMAIN shown = Tabs!Tabs /\ apart \subseteq Tabs!Tabs
  BY TabsPlain DEF TabAsks
<1>4. PICK s :
        /\ asked' = (asked \ {r}) \cup {s}
        /\ Asks(s) /\ Twin(s, r) /\ s.alone = r.alone
        /\ \/ /\ s.state = "done" /\ Tabs!Accepts(r) /\ server' = Tabs!Effect(r)
              /\ apart' = apart
              /\ s.saw = IF r.op \in Brings THEN server'[r.list] ELSE r.saw
           \/ /\ s.state = "refused" /\ s.saw = Gone
              /\ \/ server' = server /\ apart' = apart
                 \/ /\ Tabs!Accepts(r) /\ server' = Tabs!Effect(r)
                    /\ apart' = DOMAIN shown
  <2> DEFINE accepts == Tabs!Accepts(r)
             effect == Tabs!Effect(r)
  <2>1. \/ accepts /\ server' = effect /\ asked' = (asked \ {r}) \cup {Answer(r)} /\ apart' = apart
        \/ asked' = (asked \ {r}) \cup {Refusal(r)} /\ server' = server /\ apart' = apart
        \/ /\ accepts /\ server' = effect /\ asked' = (asked \ {r}) \cup {Refusal(r)}
           /\ apart' = DOMAIN shown
    BY <1>1
  <2> HIDE DEF accepts, effect
  <2> QED BY <1>3, <2>1, Answering DEF accepts, effect
<1>5. /\ s.op = r.op /\ s.list = r.list /\ s.on = r.on /\ s.to = r.to /\ s.heard = r.heard
      /\ apart' = apart \/ apart' = Tabs!Tabs
      /\ \A list \in Tabs!Tabs \ apart' : s.state = "done" \/ server' = server
  BY <1>3, <1>4 DEF Twin
<1>6. /\ server' \in TabLists({})
      /\ \A list \in Tabs!Tabs \ {r.list} : server'[list] = server[list]
      /\ s.state = "done" /\ r.op \in {"remove", "ban"} =>
           server'[r.list] = [server[r.list] EXCEPT ![r.on] = Gone]
      /\ r.op = "load" => server' = server
  <2> DEFINE effect == Tabs!Effect(r)
  <2>1. /\ effect \in TabLists({})
        /\ \A list \in Tabs!Tabs \ {r.list} : effect[list] = server[list]
        /\ r.op = "load" => effect = server
        /\ r.op \in {"remove", "ban"} => effect[r.list] = [server[r.list] EXCEPT ![r.on] = Gone]
    BY TabsEffect
  <2>2. /\ server' = effect \/ server' = server
        /\ s.state = "done" => server' = effect
    BY <1>4
  <2> HIDE DEF effect
  <2> QED BY <1>3, <2>1, <2>2
<1>7. s.op = "load" /\ s.state = "done" => s.saw = server'[s.list]
  BY <1>4, <1>5 DEF Brings
<1>8. \A q \in asked' : TabAsks(q)
  <2>1. s.op = "load" /\ s.state = "done" => s.saw \in TabCopies(s.list)
    BY <1>3, <1>5, <1>6, <1>7 DEF TabCopies, TabLists, Tabs!Tabs
  <2>2. TabAsks(s)
    BY <1>3, <1>4, <1>5, <2>1 DEF TabAsks
  <2> QED BY <1>3, <1>4, <2>2
<1>9. TabsHear'
  BY <1>2, <1>4, <1>5 DEF TabsInv, TabsHear
<1>10. TabsAgree'
  <2>1. Solo /\ FreshLoads /\ \A list \in Tabs!Tabs \ apart : TabAgrees(list)
    BY DEF TabsInv, TabsAgree
  <2>2. Solo'
    BY <1>2, <1>3, <1>4, <1>5, <2>1 DEF Solo
  <2>3. FreshLoads'
    <3>1. ASSUME NEW q \in asked', q.op = "load", q.state = "done", q.alone PROVE q.saw = server'[q.list]
      <4>1. q = s
        BY <1>4, <2>2, <3>1 DEF Solo
      <4> QED BY <1>7, <3>1, <4>1
    <3> QED BY <3>1 DEF FreshLoads
  <2>4. ASSUME NEW list \in Tabs!Tabs, list \notin apart' PROVE TabAgrees(list)'
    <3>1. list \notin apart /\ TabAgrees(list)
      BY <1>3, <1>5, <2>1, <2>4
    <3>2. asked = {r} /\ asked' = {s}
      BY <1>3, <1>4, <2>1, <3>1 DEF Solo
    <3>3. shown[list] = server[list]
      BY <1>1, <3>1, <3>2 DEF TabAgrees
    <3>4. CASE s.state = "done" /\ r.op # "load" /\ list = r.list
      <4>1. r.op \in {"remove", "ban"} => server'[list] = [shown[list] EXCEPT ![r.on] = Gone]
        BY <1>6, <3>3, <3>4
      <4> QED BY <1>2, <1>5, <3>2, <3>4, <4>1 DEF TabAgrees
    <3>5. CASE s.state # "done" \/ r.op = "load" \/ list # r.list
      <4>1. server'[list] = server[list]
        BY <1>5, <1>6, <2>4, <3>5
      <4> QED BY <1>2, <1>5, <3>2, <3>3, <3>5, <4>1 DEF TabAgrees
    <3> QED BY <3>4, <3>5
  <2> QED BY <2>2, <2>3, <2>4 DEF TabsAgree
<1>11. TabsWait'
  <2>1. \A p \in asked : \E q \in asked' : Twin(q, p)
    BY <1>4 DEF Twin
  <2> QED BY <1>2, <2>1, TabsWaits DEF TabsWait
<1>12. TabsTyped'
  <2>1. TabsDialog'
    BY <1>2, TabsCloses
  <2>2. shown \in TabLists({Gone}) /\ view \in TabViews /\ sent \in 0..Sends.tabs
    BY TabsPlain
  <2> QED BY <1>2, <1>3, <1>5, <1>6, <2>1, <2>2 DEF TabsTyped
<1> QED BY <1>8, <1>9, <1>10, <1>11, <1>12 DEF TabsInv

LEMMA TabsMounted == ASSUME Tabs!Init PROVE TabsInv
<1>1. PICK tab \in Tabs!Tabs : view = Tabs!Fresh(tab) /\ Tabs!Mounted(tab)
  BY DEF Tabs!Init
<1> DEFINE q == Request("load", tab, Gone, Gone, Gone)
<1>2. /\ asked = {q} /\ dialog = <<>> /\ apart = DOMAIN shown /\ sent = 0
      /\ shown = [list \in Tabs!Tabs |-> Tabs!Blank(list)]
  BY <1>1 DEF Tabs!Init, Tabs!Mounted, Tabs!Request, Tabs!Closed, Request
<1>3. PICK files \in [Files -> {"skip", "normal"}], new \in Urls :
        server = [files |-> files, trackers |-> [u \in Urls |-> IF u = new THEN Gone ELSE "there"],
                  peers |-> [p \in Peers |-> "there"]]
  BY DEF Tabs!Init
<1>4. /\ Asks(q) /\ q.op = "load" /\ q.list = tab /\ q.state = "asked" /\ q.heard
  BY RequestAsks DEF Request
<1> HIDE DEF q
<1>5. server \in TabLists({}) 
  BY <1>3 DEF TabLists, Tabs!Priorities
<1>6. DOMAIN shown = Tabs!Tabs
  BY <1>2
<1>7. shown \in TabLists({Gone})
  BY <1>2 DEF TabLists, Tabs!Blank, Tabs!Members, Tabs!Tabs
<1>8. view \in TabViews /\ view.tab = tab /\ view.applying = FALSE /\ view.adding = FALSE
      /\ view.pendingUrls = {} /\ view.banning = Gone
  <2>1. Tabs!Blank("files") \in Pendings
    BY BlankHolds
  <2> QED BY <1>1, <2>1 DEF Tabs!Fresh, TabViews
<1>9. TabsTyped
  BY <1>2, <1>5, <1>6, <1>7, <1>8, ClientAssumption DEF TabsTyped, TabsDialog, ClientAssumption
<1>10. TabsHear /\ TabsAgree /\ TabsWait /\ \A r \in asked : TabAsks(r)
  <2>1. \A r \in asked : TabAsks(r)
    BY <1>2, <1>4 DEF TabAsks
  <2>2. TabsHear
    BY <1>2, <1>4, <1>8 DEF TabsHear
  <2>3. Solo /\ FreshLoads
    BY <1>2, <1>4 DEF Solo, FreshLoads
  <2>4. TabsAgree
    BY <1>2, <1>6, <2>3 DEF TabsAgree
  <2>5. TabsWait
    BY <1>2, <1>4, <1>8 DEF TabsWait
  <2> QED BY <2>1, <2>2, <2>4, <2>5
<1> QED BY <1>9, <1>10 DEF TabsInv

LEMMA TabListsStep == ASSUME TabsInv, BatchInv, [Tabs!Next]_pageVars PROVE TabsInv'
<1>1. CASE UNCHANGED pageVars
  <2>1. UNCHANGED <<server, shown, asked, apart, sent, dialog, view>>
    BY <1>1 DEF pageVars
  <2>2. view' \in TabViews /\ TabsDialog'
    BY <2>1, TabsPlain, TabsCloses
  <2> QED BY <2>1, <2>2, TabsIdle
<1>2. CASE Tabs!Next
  BY <1>2, TabsOpen, TabsLook, TabsAsk, TabsLandKeeps, TabsReloadKeeps, TabsNextGroup, TabsServed
     DEF Tabs!Next
<1> QED BY <1>1, <1>2

TabListsHold == page = "tabs" => TabsInv

LEMMA TabListsAlways == Spec => []TabListsHold
<1>1. Init => TabListsHold
  BY TabsMounted DEF Init, TabListsHold
<1>2. ASSUME TabListsHold, TabsHold, [Next]_vars PROVE TabListsHold'
  <2>1. page' = page /\ (page = "tabs" => [Tabs!Next]_pageVars)
    BY <1>2 DEF Next, vars
  <2> QED BY <1>2, <2>1, TabListsStep DEF TabListsHold, TabsHold
<1> QED BY <1>1, <1>2, TabsAlways, PTL DEF Spec

LEMMA TabsPromises ==
  ASSUME TabsInv
  PROVE  /\ Tabs!PageOK /\ Tabs!TypeOK /\ Tabs!ListsShowServer /\ Tabs!SpinnersHaveRequests
<1>1. /\ Tabs!RequestsOK /\ DOMAIN shown = Tabs!Tabs /\ apart \subseteq Tabs!Tabs
      /\ sent \in 0..Sends.tabs
  BY TabsPlain, AsksOK DEF Tabs!RequestsOK
<1>2. \A i \in DOMAIN dialog : "is" \in DOMAIN dialog[i]
  BY DEF TabsInv, TabsTyped, TabsDialog, TabDialogs
<1>3. Tabs!PageOK
  BY <1>1, <1>2 DEF Tabs!PageOK
<1>4. Tabs!TypeOK
  BY DEF Tabs!TypeOK, TabsInv, TabsTyped, TabLists, TabViews, Pendings
<1>5. Tabs!ListsShowServer
  BY <1>1 DEF Tabs!ListsShowServer, Tabs!ShowsServer, TabsInv, TabsAgree, TabAgrees
<1>6. Tabs!SpinnersHaveRequests
  BY DEF Tabs!SpinnersHaveRequests, Tabs!Waiting, TabsInv, TabsWait, FollowUp, FollowsUrl
<1> QED BY <1>3, <1>4, <1>5, <1>6

=============================================================================
