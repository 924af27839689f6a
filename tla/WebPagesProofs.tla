--------------------------- MODULE WebPagesProofs ---------------------------
(***************************************************************************)
(* The web client, for any lists and any number of requests: the growing   *)
(* lists, what a step of a page may never do (a batch of file priorities   *)
(* that leaves nothing selected on its way, an answer that writes over     *)
(* what the user has edited, a row that goes while its torrent is still    *)
(* there), what holds of requests on every page, and the types, lists and  *)
(* spinners of the users' page, the torrents' page, the session and the    *)
(* form that adds a torrent.                                               *)
(***************************************************************************)
EXTENDS WebClient, FiniteSetTheorems, TLAPS

-----------------------------------------------------------------------------
(* The growing lists of Torrents.tsx. *)

Lists == [Torrents -> Statuses \cup {Gone}]
Views == [loaded : BOOLEAN, mode : {"table", "cards"}, narrow : BOOLEAN, search : BOOLEAN,
          chosen : SUBSET Statuses, perPage : PageSizes, page : Nat, count : Nat,
          observes : [TorrentsView!Layouts -> Nat]]

\* What an observer that is set up anew would know.
Current(v, list, l) ==
  IF TorrentsView!Enabled(v, l) /\ TorrentsView!Sentinel(v, list, l) THEN TorrentsView!Total(v, list) ELSE TorrentsView!NoObserver

\* Each layout's observer knows what it would know if it were set up now.
Observed == \A l \in TorrentsView!Layouts : view.observes[l] = Current(view, shown.torrents, l)

ViewInv == TorrentsView!TypeOK /\ Observed

LEMMA TotalTyped ==
  ASSUME NEW v, NEW list
  PROVE  TorrentsView!Total(v, list) \in Nat
<1>1. TorrentsView!Passing(v, list) \subseteq Torrents
  BY DEF TorrentsView!Passing, TorrentsView!Rows
<1>2. Cardinality(TorrentsView!Passing(v, list)) \in Nat
  BY <1>1, ClientAssumption, FS_Subset, FS_CardinalityType DEF ClientAssumption
<1>3. \A S : TorrentsView!Cardinality(S) = Cardinality(S)
  BY DEF TorrentsView!Cardinality, Cardinality
<1> QED BY <1>2, <1>3 DEF TorrentsView!Total

\* Whatever is rendered, the effects leave the observers current: one that is not
\* set up again would know the same.
LEMMA RenderKeeps ==
  ASSUME ViewInv, NEW v \in Views, NEW list \in Lists, TorrentsView!Render(v, list)
  PROVE  ViewInv'
<1> DEFINE seen == [l \in TorrentsView!Layouts |-> TorrentsView!Observing(v, list, view, shown.torrents, l)]
<1>1. \A l \in TorrentsView!Layouts : seen[l] = Current(v, list, l)
  BY DEF ViewInv, Observed, Current, TorrentsView!Observing
<1>2. \A l \in TorrentsView!Layouts : Current(v, list, l) \in Nat
  BY TotalTyped DEF Current, TorrentsView!NoObserver
<1>3. seen \in [TorrentsView!Layouts -> Nat]
  BY <1>1, <1>2
<1>4. view' = [v EXCEPT !.observes = seen] /\ shown' = [torrents |-> list]
  BY DEF TorrentsView!Render
<1> HIDE DEF seen
<1>5. view' \in Views
  BY <1>3, <1>4 DEF Views
<1>6. /\ view'.observes = seen /\ view'.mode = v.mode /\ view'.narrow = v.narrow
      /\ view'.loaded = v.loaded /\ view'.count = v.count /\ view'.chosen = v.chosen
      /\ view'.search = v.search
  BY <1>3, <1>4 DEF Views
<1>7. shown'.torrents = list
  BY <1>4
<1>8. \A l \in TorrentsView!Layouts : Current(view', shown'.torrents, l) = Current(v, list, l)
  BY <1>6, <1>7 DEF Current, TorrentsView!Enabled, TorrentsView!Sentinel, TorrentsView!Total, TorrentsView!Passing, TorrentsView!Rows
<1> QED BY <1>1, <1>5, <1>6, <1>7, <1>8 DEF ViewInv, Observed, TorrentsView!TypeOK, Views, Lists

\* The same when the rows stay and the view starts over.
LEMMA ViewKeeps ==
  ASSUME ViewInv, NEW v \in Views,
         TorrentsView!RenderView(v) \/ TorrentsView!RenderView(TorrentsView!FromTheStart(v))
  PROVE  ViewInv'
<1>1. shown.torrents \in Lists
  BY DEF ViewInv, TorrentsView!TypeOK, Lists
<1>2. TorrentsView!FromTheStart(v) \in Views
  BY ClientAssumption DEF TorrentsView!FromTheStart, Views, ClientAssumption
<1> QED BY <1>1, <1>2, RenderKeeps DEF TorrentsView!RenderView

LEMMA ViewStep == ViewInv /\ [TorrentsView!Next]_pageVars => ViewInv'
<1> SUFFICES ASSUME ViewInv, [TorrentsView!Next]_pageVars PROVE ViewInv'
  OBVIOUS
<1>1. view \in Views /\ shown.torrents \in Lists
  BY DEF ViewInv, TorrentsView!TypeOK, Views, Lists
<1>2. CASE TorrentsView!Loads
  <2>1. [view EXCEPT !.loaded = TRUE] \in Views
    BY <1>1 DEF Views
  <2> QED BY <1>2, <2>1, ViewKeeps DEF TorrentsView!Loads
<1>3. CASE TorrentsView!Search
  <2>1. [view EXCEPT !.search = ~@] \in Views
    BY <1>1 DEF Views
  <2> QED BY <1>3, <2>1, ViewKeeps DEF TorrentsView!Search
<1>4. CASE TorrentsView!Sort
  BY <1>1, <1>4, ViewKeeps DEF TorrentsView!Sort
<1>5. CASE TorrentsView!Resize
  <2>1. [view EXCEPT !.narrow = ~@] \in Views
    BY <1>1 DEF Views
  <2> QED BY <1>5, <2>1, ViewKeeps DEF TorrentsView!Resize
<1>6. CASE TorrentsView!NextPage
  <2>1. [view EXCEPT !.page = @ + 1] \in Views
    BY <1>1 DEF Views
  <2> QED BY <1>6, <2>1, ViewKeeps DEF TorrentsView!NextPage
<1>7. CASE TorrentsView!PreviousPage
  <2>1. [view EXCEPT !.page = @ - 1] \in Views
    BY <1>1, <1>7 DEF Views, TorrentsView!PreviousPage
  <2> QED BY <1>7, <2>1, ViewKeeps DEF TorrentsView!PreviousPage
<1>8. ASSUME NEW t \in Torrents, NEW s \in Statuses \cup {Gone}, TorrentsView!Feed(t, s) PROVE ViewInv'
  <2>1. [shown.torrents EXCEPT ![t] = s] \in Lists
    BY <1>1 DEF Lists
  <2> QED BY <1>1, <1>8, <2>1, RenderKeeps DEF TorrentsView!Feed
<1>9. ASSUME NEW n \in PageSizes, TorrentsView!ChangeItemsPerPage(n) PROVE ViewInv'
  <2>1. [view EXCEPT !.perPage = n] \in Views
    BY <1>1 DEF Views
  <2> QED BY <1>9, <2>1, ViewKeeps DEF TorrentsView!ChangeItemsPerPage
<1>10. ASSUME NEW m \in {"table", "cards"}, TorrentsView!ChangeDisplayMode(m) PROVE ViewInv'
  <2>1. [view EXCEPT !.mode = m] \in Views
    BY <1>1 DEF Views
  <2> QED BY <1>10, <2>1, ViewKeeps DEF TorrentsView!ChangeDisplayMode
<1>11. ASSUME NEW s \in Statuses, TorrentsView!Toggle(s) PROVE ViewInv'
  <2>1. view.chosen \in SUBSET Statuses
    BY <1>1 DEF Views
  <2>2. \A chosen \in SUBSET Statuses : [view EXCEPT !.chosen = chosen] \in Views
    BY <1>1 DEF Views
  <2>3. PICK chosen \in SUBSET Statuses : TorrentsView!RenderView([view EXCEPT !.chosen = chosen])
    BY <1>11, <2>1 DEF TorrentsView!Toggle
  <2> QED BY <2>2, <2>3, ViewKeeps
<1>12. ASSUME NEW checked \in BOOLEAN, TorrentsView!SetAll(checked) PROVE ViewInv'
  <2>1. {shown.torrents[t] : t \in TorrentsView!Rows(shown.torrents)} \in SUBSET Statuses
    BY <1>1 DEF Lists, TorrentsView!Rows
  <2>2. \A chosen \in SUBSET Statuses : [view EXCEPT !.chosen = chosen] \in Views
    BY <1>1 DEF Views
  <2>3. PICK chosen \in SUBSET Statuses : TorrentsView!RenderView([view EXCEPT !.chosen = chosen])
    BY <1>12, <2>1 DEF TorrentsView!SetAll
  <2> QED BY <2>2, <2>3, ViewKeeps
<1>13. ASSUME NEW l \in TorrentsView!Layouts, TorrentsView!LoadMore(l) PROVE ViewInv'
  <2>1. view.count \in Nat /\ view.observes[l] \in Nat
    BY <1>1 DEF Views
  <2>2. \A n \in Nat : [view EXCEPT !.count = n] \in Views
    BY <1>1 DEF Views
  <2> DEFINE next == view.count + PerLoad
             n == IF next < view.observes[l] THEN next ELSE view.observes[l]
  <2>3. n \in Nat
    BY <2>1, ClientAssumption DEF ClientAssumption
  <2>4. TorrentsView!RenderView([view EXCEPT !.count = n])
    BY <1>13 DEF TorrentsView!LoadMore
  <2> HIDE DEF n
  <2> QED BY <2>2, <2>3, <2>4, ViewKeeps
<1>14. CASE UNCHANGED pageVars
  BY <1>14 DEF pageVars, ViewInv, TorrentsView!TypeOK, Observed, Current, TorrentsView!Enabled, TorrentsView!Sentinel,
               TorrentsView!Total, TorrentsView!Passing, TorrentsView!Rows
<1> QED BY <1>2, <1>3, <1>4, <1>5, <1>6, <1>7, <1>8, <1>9, <1>10, <1>11, <1>12, <1>13, <1>14
        DEF TorrentsView!Next

LEMMA ViewStart == TorrentsView!Init => ViewInv
<1> SUFFICES ASSUME TorrentsView!Init PROVE ViewInv
  OBVIOUS
<1>1. PICK narrow \in BOOLEAN, mode \in {"table", "cards"}, n \in PageSizes :
        view = [loaded |-> FALSE, mode |-> mode, narrow |-> narrow, search |-> FALSE,
                chosen |-> {}, perPage |-> n, page |-> 1, count |-> FirstRows,
                observes |-> [l \in TorrentsView!Layouts |-> TorrentsView!NoObserver]]
  BY DEF TorrentsView!Init
<1>2. view \in Views
  BY <1>1, ClientAssumption DEF Views, ClientAssumption, TorrentsView!NoObserver
<1>3. ~view.loaded /\ \A l \in TorrentsView!Layouts : view.observes[l] = TorrentsView!NoObserver
  BY <1>1
<1>4. Observed
  BY <1>3 DEF Observed, Current, TorrentsView!Sentinel
<1>5. shown.torrents \in Lists
  BY DEF TorrentsView!Init, Lists
<1> QED BY <1>2, <1>4, <1>5 DEF ViewInv, TorrentsView!TypeOK, Views, Lists

\* What observes is what the layout on screen could still show.
LEMMA ViewReaches == ViewInv => TorrentsView!MoreCanBeLoaded
<1> SUFFICES ASSUME ViewInv, view.loaded, TorrentsView!Grows(view),
                    TorrentsView!OnScreen < TorrentsView!Total(view, shown.torrents)
             PROVE  view.observes[IF view.narrow THEN "mobile" ELSE "desktop"]
                      = TorrentsView!Total(view, shown.torrents)
  BY DEF TorrentsView!MoreCanBeLoaded
<1> DEFINE total == TorrentsView!Total(view, shown.torrents)
           l == IF view.narrow THEN "mobile" ELSE "desktop"
<1>1. total \in Nat /\ view.count \in Nat /\ view.narrow \in BOOLEAN
  BY TotalTyped DEF ViewInv, TorrentsView!TypeOK
<1>2. view.count < total
  <2> HIDE DEF total
  <2>1. TorrentsView!OnScreen = IF view.count < total THEN view.count ELSE total
    BY DEF TorrentsView!OnScreen, total
  <2> QED BY <1>1, <2>1 DEF total
<1>3. TorrentsView!Rows(shown.torrents) # {}
  <2>1. SUFFICES ASSUME TorrentsView!Rows(shown.torrents) = {} PROVE FALSE
    OBVIOUS
  <2>2. TorrentsView!Passing(view, shown.torrents) = {}
    BY <2>1 DEF TorrentsView!Passing
  <2>3. TorrentsView!Cardinality({}) = 0
    <3>1. TorrentsView!Cardinality({}) = Cardinality({})
      BY DEF TorrentsView!Cardinality, Cardinality
    <3> QED BY <3>1, FS_EmptySet
  <2> QED BY <1>1, <1>2, <2>2, <2>3 DEF TorrentsView!Total
<1>4. l \in TorrentsView!Layouts /\ TorrentsView!Enabled(view, l) /\ TorrentsView!Sentinel(view, shown.torrents, l)
  BY <1>1, <1>2, <1>3 DEF TorrentsView!Layouts, TorrentsView!Enabled, TorrentsView!Sentinel, TorrentsView!Grows
<1> QED BY <1>4 DEF ViewInv, Observed, Current

\* Scrolling shows the rest: an observer that no effect sets up again knows the
\* total all the same, whatever was filtered, resized or fed in meanwhile.
THEOREM MoreCanBeLoadedCorrect == Spec => []MoreCanBeLoaded
<1> DEFINE Inv == page = "view" => ViewInv
<1>1. Init => Inv
  BY ViewStart DEF Init
<1>2. Inv /\ [Next]_vars => Inv'
  <2> SUFFICES ASSUME Inv, [Next]_vars, page' = "view" PROVE ViewInv'
    OBVIOUS
  <2>1. page = "view" /\ [TorrentsView!Next]_pageVars
    BY DEF Next, vars
  <2> QED BY <2>1, ViewStep
<1>3. Inv => MoreCanBeLoaded
  BY ViewReaches DEF MoreCanBeLoaded
<1> QED BY <1>1, <1>2, <1>3, PTL DEF Spec

-----------------------------------------------------------------------------
(* The session. *)

Users == Accounts \cup {Nobody}
Servers == [session : Users, ready : BOOLEAN]
Shown == [user : Users, prefs : Users]
TabStates == [path : Session!Paths, loading : BOOLEAN, form : {"checking", "open", "closed"},
         busy : BOOLEAN, chunk : [Session!Guarded -> {"none", "here", "failed"}],
         stale : BOOLEAN, marked : BOOLEAN, forced : Nat]

Sent(op, list, on, to, state, alone, heard, saw) ==
  [op |-> op, list |-> list, on |-> on, to |-> to, state |-> state, alone |-> alone,
   heard |-> heard, saw |-> saw]

\* What a request asks for is what its answer brings and who waits for it.
Fits(r) ==
  /\ r = Sent(r.op, r.list, r.on, r.to, r.state, r.alone, r.heard, r.saw)
  /\ r.state \in {"asked", "done", "refused"} /\ r.alone \in BOOLEAN /\ r.heard \in BOOLEAN
  /\ r.op = "load" /\ r.state = "done" => r.saw \in Servers
  /\ r.op = "login" => r.on \in Accounts /\ r.to \in {"login", Gone}
  /\ r.to \in {"me", "mine", "theirs"} => r.op = "load" /\ r.list = "session"

\* The requests that will end each wait of the tab.
Awaited(v, requests) == v.loading => \E r \in requests : r.to \in {"me", "mine"}
Attended(v, requests) ==
  /\ v.form = "checking" =>
       \E r \in requests : r.op = "load" /\ r.list = "ready" /\ r.to = v.path
  /\ v.busy => \E r \in requests : r.op \in {"login", "register"} /\ r.to = v.path

\* A reload that a chunk forced has left its mark.
ReloadsMarked(v) == v.forced \in {0, 1} /\ (v.forced = 1 => v.marked)

InTab(v, requests) ==
  /\ v \in TabStates /\ ReloadsMarked(v)
  /\ \A r \in requests : Fits(r)
  /\ Awaited(v, requests)

SessionInv ==
  /\ server \in Servers /\ shown \in Shown
  /\ InTab(view, asked) /\ Attended(view, asked)

\* A request whose answer is known.
Ended(r, state, saw) == [r EXCEPT !.state = state, !.saw = saw]

\* The edits of requests that the module makes, and what they leave alone.
LEMMA SentEdits ==
  ASSUME NEW r, NEW x,
         r = Sent(r.op, r.list, r.on, r.to, r.state, r.alone, r.heard, r.saw)
  PROVE  /\ [r EXCEPT !.to = x] = Sent(r.op, r.list, r.on, x, r.state, r.alone, r.heard, r.saw)
         /\ [r EXCEPT !.alone = x] = Sent(r.op, r.list, r.on, r.to, r.state, x, r.heard, r.saw)
         /\ [r EXCEPT !.saw = x] = Sent(r.op, r.list, r.on, r.to, r.state, r.alone, r.heard, x)
         /\ [r EXCEPT !.state = x] = Sent(r.op, r.list, r.on, r.to, x, r.alone, r.heard, r.saw)
<1>1. PICK op, list, on, to, state, alone, heard, saw :
        r = [op |-> op, list |-> list, on |-> on, to |-> to, state |-> state,
             alone |-> alone, heard |-> heard, saw |-> saw]
  BY DEF Sent
<1>2. /\ r.op = op /\ r.list = list /\ r.on = on /\ r.to = to /\ r.state = state
      /\ r.alone = alone /\ r.heard = heard /\ r.saw = saw
  BY <1>1
<1>3. [r EXCEPT !.to = x] = [op |-> op, list |-> list, on |-> on, to |-> x, state |-> state,
                             alone |-> alone, heard |-> heard, saw |-> saw]
  BY <1>1
<1>4. [r EXCEPT !.alone = x] = [op |-> op, list |-> list, on |-> on, to |-> to, state |-> state,
                                alone |-> x, heard |-> heard, saw |-> saw]
  BY <1>1
<1>5. [r EXCEPT !.saw = x] = [op |-> op, list |-> list, on |-> on, to |-> to, state |-> state,
                              alone |-> alone, heard |-> heard, saw |-> x]
  BY <1>1
<1>6. [r EXCEPT !.state = x] = [op |-> op, list |-> list, on |-> on, to |-> to, state |-> x,
                                alone |-> alone, heard |-> heard, saw |-> saw]
  BY <1>1
<1> QED BY <1>2, <1>3, <1>4, <1>5, <1>6 DEF Sent

LEMMA EndedSent ==
  ASSUME NEW r, NEW x, NEW y,
         r = Sent(r.op, r.list, r.on, r.to, r.state, r.alone, r.heard, r.saw)
  PROVE  Ended(r, x, y) = Sent(r.op, r.list, r.on, r.to, x, r.alone, r.heard, y)
<1>1. PICK op, list, on, to, state, alone, heard, saw :
        r = [op |-> op, list |-> list, on |-> on, to |-> to, state |-> state,
             alone |-> alone, heard |-> heard, saw |-> saw]
  BY DEF Sent
<1>2. /\ r.op = op /\ r.list = list /\ r.on = on /\ r.to = to /\ r.alone = alone
      /\ r.heard = heard
  BY <1>1
<1>3. [r EXCEPT !.state = x] = [op |-> op, list |-> list, on |-> on, to |-> to, state |-> x,
                                alone |-> alone, heard |-> heard, saw |-> saw]
  BY <1>1
<1>4. [r EXCEPT !.state = x, !.saw = y]
        = [op |-> op, list |-> list, on |-> on, to |-> to, state |-> x,
           alone |-> alone, heard |-> heard, saw |-> y]
  <2> DEFINE d == [op |-> op, list |-> list, on |-> on, to |-> to, state |-> x,
                   alone |-> alone, heard |-> heard, saw |-> saw]
  <2>1. [r EXCEPT !.state = x, !.saw = y] = [[r EXCEPT !.state = x] EXCEPT !.saw = y]
    BY <1>1
  <2>2. [d EXCEPT !.saw = y] = [op |-> op, list |-> list, on |-> on, to |-> to, state |-> x,
                                alone |-> alone, heard |-> heard, saw |-> y]
    OBVIOUS
  <2> QED BY <1>3, <2>1, <2>2
<1> QED BY <1>2, <1>4 DEF Sent, Ended

LEMMA SentFields ==
  ASSUME NEW op, NEW list, NEW on, NEW to, NEW state, NEW alone, NEW heard, NEW saw
  PROVE  LET r == Sent(op, list, on, to, state, alone, heard, saw) IN
         /\ r.op = op /\ r.list = list /\ r.on = on /\ r.to = to /\ r.state = state
         /\ r.alone = alone /\ r.heard = heard /\ r.saw = saw
         /\ r = Sent(r.op, r.list, r.on, r.to, r.state, r.alone, r.heard, r.saw)
  BY DEF Sent

LEMMA ChecksFit ==
  ASSUME NEW p \in Session!Paths, NEW r \in Session!Checks(p) PROVE Fits(r)
<1>1. r = Session!NeedsSetup(p) /\ p \in {"login", "setup", "signup"}
  BY DEF Session!Checks
<1>2. /\ r.op = "load" /\ r.list = "ready" /\ r.on = p /\ r.to = p /\ r.state = "asked"
      /\ r.alone = TRUE /\ r.heard = TRUE /\ r.saw = Gone
  BY <1>1 DEF Session!NeedsSetup, Session!Request
<1>3. r = Sent(r.op, r.list, r.on, r.to, r.state, r.alone, r.heard, r.saw)
  BY <1>1, <1>2 DEF Session!NeedsSetup, Session!Request, Sent
<1> QED BY <1>1, <1>2, <1>3 DEF Fits

\* A page is left and another one mounted.
LEMMA MountLands ==
  ASSUME NEW v, NEW others, InTab(v, others), NEW p \in Session!Paths
  PROVE  LET after == Session!Mount(v, p)
             requests == Session!Mounting(others, p)
         IN  InTab(after, requests) /\ Attended(after, requests)
<1> DEFINE after == Session!Mount(v, p)
           requests == Session!Mounting(others, p)
           aside(r) == [r EXCEPT !.to = IF r.list = "ready" \/ r.op = "login" THEN Gone ELSE @]
<1>1. /\ after \in TabStates /\ after.path = p /\ after.form = Session!FormOf(p)
      /\ after.busy = FALSE /\ after.loading = v.loading /\ after.marked = v.marked
      /\ after.forced = v.forced
  BY DEF InTab, TabStates, Session!Mount, Session!FormOf
<1>2. ASSUME NEW r \in others
      PROVE  /\ aside(r) = Sent(r.op, r.list, r.on,
                                IF r.list = "ready" \/ r.op = "login" THEN Gone ELSE r.to,
                                r.state, r.alone, r.heard, r.saw)
             /\ Fits(r)
  BY SentEdits DEF InTab, Fits
<1>3. ASSUME NEW r \in others
      PROVE  Fits(aside(r)) /\ (r.to \in {"me", "mine"} => aside(r).to = r.to)
  <2> DEFINE to == IF r.list = "ready" \/ r.op = "login" THEN Gone ELSE r.to
  <2>1. aside(r) = Sent(r.op, r.list, r.on, to, r.state, r.alone, r.heard, r.saw) /\ Fits(r)
    BY <1>2
  <2> HIDE DEF aside
  <2>2. /\ aside(r).op = r.op /\ aside(r).list = r.list /\ aside(r).on = r.on
        /\ aside(r).to = to /\ aside(r).state = r.state /\ aside(r).saw = r.saw
        /\ aside(r).alone = r.alone /\ aside(r).heard = r.heard
        /\ aside(r) = Sent(aside(r).op, aside(r).list, aside(r).on, aside(r).to,
                           aside(r).state, aside(r).alone, aside(r).heard, aside(r).saw)
    BY <2>1, SentFields
  <2> QED BY <2>1, <2>2, ClientAssumption DEF Fits, ClientAssumption
<1>4. requests = {aside(r) : r \in others} \cup Session!Checks(p)
  BY DEF Session!Mounting
<1>5. \A r \in Session!Checks(p) : Fits(r)
  BY ChecksFit
<1>6. p \in {"login", "setup"} =>
        \E r \in Session!Checks(p) : r.op = "load" /\ r.list = "ready" /\ r.to = p
  BY DEF Session!Checks, Session!NeedsSetup, Session!Request
<1> HIDE DEF after, requests, aside
<1>7. \A r \in requests : Fits(r)
  BY <1>3, <1>4, <1>5
<1>8. Awaited(after, requests)
  BY <1>1, <1>3, <1>4 DEF Awaited, InTab
<1>9. Attended(after, requests)
  BY <1>1, <1>4, <1>6 DEF Attended, Session!FormOf
<1> QED BY <1>1, <1>7, <1>8, <1>9 DEF after, requests, InTab, ReloadsMarked

LEMMA WherePaths ==
  ASSUME NEW p \in Session!Paths, NEW user, NEW loading
  PROVE  Session!Where(p, user, loading) \in Session!Paths
  BY DEF Session!Where, Session!Paths, Session!Guarded, Session!Forms

\* A redirect mounts the page it leads to; without one the tab stays as it was.
LEMMA GoLands ==
  ASSUME NEW v, NEW user, NEW others, InTab(v, others),
         Session!Where(v.path, user, v.loading) = v.path => Attended(v, others),
         Session!Go(v, user, others)
  PROVE  InTab(view', asked') /\ Attended(view', asked')
<1>1. v.path \in Session!Paths
  BY DEF InTab, TabStates
<1>2. CASE Session!Where(v.path, user, v.loading) = v.path
  BY <1>2 DEF Session!Go
<1>3. CASE Session!Where(v.path, user, v.loading) # v.path
  <2> DEFINE p == Session!Where(v.path, user, v.loading)
  <2>1. p \in Session!Paths
    BY <1>1, WherePaths
  <2>2. view' = Session!Mount(v, p) /\ asked' = Session!Mounting(others, p)
    BY <1>3 DEF Session!Go
  <2> HIDE DEF p
  <2> QED BY <2>1, <2>2, MountLands
<1> QED BY <1>2, <1>3

\* The requests that the module makes fit.
LEMMA NewFits ==
  /\ Fits(Session!WhoAmI) /\ Session!WhoAmI.to = "me"
  /\ Fits(Session!Preferences("mine")) /\ Session!Preferences("mine").to = "mine"
  /\ Fits(Session!Preferences("theirs")) /\ Fits(Session!Delay)
  /\ \A p \in Session!Paths : \A r \in Session!Checks(p) : Fits(r)
<1>1. /\ Fits(Session!WhoAmI) /\ Session!WhoAmI.to = "me"
      /\ Fits(Session!Preferences("mine")) /\ Session!Preferences("mine").to = "mine"
      /\ Fits(Session!Preferences("theirs"))
  BY DEF Session!WhoAmI, Session!Preferences, Session!Request, Fits, Sent
<1>3. Fits(Session!Delay)
  <2> DEFINE q == Session!Request("leave", "ready", Gone, Gone, Gone)
             d == Session!Delay
  <2>2. /\ q.op = "leave" /\ q.list = "ready" /\ q.on = Gone /\ q.to = Gone
        /\ q.alone = TRUE /\ q.heard = TRUE
        /\ q = Sent(q.op, q.list, q.on, q.to, q.state, q.alone, q.heard, q.saw)
    BY DEF Session!Request, Sent
  <2>3. d = [q EXCEPT !.state = "done"]
    BY DEF Session!Delay
  <2> HIDE DEF d, q
  <2>4. d = Sent(q.op, q.list, q.on, q.to, "done", q.alone, q.heard, q.saw)
    BY <2>2, <2>3, SentEdits
  <2>5. /\ d.op = "leave" /\ d.to = Gone /\ d.state = "done" /\ d.alone = TRUE /\ d.heard = TRUE
        /\ d = Sent(d.op, d.list, d.on, d.to, d.state, d.alone, d.heard, d.saw)
    BY <2>2, <2>4, SentFields
  <2>6. Fits(d)
    BY <2>5, ClientAssumption DEF Fits, ClientAssumption
  <2> QED BY <2>6 DEF d
<1>4. \A p \in Session!Paths : \A r \in Session!Checks(p) : Fits(r)
  BY ChecksFit
<1> QED BY <1>1, <1>3, <1>4

\* The tab is loaded again.
LEMMA FreshLands ==
  ASSUME NEW v \in TabStates, ReloadsMarked(v)
  PROVE  LET after == Session!Fresh(v)
             requests == {Session!WhoAmI} \cup Session!Checks(v.path)
         IN  /\ InTab(after, requests) /\ Attended(after, requests)
             /\ after.forced = v.forced /\ after.marked = v.marked
<1> DEFINE after == Session!Fresh(v)
           requests == {Session!WhoAmI} \cup Session!Checks(v.path)
<1>1. /\ after \in TabStates /\ after.path = v.path /\ after.form = Session!FormOf(v.path)
      /\ after.busy = FALSE /\ after.marked = v.marked /\ after.forced = v.forced
  BY DEF TabStates, Session!Fresh, Session!FormOf, Session!NoChunks
<1>2. \A r \in requests : Fits(r)
  BY NewFits DEF TabStates
<1>3. Awaited(after, requests)
  BY NewFits DEF Awaited
<1>4. v.path \in {"login", "setup"} =>
        \E r \in Session!Checks(v.path) : r.op = "load" /\ r.list = "ready" /\ r.to = v.path
  BY DEF Session!Checks, Session!NeedsSetup, Session!Request
<1> HIDE DEF after
<1>5. Attended(after, requests)
  BY <1>1, <1>4 DEF Attended, Session!FormOf
<1> QED BY <1>1, <1>2, <1>3, <1>5 DEF after, InTab, ReloadsMarked

\* One request is replaced by what became of it.
LEMMA ReplaceLands ==
  ASSUME NEW v, NEW requests, InTab(v, requests), Attended(v, requests),
         NEW r \in requests, NEW s, Fits(s), s.op = r.op, s.list = r.list, s.to = r.to
  PROVE  LET after == (requests \ {r}) \cup {s} IN InTab(v, after) /\ Attended(v, after)
  BY DEF InTab, Attended, Awaited

\* The backend answers.
LEMMA AnsweredKeeps ==
  ASSUME SessionInv, Session!Answered PROVE SessionInv'
<1>1. PICK r \in asked :
        /\ r.state = "asked"
        /\ \/ /\ Session!Accepts(r) /\ server' = Session!Effect(r)
              /\ asked' = (asked \ {r}) \cup {Session!Told(r)}
           \/ asked' = (asked \ {r}) \cup {Session!Refusal(r)} /\ UNCHANGED server
           \/ /\ Session!Accepts(r) /\ server' = Session!Effect(r)
              /\ asked' = (asked \ {r}) \cup {Session!Refusal(r)}
  BY DEF Session!Answered
<1>2. server \in Servers /\ Fits(r) /\ InTab(view, asked) /\ Attended(view, asked)
  BY DEF SessionInv, InTab
<1>3. server' \in Servers
  <2>1. Session!Effect(r) \in Servers
    BY <1>2 DEF Session!Effect, Servers, Users, Fits
  <2> QED BY <1>1, <1>2, <2>1
<1>4. PICK saw : Session!Told(r) = Sent(r.op, r.list, r.on, r.to, "done", r.alone, r.heard, saw)
                 /\ (r.op = "load" => saw = server)
  <2> DEFINE first == IF r.op \in Session!Brings THEN server'[r.list] ELSE r.saw
             a == Sent(r.op, r.list, r.on, r.to, "done", r.alone, r.heard, first)
             saw == IF r.op = "load" THEN server ELSE first
  <2>1. Session!Answer(r) = a
    <3> HIDE DEF first
    <3>3. r = Sent(r.op, r.list, r.on, r.to, r.state, r.alone, r.heard, r.saw)
      BY <1>2 DEF Fits
    <3>1. Ended(r, "done", first) = a
      BY <3>3, EndedSent
    <3>2. Session!Answer(r) = Ended(r, "done", first)
      BY DEF Session!Answer, first, Ended
    <3> QED BY <3>1, <3>2
  <2>2. Session!Told(r) = [a EXCEPT !.saw = IF r.op = "load" THEN server ELSE @]
    BY <2>1 DEF Session!Told
  <2> HIDE DEF first
  <2>3. /\ a.op = r.op /\ a.list = r.list /\ a.on = r.on /\ a.to = r.to /\ a.state = "done"
        /\ a.alone = r.alone /\ a.heard = r.heard /\ a.saw = first
        /\ a = Sent(a.op, a.list, a.on, a.to, a.state, a.alone, a.heard, a.saw)
    BY SentFields
  <2>4. Session!Told(r) = [a EXCEPT !.saw = saw]
    BY <2>2, <2>3
  <2> HIDE DEF a, saw
  <2>5. [a EXCEPT !.saw = saw] = Sent(a.op, a.list, a.on, a.to, a.state, a.alone, a.heard, saw)
    BY <2>3, SentEdits
  <2> QED BY <2>3, <2>4, <2>5 DEF saw
<1>5. /\ Fits(Session!Told(r)) /\ Session!Told(r).op = r.op
      /\ Session!Told(r).list = r.list /\ Session!Told(r).to = r.to
  <2> DEFINE t == Session!Told(r)
  <2>1. /\ t.op = r.op /\ t.list = r.list /\ t.on = r.on /\ t.to = r.to /\ t.saw = saw
        /\ t.state = "done" /\ t.alone = r.alone /\ t.heard = r.heard
        /\ t = Sent(t.op, t.list, t.on, t.to, t.state, t.alone, t.heard, t.saw)
    BY <1>4, SentFields
  <2> HIDE DEF t
  <2>2. Fits(t)
    BY <1>2, <1>4, <2>1 DEF Fits
  <2> QED BY <2>1, <2>2 DEF t
<1>6. /\ Fits(Session!Refusal(r)) /\ Session!Refusal(r).op = r.op
      /\ Session!Refusal(r).list = r.list /\ Session!Refusal(r).to = r.to
  <2> DEFINE t == Session!Refusal(r)
  <2>1. t = Sent(r.op, r.list, r.on, r.to, "refused", r.alone, r.heard, Gone)
    <3>1. Session!Refusal(r) = Ended(r, "refused", Gone)
      BY DEF Session!Refusal, Ended
    <3>2. r = Sent(r.op, r.list, r.on, r.to, r.state, r.alone, r.heard, r.saw)
      BY <1>2 DEF Fits
    <3>3. Ended(r, "refused", Gone)
            = Sent(r.op, r.list, r.on, r.to, "refused", r.alone, r.heard, Gone)
      BY <3>2, EndedSent
    <3> QED BY <3>1, <3>3
  <2>2. /\ t.op = r.op /\ t.list = r.list /\ t.on = r.on /\ t.to = r.to /\ t.state = "refused"
        /\ t.alone = r.alone /\ t.heard = r.heard
        /\ t = Sent(t.op, t.list, t.on, t.to, t.state, t.alone, t.heard, t.saw)
    BY <2>1, SentFields
  <2> HIDE DEF t
  <2>3. Fits(t)
    BY <1>2, <2>2 DEF Fits
  <2> QED BY <2>2, <2>3 DEF t
<1>7. InTab(view, asked') /\ Attended(view, asked')
  <2>1. CASE asked' = (asked \ {r}) \cup {Session!Told(r)}
    BY <1>2, <1>5, <2>1, ReplaceLands
  <2>2. CASE asked' = (asked \ {r}) \cup {Session!Refusal(r)}
    BY <1>2, <1>6, <2>2, ReplaceLands
  <2> QED BY <1>1, <2>1, <2>2
<1>8. view' = view /\ shown' = shown
  BY DEF Session!Answered
<1> QED BY <1>3, <1>7, <1>8 DEF SessionInv

\* One more request: those under way are no longer alone.
LEMMA AskLands ==
  ASSUME NEW op, NEW list, NEW on, NEW to, NEW v, InTab(v, asked), Attended(v, asked),
         op # "load", to \notin {"me", "mine", "theirs"},
         op = "login" => on \in Accounts /\ to \in {"login", Gone},
         Session!Ask(op, list, on, to)
  PROVE  /\ InTab(v, asked') /\ Attended(v, asked')
         /\ \E r \in asked' : r.op = op /\ r.to = to
<1> DEFINE yes == TRUE
           no == FALSE
           q == Session!Request(op, list, on, to, Gone)
           new == [q EXCEPT !.alone = asked = {}]
           aside(r) == [r EXCEPT !.alone = FALSE]
<1>1. asked' = {aside(r) : r \in asked} \cup {new}
  BY DEF Session!Ask, Session!AskSeeing, Session!Add
<1>2. ASSUME NEW r \in asked
      PROVE  /\ Fits(aside(r)) /\ aside(r).op = r.op /\ aside(r).list = r.list
             /\ aside(r).to = r.to
  <2>1. Fits(r) /\ r = Sent(r.op, r.list, r.on, r.to, r.state, r.alone, r.heard, r.saw)
    BY DEF InTab, Fits
  <2>2. aside(r) = Sent(r.op, r.list, r.on, r.to, r.state, no, r.heard, r.saw)
    BY <2>1, SentEdits
  <2> HIDE DEF aside, no
  <2>3. /\ aside(r).op = r.op /\ aside(r).list = r.list /\ aside(r).on = r.on
        /\ aside(r).to = r.to /\ aside(r).state = r.state /\ aside(r).saw = r.saw
        /\ aside(r).alone = no /\ aside(r).heard = r.heard
        /\ aside(r) = Sent(aside(r).op, aside(r).list, aside(r).on, aside(r).to,
                           aside(r).state, aside(r).alone, aside(r).heard, aside(r).saw)
    BY <2>2, SentFields
  <2>4. no \in BOOLEAN
    BY DEF no
  <2> QED BY <2>1, <2>3, <2>4 DEF Fits
<1>3. Fits(new) /\ new.op = op /\ new.to = to
  <2>1. q = Sent(op, list, on, to, "asked", yes, yes, Gone)
    BY DEF Session!Request, Sent
  <2> HIDE DEF q, yes
  <2>2. /\ q.op = op /\ q.list = list /\ q.on = on /\ q.to = to /\ q.state = "asked" /\ q.heard = yes
        /\ q = Sent(q.op, q.list, q.on, q.to, q.state, q.alone, q.heard, q.saw)
    BY <2>1, SentFields
  <2> DEFINE first == asked = {}
  <2>3. new = Sent(q.op, q.list, q.on, q.to, q.state, first, q.heard, q.saw) /\ first \in BOOLEAN
    BY <2>2, SentEdits
  <2>4. yes \in BOOLEAN
    BY DEF yes
  <2> HIDE DEF new, first
  <2>5. /\ new.op = op /\ new.on = on /\ new.to = to /\ new.state = "asked" /\ new.heard = yes
        /\ new.alone = first
        /\ new = Sent(new.op, new.list, new.on, new.to, new.state, new.alone, new.heard, new.saw)
    BY <2>2, <2>3, SentFields
  <2> QED BY <2>3, <2>4, <2>5 DEF Fits
<1> HIDE DEF aside, new
<1>4. \A r \in asked' : Fits(r)
  BY <1>1, <1>2, <1>3
<1>5. Awaited(v, asked')
  BY <1>1, <1>2 DEF Awaited, InTab
<1>6. Attended(v, asked')
  BY <1>1, <1>2 DEF Attended
<1> QED BY <1>1, <1>3, <1>4, <1>5, <1>6 DEF InTab

\* The requests of the forms: the button is disabled while one is under way.
LEMMA FormsKeep ==
  ASSUME SessionInv,
         \/ \E a \in Accounts : Session!Login(a)
         \/ Session!Submit \/ Session!Logout
  PROVE  SessionInv'
<1> DEFINE busied == [view EXCEPT !.busy = TRUE]
<1>1. /\ server \in Servers /\ shown \in Shown /\ InTab(view, asked) /\ Attended(view, asked)
      /\ view \in TabStates
  BY DEF SessionInv, InTab
<1>2. UNCHANGED <<server, shown>>
  BY DEF Session!Login, Session!Submit, Session!Logout
<1>3. view.path # Gone /\ view.path \notin {"me", "mine", "theirs"}
  BY <1>1, ClientAssumption
     DEF ClientAssumption, TabStates, Session!Paths, Session!Guarded, Session!Forms
<1>4. ASSUME NEW op, NEW list, NEW on, op \in {"login", "register"},
             op = "login" => on \in Accounts /\ view.path = "login",
             Session!Ask(op, list, on, view.path), view' = busied
      PROVE  InTab(view', asked') /\ Attended(view', asked')
  <2>1. /\ InTab(view, asked') /\ Attended(view, asked')
        /\ \E r \in asked' : r.op = op /\ r.to = view.path
    BY <1>1, <1>4, <1>3, AskLands
  <2>2. /\ view' \in TabStates /\ view'.path = view.path /\ view'.form = view.form
        /\ view'.loading = view.loading /\ view'.marked = view.marked
        /\ view'.forced = view.forced
    BY <1>1, <1>4 DEF TabStates
  <2>3. InTab(view', asked')
    BY <2>1, <2>2 DEF InTab, Awaited, ReloadsMarked
  <2>4. Attended(view', asked')
    BY <1>4, <2>1, <2>2 DEF Attended
  <2> QED BY <2>3, <2>4
<1> HIDE DEF busied
<1>5. CASE \E a \in Accounts : Session!Login(a)
  <2>1. PICK a \in Accounts : Session!Login(a)
    BY <1>5
  <2>2. /\ view.path = "login" /\ Session!Ask("login", "session", a, view.path)
        /\ view' = busied
    BY <2>1 DEF Session!Login, busied
  <2> DEFINE op == "login"
             list == "session"
  <2>3. op \in {"login", "register"}
    OBVIOUS
  <2>4. Session!Ask(op, list, a, view.path)
    BY <2>2
  <2> HIDE DEF op, list
  <2>5. InTab(view', asked') /\ Attended(view', asked')
    BY <1>4, <2>2, <2>3, <2>4
  <2> QED BY <1>1, <1>2, <2>5 DEF SessionInv
<1>6. CASE Session!Submit
  <2>1. /\ Session!Ask("register", "ready", view.path, view.path)
        /\ view' = busied
    BY <1>6 DEF Session!Submit, busied
  <2> DEFINE op == "register"
             list == "ready"
  <2>2. op \in {"login", "register"} /\ op # "login"
    OBVIOUS
  <2>3. Session!Ask(op, list, view.path, view.path)
    BY <2>1
  <2> HIDE DEF op, list
  <2>4. InTab(view', asked') /\ Attended(view', asked')
    BY <1>4, <2>1, <2>2, <2>3
  <2> QED BY <1>1, <1>2, <2>4 DEF SessionInv
<1>7. CASE Session!Logout
  <2>1. Session!Ask("logout", "session", Gone, Gone) /\ view' = view
    BY <1>7 DEF Session!Logout
  <2>2. Gone \notin {"me", "mine", "theirs"}
    BY ClientAssumption DEF ClientAssumption
  <2>3. InTab(view, asked') /\ Attended(view, asked')
    BY <1>1, <2>1, <2>2, AskLands
  <2> QED BY <1>1, <1>2, <2>1, <2>3 DEF SessionInv
<1> QED BY <1>5, <1>6, <1>7

\* The tab, its code and its cookie.
LEMMA TabKeeps ==
  ASSUME SessionInv,
         \/ Session!Reload \/ Session!ChunkArrives \/ Session!ChunkFails
         \/ Session!Deploy \/ Session!Expire \/ UNCHANGED pageVars
  PROVE  SessionInv'
<1>1. /\ server \in Servers /\ shown \in Shown /\ InTab(view, asked) /\ Attended(view, asked)
      /\ view \in TabStates /\ ReloadsMarked(view)
  BY DEF SessionInv, InTab
<1>2. [shown EXCEPT !.user = Nobody] \in Shown
  BY <1>1 DEF Shown, Users
<1>3. CASE Session!Reload
  <2>1. /\ view' = Session!Fresh(view) /\ asked' = {Session!WhoAmI} \cup Session!Checks(view.path)
        /\ shown' = [shown EXCEPT !.user = Nobody] /\ server' = server
    BY <1>3 DEF Session!Reload
  <2>2. InTab(view', asked') /\ Attended(view', asked')
    BY <1>1, <2>1, FreshLands
  <2> QED BY <1>1, <1>2, <2>1, <2>2 DEF SessionInv
<1>4. CASE Session!ChunkFails /\ view.marked
  <2>1. /\ view.path \in Session!Guarded
        /\ view' = [view EXCEPT !.chunk[view.path] = "failed"]
        /\ UNCHANGED <<server, shown, asked>>
    BY <1>4 DEF Session!ChunkFails, Session!Needed
  <2>2. /\ view' \in TabStates /\ view'.path = view.path /\ view'.form = view.form
        /\ view'.busy = view.busy /\ view'.loading = view.loading
        /\ view'.marked = view.marked /\ view'.forced = view.forced
    BY <1>1, <2>1 DEF TabStates
  <2>3. InTab(view', asked')
    BY <1>1, <2>1, <2>2 DEF InTab, Awaited, ReloadsMarked
  <2>4. Attended(view', asked')
    BY <1>1, <2>1, <2>2 DEF Attended
  <2> QED BY <1>1, <2>1, <2>3, <2>4 DEF SessionInv
<1>5. CASE Session!ChunkFails /\ ~view.marked
  <2> DEFINE v == Session!Fresh(view)
  <2>1. /\ view' = [v EXCEPT !.marked = TRUE, !.forced = @ + 1]
        /\ asked' = {Session!WhoAmI} \cup Session!Checks(view.path)
        /\ shown' = [shown EXCEPT !.user = Nobody] /\ server' = server
    BY <1>5 DEF Session!ChunkFails
  <2>2. /\ InTab(v, asked') /\ Attended(v, asked')
        /\ v.forced = view.forced /\ v.marked = view.marked
    BY <1>1, <2>1, FreshLands
  <2> HIDE DEF v
  <2>3. v \in TabStates /\ v.forced = 0
    BY <1>1, <1>5, <2>2 DEF InTab, ReloadsMarked
  <2>4. /\ view' \in TabStates /\ view'.path = v.path /\ view'.form = v.form
        /\ view'.busy = v.busy /\ view'.loading = v.loading
        /\ view'.marked = TRUE /\ view'.forced = 1
    <3> DEFINE next == v.forced + 1
    <3>1. next = 1
      BY <2>3
    <3>2. view' = [v EXCEPT !.marked = TRUE, !.forced = next]
      BY <2>1, <2>3 DEF TabStates
    <3> HIDE DEF next
    <3> QED BY <2>3, <3>1, <3>2 DEF TabStates
  <2>5. InTab(view', asked')
    BY <2>2, <2>4 DEF InTab, Awaited, ReloadsMarked
  <2>6. Attended(view', asked')
    BY <2>2, <2>4 DEF Attended
  <2> QED BY <1>1, <1>2, <2>1, <2>5, <2>6 DEF SessionInv
<1>6. CASE Session!ChunkArrives
  <2>1. /\ view.path \in Session!Guarded
        /\ \E second \in BOOLEAN :
             view' = [view EXCEPT !.chunk[view.path] = "here", !.forced = 0,
                                  !.marked = IF second THEN @ ELSE FALSE]
        /\ UNCHANGED <<server, shown, asked>>
    BY <1>6 DEF Session!ChunkArrives, Session!Needed
  <2>2. PICK second \in BOOLEAN :
          view' = [view EXCEPT !.chunk[view.path] = "here", !.forced = 0,
                               !.marked = IF second THEN @ ELSE FALSE]
    BY <2>1
  <2>3. /\ view' \in TabStates /\ view'.path = view.path /\ view'.form = view.form
        /\ view'.busy = view.busy /\ view'.loading = view.loading /\ view'.forced = 0
    <3> DEFINE chunk == [view.chunk EXCEPT ![view.path] = "here"]
               marked == IF second THEN view.marked ELSE FALSE
    <3>1. chunk \in [Session!Guarded -> {"none", "here", "failed"}] /\ marked \in BOOLEAN
      BY <1>1, <2>1 DEF TabStates
    <3>2. view' = [view EXCEPT !.chunk = chunk, !.forced = 0, !.marked = marked]
      BY <1>1, <2>2 DEF TabStates
    <3> HIDE DEF chunk, marked
    <3> QED BY <1>1, <3>1, <3>2 DEF TabStates
  <2>4. InTab(view', asked')
    BY <1>1, <2>1, <2>3 DEF InTab, Awaited, ReloadsMarked
  <2>5. Attended(view', asked')
    BY <1>1, <2>1, <2>3 DEF Attended
  <2> QED BY <1>1, <2>1, <2>4, <2>5 DEF SessionInv
<1>7. CASE Session!Deploy
  <2>1. view' = [view EXCEPT !.stale = TRUE] /\ UNCHANGED <<server, shown, asked>>
    BY <1>7 DEF Session!Deploy
  <2>2. /\ view' \in TabStates /\ view'.path = view.path /\ view'.form = view.form
        /\ view'.busy = view.busy /\ view'.loading = view.loading
        /\ view'.marked = view.marked /\ view'.forced = view.forced
    BY <1>1, <2>1 DEF TabStates
  <2>3. InTab(view', asked')
    BY <1>1, <2>1, <2>2 DEF InTab, Awaited, ReloadsMarked
  <2>4. Attended(view', asked')
    BY <1>1, <2>1, <2>2 DEF Attended
  <2> QED BY <1>1, <2>1, <2>3, <2>4 DEF SessionInv
<1>8. CASE Session!Expire
  <2>1. server' \in Servers /\ UNCHANGED <<shown, asked, view>>
    BY <1>1, <1>8 DEF Session!Expire, Servers, Users
  <2> QED BY <1>1, <2>1 DEF SessionInv
<1>9. CASE UNCHANGED pageVars
  BY <1>1, <1>9 DEF pageVars, SessionInv
<1> QED BY <1>3, <1>4, <1>5, <1>6, <1>7, <1>8, <1>9

\* A link is followed.
LEMMA NavigateKeeps ==
  ASSUME SessionInv, NEW p \in Session!Paths, Session!Navigate(p)
  PROVE  SessionInv'
<1>1. server \in Servers /\ shown \in Shown /\ InTab(view, asked)
  BY DEF SessionInv
<1>2. /\ view' = Session!Mount(view, p) /\ asked' = Session!Mounting(asked, p)
      /\ UNCHANGED <<server, shown>>
  BY DEF Session!Navigate
<1>3. InTab(view', asked') /\ Attended(view', asked')
  BY <1>1, <1>2, MountLands
<1> QED BY <1>1, <1>2, <1>3 DEF SessionInv

\* Nobody is left waiting when an answer is taken that the tab does not wait for.
LEMMA TakenLands ==
  ASSUME NEW v, NEW requests, InTab(v, requests), NEW r
  PROVE  /\ r.to \notin {"me", "mine"} => InTab(v, requests \ {r})
         /\ /\ r.op \notin {"login", "register"}
            /\ r.op = "load" => r.list # "ready"
            /\ Attended(v, requests)
            => Attended(v, requests \ {r})
<1>1. r.to \notin {"me", "mine"} => InTab(v, requests \ {r})
  BY DEF InTab, Awaited
<1>2. ASSUME r.op \notin {"login", "register"}, r.op = "load" => r.list # "ready",
             Attended(v, requests)
      PROVE  Attended(v, requests \ {r})
  BY <1>2 DEF Attended
<1> QED BY <1>1, <1>2

\* Who waits for the user no longer does.
LEMMA LoadedLands ==
  ASSUME NEW v, NEW requests, InTab(v, requests), NEW r
  PROVE  LET after == [v EXCEPT !.loading = FALSE] IN
         /\ InTab(after, requests \ {r}) /\ after.path = v.path
         /\ Attended(v, requests \ {r}) => Attended(after, requests \ {r})
<1> DEFINE after == [v EXCEPT !.loading = FALSE]
<1>1. /\ after \in TabStates /\ after.path = v.path /\ after.form = v.form /\ after.busy = v.busy
      /\ after.loading = FALSE /\ after.marked = v.marked /\ after.forced = v.forced
  BY DEF InTab, TabStates
<1> HIDE DEF after
<1>2. InTab(after, requests \ {r})
  BY <1>1 DEF InTab, Awaited, ReloadsMarked
<1>3. Attended(v, requests \ {r}) => Attended(after, requests \ {r})
  BY <1>1 DEF Attended
<1> QED BY <1>1, <1>2, <1>3 DEF after

LEMMA AddLands ==
  ASSUME NEW v, NEW requests, InTab(v, requests), NEW q, Fits(q)
  PROVE  /\ InTab(v, requests \cup {q})
         /\ Attended(v, requests) => Attended(v, requests \cup {q})
<1>1. InTab(v, requests \cup {q})
  BY DEF InTab, Awaited
<1>2. Attended(v, requests) => Attended(v, requests \cup {q})
  BY DEF Attended
<1> QED BY <1>1, <1>2

\* The answers of who the user is, and of the preferences.
LEMMA WhoKeeps ==
  ASSUME SessionInv,
         Session!WhoAnswered \/ Session!PreferencesAnswered \/ Session!LoginReturns
  PROVE  SessionInv'
<1>1. /\ server \in Servers /\ shown \in Shown /\ InTab(view, asked) /\ Attended(view, asked)
  BY DEF SessionInv
<1>2. ASSUME NEW r \in asked, r.to \in {"me", "mine", "theirs"}
      PROVE  /\ Attended(view, asked \ {r}) /\ Fits(r)
             /\ r.state = "done" => r.saw \in Servers
  BY <1>1, <1>2, TakenLands DEF InTab, Fits
<1>3. CASE Session!WhoAnswered
  <2>1. PICK r \in asked :
          /\ r.to = "me"
          /\ \/ /\ r.state = "done" /\ shown' = [shown EXCEPT !.user = r.saw.session]
                /\ Session!Go(view, r.saw.session, (asked \ {r}) \cup {Session!Preferences("mine")})
             \/ /\ shown' = [user |-> Nobody, prefs |-> Nobody]
                /\ Session!Go([view EXCEPT !.loading = FALSE], Nobody, asked \ {r})
    BY <1>3 DEF Session!WhoAnswered
  <2>2. shown' \in Shown
    BY <1>1, <1>2, <2>1 DEF Shown, Servers, Users
  <2>3. InTab(view', asked') /\ Attended(view', asked')
    <3>1. ASSUME NEW user,
                 Session!Go(view, user, (asked \ {r}) \cup {Session!Preferences("mine")})
          PROVE  InTab(view', asked') /\ Attended(view', asked')
      <4> DEFINE others == (asked \ {r}) \cup {Session!Preferences("mine")}
      <4>1. Fits(Session!Preferences("mine")) /\ Session!Preferences("mine").to = "mine"
        BY NewFits
      <4>2. InTab(view, others)
        BY <1>1, <4>1 DEF InTab, Awaited
      <4>3. Attended(view, others)
        BY <1>2, <2>1 DEF Attended
      <4> QED BY <3>1, <4>2, <4>3, GoLands
    <3>2. ASSUME Session!Go([view EXCEPT !.loading = FALSE], Nobody, asked \ {r})
          PROVE  InTab(view', asked') /\ Attended(view', asked')
      <4> DEFINE v == [view EXCEPT !.loading = FALSE]
      <4>1. InTab(v, asked \ {r}) /\ Attended(v, asked \ {r})
        BY <1>1, <1>2, <2>1, LoadedLands
      <4> QED BY <3>2, <4>1, GoLands
    <3> QED BY <2>1, <3>1, <3>2
  <2>4. server' = server
    BY <1>3 DEF Session!WhoAnswered
  <2> QED BY <1>1, <2>2, <2>3, <2>4 DEF SessionInv
<1>4. ASSUME NEW r \in asked, r.to \in {"me", "mine", "theirs"},
             shown' = IF r.state = "done" THEN [shown EXCEPT !.prefs = r.saw.session] ELSE shown
      PROVE  shown' \in Shown
  BY <1>1, <1>2, <1>4 DEF Shown, Servers, Users
<1>5. CASE Session!PreferencesAnswered
  <2>1. PICK r \in asked :
          /\ r.to = "mine"
          /\ shown' = IF r.state = "done" THEN [shown EXCEPT !.prefs = r.saw.session] ELSE shown
          /\ Session!Go([view EXCEPT !.loading = FALSE], shown.user, asked \ {r})
    BY <1>5 DEF Session!PreferencesAnswered
  <2> DEFINE v == [view EXCEPT !.loading = FALSE]
  <2>2. InTab(v, asked \ {r}) /\ Attended(v, asked \ {r})
    BY <1>1, <1>2, <2>1, LoadedLands
  <2>3. InTab(view', asked') /\ Attended(view', asked')
    BY <2>1, <2>2, GoLands
  <2>4. server' = server
    BY <1>5 DEF Session!PreferencesAnswered
  <2> QED BY <1>1, <1>4, <2>1, <2>3, <2>4 DEF SessionInv
<1>6. CASE Session!LoginReturns
  <2>1. PICK r \in asked :
          /\ r.to = "theirs"
          /\ shown' = IF r.state = "done" THEN [shown EXCEPT !.prefs = r.saw.session] ELSE shown
          /\ IF view.path = "home" THEN Session!Go(view, shown.user, asked \ {r})
             ELSE Session!Go(Session!Mount(view, "home"), shown.user,
                             Session!Mounting(asked \ {r}, "home"))
    BY <1>6 DEF Session!LoginReturns
  <2>2. InTab(view, asked \ {r}) /\ Attended(view, asked \ {r})
    BY <1>1, <1>2, <2>1, TakenLands
  <2>3. /\ InTab(Session!Mount(view, "home"), Session!Mounting(asked \ {r}, "home"))
        /\ Attended(Session!Mount(view, "home"), Session!Mounting(asked \ {r}, "home"))
    <3>1. "home" \in Session!Paths
      BY DEF Session!Paths, Session!Guarded
    <3> QED BY <2>2, <3>1, MountLands
  <2>4. InTab(view', asked') /\ Attended(view', asked')
    BY <2>1, <2>2, <2>3, GoLands
  <2>5. server' = server
    BY <1>6 DEF Session!LoginReturns
  <2> QED BY <1>1, <1>4, <2>1, <2>4, <2>5 DEF SessionInv
<1> QED BY <1>3, <1>5, <1>6

\* The answers to the login, and to the logout.
LEMMA LoginKeeps ==
  ASSUME SessionInv,
         Session!LoggedIn \/ Session!LoginRefused \/ Session!LoggedOut
  PROVE  SessionInv'
<1>1. /\ server \in Servers /\ shown \in Shown /\ InTab(view, asked) /\ Attended(view, asked)
      /\ view \in TabStates /\ view.path \in Session!Paths /\ view.path # Gone
  BY ClientAssumption DEF SessionInv, InTab, TabStates, ClientAssumption
<1>2. ASSUME NEW r \in asked, r.op \in {"login", "logout", "register", "leave"}
      PROVE  InTab(view, asked \ {r}) /\ Fits(r)
  BY <1>1, <1>2, TakenLands DEF InTab, Fits
<1>3. CASE Session!LoggedIn
  <2>1. PICK r \in asked :
          /\ r.op = "login"
          /\ shown' = [shown EXCEPT !.user = r.on]
          /\ Session!Go(view, r.on, (asked \ {r}) \cup {Session!Preferences("theirs")})
    BY <1>3 DEF Session!LoggedIn, Session!Answers
  <2> DEFINE others == (asked \ {r}) \cup {Session!Preferences("theirs")}
  <2>2. r.on \in Accounts /\ r.to \in {"login", Gone} /\ InTab(view, asked \ {r})
    BY <1>2, <2>1 DEF Fits
  <2>3. InTab(view, others)
    BY <2>2, NewFits, AddLands
  <2>4. ASSUME Session!Where(view.path, r.on, view.loading) = view.path
        PROVE  Attended(view, others)
    <3>1. view.path # "login"
      BY <2>2, <2>4, ClientAssumption
         DEF Session!Where, Session!Guarded, ClientAssumption
    <3>2. Attended(view, asked \ {r})
      BY <1>1, <2>1, <2>2, <3>1 DEF Attended
    <3> QED BY <2>2, <3>2, NewFits, AddLands
  <2>5. InTab(view', asked') /\ Attended(view', asked')
    BY <2>1, <2>3, <2>4, GoLands
  <2>6. shown' \in Shown /\ server' = server
    BY <1>1, <1>3, <2>1, <2>2 DEF Session!LoggedIn, Shown, Users
  <2> QED BY <1>1, <2>5, <2>6 DEF SessionInv
<1>4. CASE Session!LoginRefused
  <2>1. PICK r \in asked :
          /\ r.op = "login" /\ asked' = asked \ {r}
          /\ view' = IF r.to = view.path THEN [view EXCEPT !.busy = FALSE] ELSE view
    BY <1>4 DEF Session!LoginRefused, Session!Answers, Session!Land
  <2>2. InTab(view, asked')
    BY <1>2, <2>1
  <2>3. /\ view' \in TabStates /\ view'.path = view.path /\ view'.form = view.form
        /\ view'.busy => view.busy /\ r.to # view.path
        /\ view'.loading = view.loading
        /\ view'.marked = view.marked /\ view'.forced = view.forced
    BY <1>1, <2>1 DEF TabStates
  <2>4. InTab(view', asked')
    BY <2>2, <2>3 DEF InTab, Awaited, ReloadsMarked
  <2>5. Attended(view', asked')
    BY <1>1, <2>1, <2>3 DEF Attended
  <2>6. UNCHANGED <<server, shown>>
    BY <1>4 DEF Session!LoginRefused
  <2> QED BY <1>1, <2>4, <2>5, <2>6 DEF SessionInv
<1>5. CASE Session!LoggedOut
  <2>1. PICK r \in asked :
          /\ r.op = "logout"
          /\ shown' = [user |-> Nobody, prefs |-> Nobody]
          /\ Session!Go(view, Nobody, asked \ {r})
    BY <1>5 DEF Session!LoggedOut, Session!Answers
  <2>2. InTab(view, asked \ {r}) /\ Attended(view, asked \ {r})
    BY <1>1, <1>2, <2>1, TakenLands
  <2>3. InTab(view', asked') /\ Attended(view', asked')
    BY <2>1, <2>2, GoLands
  <2>4. shown' \in Shown /\ server' = server
    BY <1>5, <2>1 DEF Session!LoggedOut, Shown, Users
  <2> QED BY <1>1, <2>3, <2>4 DEF SessionInv
<1> QED BY <1>3, <1>4, <1>5

\* The answers to a new account, the delay that follows, and the check whether
\* there is an account at all.
LEMMA SetupKeeps ==
  ASSUME SessionInv,
         Session!Registered \/ Session!DelayIsOver \/ Session!SetupChecked
  PROVE  SessionInv'
<1>1. /\ server \in Servers /\ shown \in Shown /\ InTab(view, asked) /\ Attended(view, asked)
      /\ view \in TabStates /\ view.path \in Session!Paths
  BY DEF SessionInv, InTab, TabStates
<1>2. ASSUME NEW r \in asked, r.op \in {"register", "leave"} \/ r.list = "ready"
      PROVE  InTab(view, asked \ {r})
  BY <1>1, <1>2, TakenLands DEF InTab, Fits
<1>3. Fits(Session!Delay)
  BY NewFits
<1>4. UNCHANGED <<server, shown>>
  BY DEF Session!Registered, Session!DelayIsOver, Session!SetupChecked
<1>5. CASE Session!Registered
  <2>1. PICK r \in asked :
          /\ r.op = "register"
          /\ asked' = (asked \ {r}) \cup (IF r.state = "done" THEN {Session!Delay} ELSE {})
          /\ view' = IF r.to = view.path THEN [view EXCEPT !.busy = FALSE] ELSE view
    BY <1>5 DEF Session!Registered, Session!Answers
  <2>2. /\ view' \in TabStates /\ view'.path = view.path /\ view'.form = view.form
        /\ view'.busy => view.busy /\ r.to # view.path
        /\ view'.loading = view.loading
        /\ view'.marked = view.marked /\ view'.forced = view.forced
    BY <1>1, <2>1 DEF TabStates
  <2>3. InTab(view', asked \ {r})
    BY <1>2, <2>1, <2>2 DEF InTab, Awaited, ReloadsMarked
  <2>4. Attended(view', asked \ {r})
    BY <1>1, <2>1, <2>2 DEF Attended
  <2>5. InTab(view', asked') /\ Attended(view', asked')
    BY <1>3, <2>1, <2>3, <2>4, AddLands
  <2> QED BY <1>1, <1>4, <2>5 DEF SessionInv
<1>6. CASE Session!DelayIsOver
  <2>1. PICK r \in asked :
          /\ r.op = "leave"
          /\ IF view.path = "login" THEN Session!Go(view, shown.user, asked \ {r})
             ELSE Session!Go(Session!Mount(view, "login"), shown.user,
                             Session!Mounting(asked \ {r}, "login"))
    BY <1>6 DEF Session!DelayIsOver, Session!Answers
  <2>2. InTab(view, asked \ {r}) /\ Attended(view, asked \ {r})
    BY <1>1, <1>2, <2>1, TakenLands
  <2>3. /\ InTab(Session!Mount(view, "login"), Session!Mounting(asked \ {r}, "login"))
        /\ Attended(Session!Mount(view, "login"), Session!Mounting(asked \ {r}, "login"))
    <3>1. "login" \in Session!Paths
      BY DEF Session!Paths
    <3> QED BY <2>2, <3>1, MountLands
  <2>4. InTab(view', asked') /\ Attended(view', asked')
    BY <2>1, <2>2, <2>3, GoLands
  <2> QED BY <1>1, <1>4, <2>4 DEF SessionInv
<1>7. CASE Session!SetupChecked
  <2>1. PICK r \in asked :
          LET mine == r.to = view.path
              others == asked \ {r} IN
          /\ r.op = "load" /\ r.list = "ready"
          /\ \/ /\ view' = Session!Mount(view, "setup")
                /\ asked' = Session!Mounting(others, "setup")
             \/ /\ view' = CASE mine /\ r.on = "setup" ->
                                  [view EXCEPT !.form = IF r.state = "done" /\ ~r.saw.ready
                                                        THEN "open" ELSE "closed"]
                             [] mine /\ r.on # "setup" -> [view EXCEPT !.form = "open"]
                             [] OTHER -> view
                /\ asked' = IF r.on = "setup" /\ r.state = "done" /\ r.saw.ready
                            THEN others \cup {Session!Delay} ELSE others
    BY <1>7 DEF Session!SetupChecked
  <2>2. InTab(view, asked \ {r})
    BY <1>2, <2>1
  <2>3. CASE view' = Session!Mount(view, "setup") /\ asked' = Session!Mounting(asked \ {r}, "setup")
    <3>1. "setup" \in Session!Paths
      BY DEF Session!Paths, Session!Forms
    <3>2. InTab(view', asked') /\ Attended(view', asked')
      BY <2>2, <2>3, <3>1, MountLands
    <3> QED BY <1>1, <1>4, <3>2 DEF SessionInv
  <2>4. CASE /\ view' = CASE r.to = view.path /\ r.on = "setup" ->
                               [view EXCEPT !.form = IF r.state = "done" /\ ~r.saw.ready
                                                     THEN "open" ELSE "closed"]
                          [] r.to = view.path /\ r.on # "setup" -> [view EXCEPT !.form = "open"]
                          [] OTHER -> view
             /\ asked' = IF r.on = "setup" /\ r.state = "done" /\ r.saw.ready
                         THEN (asked \ {r}) \cup {Session!Delay} ELSE asked \ {r}
    <3>1. \/ /\ r.to = view.path
             /\ \E form \in {"open", "closed"} : view' = [view EXCEPT !.form = form]
          \/ r.to # view.path /\ view' = view
      BY <2>4
    <3>2. /\ view' \in TabStates /\ view'.path = view.path /\ view'.busy = view.busy
          /\ view'.form = "checking" => view.form = "checking" /\ r.to # view.path
          /\ view'.loading = view.loading
          /\ view'.marked = view.marked /\ view'.forced = view.forced
      BY <1>1, <3>1 DEF TabStates
    <3>3. InTab(view', asked \ {r})
      BY <2>2, <3>2 DEF InTab, Awaited, ReloadsMarked
    <3>4. Attended(view', asked \ {r})
      BY <1>1, <2>1, <3>2 DEF Attended
    <3>5. InTab(view', asked') /\ Attended(view', asked')
      BY <1>3, <2>4, <3>3, <3>4, AddLands
    <3> QED BY <1>1, <1>4, <3>5 DEF SessionInv
  <2> QED BY <2>1, <2>3, <2>4
<1> QED BY <1>5, <1>6, <1>7

LEMMA SessionStart == ASSUME Session!Init PROVE SessionInv
<1>1. PICK who \in Users, ready \in BOOLEAN, p \in Session!Paths :
        /\ server = [session |-> who, ready |-> ready]
        /\ asked = {Session!WhoAmI} \cup Session!Checks(p)
        /\ view = [path |-> p, loading |-> TRUE, form |-> Session!FormOf(p), busy |-> FALSE,
                   chunk |-> Session!NoChunks, stale |-> FALSE, marked |-> FALSE, forced |-> 0]
  BY DEF Session!Init, Users
<1>2. server \in Servers /\ shown \in Shown
  BY <1>1 DEF Session!Init, Servers, Shown, Users
<1>3. /\ view \in TabStates /\ view.path = p /\ view.form = Session!FormOf(p)
      /\ view.busy = FALSE /\ view.marked = FALSE /\ view.forced = 0
  BY <1>1 DEF TabStates, Session!FormOf, Session!NoChunks
<1>4. InTab(view, asked)
  BY <1>1, <1>3, NewFits DEF InTab, ReloadsMarked, Awaited
<1>5. p \in {"login", "setup"} =>
        \E r \in Session!Checks(p) : r.op = "load" /\ r.list = "ready" /\ r.to = p
  BY DEF Session!Checks, Session!NeedsSetup, Session!Request
<1>6. Attended(view, asked)
  BY <1>1, <1>3, <1>5 DEF Attended, Session!FormOf
<1> QED BY <1>2, <1>4, <1>6 DEF SessionInv

LEMMA SessionStep ==
  ASSUME SessionInv, [Session!Next]_pageVars PROVE SessionInv'
  BY TabKeeps, NavigateKeeps, WhoKeeps, LoginKeeps, SetupKeeps, FormsKeep, AnsweredKeeps
     DEF Session!Next

\* Of the pages only the session's is like that.
SessionHolds == page = "session" => SessionInv

LEMMA SessionAlways == Spec => []SessionHolds
<1>1. Init => SessionHolds
  BY SessionStart DEF Init, SessionHolds
<1>2. SessionHolds /\ [Next]_vars => SessionHolds'
  <2> SUFFICES ASSUME SessionHolds, [Next]_vars, page' = "session" PROVE SessionInv'
    BY DEF SessionHolds
  <2>1. page = "session" /\ [Session!Next]_pageVars
    BY DEF Next, vars
  <2> QED BY <2>1, SessionStep DEF SessionHolds
<1> QED BY <1>1, <1>2, PTL DEF Spec

\* The tab and its user have their types, whatever the order in which the answers
\* come and the pages are left: what a load is taken to have brought is what it
\* asked for.
THEOREM SessionTypeCorrect == Spec => [](page = "session" => Session!TypeOK)
<1>1. SessionHolds => (page = "session" => Session!TypeOK)
  BY DEF SessionHolds, SessionInv, Servers, Shown, Users, InTab, TabStates, Session!TypeOK
<1> QED BY <1>1, SessionAlways, PTL

\* App.tsx reloads the tab when a chunk does not arrive, and never twice for the
\* same chunk: the mark in sessionStorage outlives the reload.
THEOREM NoReloadLoopCorrect == Spec => []NoReloadLoop
<1>1. SessionHolds => NoReloadLoop
  BY DEF SessionHolds, SessionInv, InTab, ReloadsMarked, NoReloadLoop, Session!NoReloadLoop
<1> QED BY <1>1, SessionAlways, PTL

\* Nobody waits behind "Loading" or a disabled button for an answer that will
\* not come: each wait of the session has its request, also after the page that
\* sent it was left, after a redirect and after a reload.
THEOREM SessionSpinnersCorrect == Spec => [](page = "session" => Session!SpinnersHaveRequests)
<1>1. SessionHolds => (page = "session" => Session!SpinnersHaveRequests)
  BY DEF SessionHolds, SessionInv, InTab, Awaited, Attended, Session!SpinnersHaveRequests
<1> QED BY <1>1, SessionAlways, PTL

-----------------------------------------------------------------------------
(* The files of a torrent, in TorrentFilesList.tsx. *)

Groups == [priority : Tabs!Priorities, files : SUBSET Files]

\* The files to skip come last.
Ordered(groups) == \A i \in DOMAIN groups : groups[i].priority = "skip" => i = Len(groups)
Batches == {groups \in Seq(Groups) : groups # <<>> /\ Ordered(groups)}

\* With these groups still to be set, the files come to what was meant.
ComesTo(groups, files, saw) ==
  \A f \in Files :
    /\ \A i \in DOMAIN groups : f \in groups[i].files => saw[f] = groups[i].priority
    /\ (\A i \in DOMAIN groups : f \notin groups[i].files) => saw[f] = files[f]

Rest(r) == IF r.state = "asked" THEN r.to ELSE Tail(r.to)

Aimed(r) ==
  /\ r = Sent(r.op, r.list, r.on, r.to, r.state, r.alone, r.heard, r.saw)
  /\ r.op \in {"load", "apply", "add", "remove", "edit", "ban"}
  /\ r.op \in {"add", "remove", "ban"} => r.list \in {"trackers", "peers"}
  /\ r.op = "apply" => r.to \in Batches

Pursued(r, files) ==
  r.op = "apply" /\ r.alone /\ r.state # "refused" => ComesTo(Rest(r), files, r.saw)

\* A request that has been alone so far still is, and gets where it meant to.
Orderly(requests, files) ==
  /\ \A r \in requests : Aimed(r)
  /\ \A r \in requests : r.alone => requests = {r}
  /\ \A r \in requests : Pursued(r, files)

Pendings == [Files -> Tabs!Priorities \cup {Gone}]
Holding(v) == "pending" \in DOMAIN v /\ v.pending \in Pendings
BatchInv ==
  /\ "files" \in DOMAIN server
  /\ Holding(view)
  /\ Orderly(asked, server.files)

\* A request joins others: none of them is alone any more, unless there are none.
LEMMA JoinedOrderly ==
  ASSUME NEW others, \A r \in others : Aimed(r), NEW q, Aimed(q), NEW files,
         others = {} => (q.op = "apply" => q.state = "asked" /\ ComesTo(q.to, files, q.saw))
  PROVE  Orderly(Tabs!Add(others, q), files)
<1> DEFINE no == FALSE
           first == others = {}
           new == [q EXCEPT !.alone = first]
           aside(r) == [r EXCEPT !.alone = no]
           requests == Tabs!Add(others, q)
<1>1. requests = {aside(r) : r \in others} \cup {new}
  BY DEF Tabs!Add
<1>2. ASSUME NEW r \in others PROVE Aimed(aside(r)) /\ aside(r).alone = no
  <2>1. Aimed(r) /\ r = Sent(r.op, r.list, r.on, r.to, r.state, r.alone, r.heard, r.saw)
    BY DEF Aimed
  <2> HIDE DEF no
  <2>2. aside(r) = Sent(r.op, r.list, r.on, r.to, r.state, no, r.heard, r.saw)
    BY <2>1, SentEdits
  <2> HIDE DEF aside
  <2>3. /\ aside(r).op = r.op /\ aside(r).list = r.list /\ aside(r).to = r.to
        /\ aside(r).alone = no
        /\ aside(r) = Sent(aside(r).op, aside(r).list, aside(r).on, aside(r).to,
                           aside(r).state, aside(r).alone, aside(r).heard, aside(r).saw)
    BY <2>2, SentFields
  <2> QED BY <2>1, <2>3 DEF Aimed
<1>3. /\ Aimed(new) /\ new.op = q.op /\ new.to = q.to /\ new.state = q.state
      /\ new.saw = q.saw /\ new.alone = first
  <2>1. q = Sent(q.op, q.list, q.on, q.to, q.state, q.alone, q.heard, q.saw)
    BY DEF Aimed
  <2> HIDE DEF first
  <2>2. new = Sent(q.op, q.list, q.on, q.to, q.state, first, q.heard, q.saw)
    BY <2>1, SentEdits
  <2> HIDE DEF new
  <2>3. /\ new.op = q.op /\ new.list = q.list /\ new.to = q.to /\ new.state = q.state
        /\ new.saw = q.saw /\ new.alone = first
        /\ new = Sent(new.op, new.list, new.on, new.to, new.state, new.alone, new.heard, new.saw)
    BY <2>2, SentFields
  <2> QED BY <2>3 DEF Aimed
<1> HIDE DEF aside, new, requests
<1>4. \A r \in requests : Aimed(r)
  BY <1>1, <1>2, <1>3
<1>5. \A r \in requests : r.alone => requests = {r}
  BY <1>1, <1>2, <1>3
<1>6. \A r \in requests : Pursued(r, files)
  BY <1>1, <1>2, <1>3 DEF Pursued, Rest
<1> QED BY <1>4, <1>5, <1>6 DEF Orderly, requests

\* One request less, or another one in the place of one.
LEMMA LandedOrderly ==
  ASSUME NEW requests, NEW files, Orderly(requests, files), NEW r
  PROVE  Orderly(requests \ {r}, files)
  BY DEF Orderly

LEMMA ReplacedOrderly ==
  ASSUME NEW requests, NEW files, NEW after, Orderly(requests, files), NEW r \in requests,
         NEW s, Aimed(s), s.alone = r.alone, Pursued(s, after)
  PROVE  Orderly((requests \ {r}) \cup {s}, after)
<1>1. ASSUME NEW q \in requests, q # r PROVE ~q.alone
  BY <1>1 DEF Orderly
<1>2. \A q \in (requests \ {r}) \cup {s} : Aimed(q)
  BY DEF Orderly
<1>3. r.alone => requests = {r}
  BY DEF Orderly
<1>4. \A q \in (requests \ {r}) \cup {s} : q.alone => (requests \ {r}) \cup {s} = {q}
  BY <1>1, <1>3
<1>5. \A q \in (requests \ {r}) \cup {s} : Pursued(q, after)
  BY <1>1 DEF Pursued
<1> QED BY <1>2, <1>4, <1>5 DEF Orderly

\* What a page asks for is a request that fits.
LEMMA RequestAimed ==
  ASSUME NEW op, NEW list, NEW on, NEW to, NEW saw,
         op \in {"load", "apply", "add", "remove", "edit", "ban"},
         op \in {"add", "remove", "ban"} => list \in {"trackers", "peers"},
         op = "apply" => to \in Batches
  PROVE  LET q == Tabs!Request(op, list, on, to, saw)
         IN  Aimed(q) /\ q.op = op /\ q.state = "asked" /\ q.to = to /\ q.saw = saw
  BY DEF Tabs!Request, Aimed, Sent

\* The requests that were under way go on when nobody hears of them.
LEMMA UnheardAimed ==
  ASSUME \A r \in asked : Aimed(r)
  PROVE  \A r \in Tabs!Unheard : Aimed(r)
<1> SUFFICES ASSUME NEW r \in asked PROVE Aimed([r EXCEPT !.heard = FALSE])
  BY DEF Tabs!Unheard
<1> DEFINE no == FALSE
           s == [r EXCEPT !.heard = no]
<1>1. Aimed(r) /\ r = Sent(r.op, r.list, r.on, r.to, r.state, r.alone, r.heard, r.saw)
  BY DEF Aimed
<1> HIDE DEF no
<1>2. s = Sent(r.op, r.list, r.on, r.to, r.state, r.alone, no, r.saw)
  <2>1. PICK op, list, on, to, state, alone, heard, saw :
          r = [op |-> op, list |-> list, on |-> on, to |-> to, state |-> state,
               alone |-> alone, heard |-> heard, saw |-> saw]
    BY <1>1 DEF Sent
  <2>2. /\ r.op = op /\ r.list = list /\ r.on = on /\ r.to = to /\ r.state = state
        /\ r.alone = alone /\ r.saw = saw
    BY <2>1
  <2>3. s = [op |-> op, list |-> list, on |-> on, to |-> to, state |-> state,
             alone |-> alone, heard |-> no, saw |-> saw]
    BY <2>1
  <2> QED BY <2>2, <2>3 DEF Sent
<1> HIDE DEF s
<1>3. /\ s.op = r.op /\ s.list = r.list /\ s.to = r.to
      /\ s = Sent(s.op, s.list, s.on, s.to, s.state, s.alone, s.heard, s.saw)
  BY <1>2, SentFields
<1>4. Aimed(s)
  BY <1>1, <1>3 DEF Aimed
<1> QED BY <1>4 DEF s, no

\* A sequence made of a set has all its elements and no others.
LEMMA SequenceOfSet ==
  ASSUME NEW S, IsFiniteSet(S), NEW order \in Tabs!Orders(S)
  PROVE  /\ order \in Seq(S)
         /\ \A x \in S : \E i \in DOMAIN order : order[i] = x
<1>1. Tabs!Cardinality(S) = Cardinality(S)
  BY DEF Tabs!Cardinality, Cardinality
<1> DEFINE n == Cardinality(S)
<1>2. n \in Nat
  BY FS_CardinalityType
<1>3. /\ order \in [1..n -> S]
      /\ \A i, j \in 1..n : i # j => order[i] # order[j]
  BY <1>1 DEF Tabs!Orders
<1>4. order \in Injection(1..n, S)
  BY <1>3 DEF Injection, IsInjective
<1>5. IsFiniteSet(1..n) /\ Cardinality(1..n) = n
  BY <1>2, FS_Interval
<1>6. order \in Surjection(1..n, S)
  BY <1>4, <1>5, FS_Injection
<1>7. \A x \in S : \E i \in 1..n : order[i] = x
  BY <1>6 DEF Surjection
<1> HIDE DEF n
<1>8. order \in Seq(S) /\ DOMAIN order = 1..n
  BY <1>2, <1>3
<1> QED BY <1>7, <1>8

\* The groups of a batch are those of a batch, and get where the user meant to.
LEMMA BatchComes ==
  ASSUME view.pending \in Pendings, Tabs!Pending # {}, NEW groups \in Tabs!OrderedGroups
  PROVE  groups \in Batches /\ ComesTo(groups, server.files, Tabs!Outcome)
<1> DEFINE skip == "skip"
           others == Tabs!Chosen \ {skip}
           last == Tabs!Skipped
<1>1. PICK order \in Tabs!Orders(others) : groups = Tabs!Grouped(order \o last)
  BY DEF Tabs!OrderedGroups
<1>2. Tabs!Chosen \subseteq Tabs!Priorities /\ Tabs!Chosen # {}
  BY DEF Tabs!Chosen, Tabs!Pending, Pendings
<1>3. IsFiniteSet(others)
  <2>1. IsFiniteSet({"normal"}) /\ IsFiniteSet({"high"})
    BY FS_Singleton
  <2>2. IsFiniteSet({"normal"} \cup {"high"})
    BY <2>1, FS_Union
  <2>3. others \subseteq {"normal"} \cup {"high"}
    BY <1>2 DEF Tabs!Priorities
  <2> QED BY <2>2, <2>3, FS_Subset
<1>4. order \in Seq(others) /\ \A x \in others : \E i \in DOMAIN order : order[i] = x
  <2> HIDE DEF others
  <2> QED BY <1>1, <1>3, SequenceOfSet
<1>5. \/ skip \notin Tabs!Chosen /\ last = <<>>
      \/ skip \in Tabs!Chosen /\ last = <<skip>>
  BY DEF Tabs!Skipped
<1> DEFINE whole == order \o last
<1>6. /\ whole \in Seq(Tabs!Chosen)
      /\ \A x \in Tabs!Chosen : \E i \in DOMAIN whole : whole[i] = x
      /\ \A i \in DOMAIN whole : whole[i] = skip => i = Len(whole)
  <2> HIDE DEF last
  <2>1. CASE skip \notin Tabs!Chosen /\ last = <<>>
    <3>1. others = Tabs!Chosen /\ whole = order
      BY <1>4, <2>1
    <3> HIDE DEF others, whole
    <3> QED BY <1>4, <2>1, <3>1
  <2>2. CASE skip \in Tabs!Chosen /\ last = <<skip>>
    <3>1. \A i \in 1..Len(order) : order[i] \in others
      BY <1>4
    <3>2. /\ Len(whole) = Len(order) + 1 /\ DOMAIN whole = 1..(Len(order) + 1)
          /\ \A i \in 1..Len(order) : whole[i] = order[i]
          /\ whole[Len(order) + 1] = skip /\ Len(order) \in Nat
      BY <1>4, <2>2
    <3> HIDE DEF whole
    <3>3. \A i \in DOMAIN whole : whole[i] = skip => i = Len(whole)
      BY <3>1, <3>2
    <3>4. \A x \in Tabs!Chosen : \E i \in DOMAIN whole : whole[i] = x
      BY <1>4, <3>2
    <3>5. whole \in Seq(Tabs!Chosen)
      <4>1. order \in Seq(Tabs!Chosen) /\ <<skip>> \in Seq(Tabs!Chosen)
        BY <1>4, <2>2
      <4> QED BY <2>2, <4>1 DEF whole
    <3> QED BY <3>3, <3>4, <3>5
  <2> QED BY <1>5, <2>1, <2>2
<1>7. groups = [i \in DOMAIN whole |-> Tabs!Group(whole[i])]
  BY <1>1 DEF Tabs!Grouped
<1> HIDE DEF whole, others, last
<1>8. /\ DOMAIN groups = DOMAIN whole /\ DOMAIN whole = 1..Len(whole) /\ Len(whole) \in Nat
      /\ \A i \in DOMAIN whole :
           /\ groups[i].priority = whole[i]
           /\ groups[i].files = {f \in Files : view.pending[f] = whole[i]}
           /\ groups[i] \in Groups
  BY <1>2, <1>6, <1>7 DEF Tabs!Group, Groups
<1>9. groups \in Seq(Groups) /\ Len(groups) = Len(whole)
  BY <1>7, <1>8
<1>10. groups # <<>>
  BY <1>2, <1>6, <1>8
<1>11. Ordered(groups)
  BY <1>6, <1>8, <1>9 DEF Ordered
<1>12. ASSUME NEW f \in Files
       PROVE  /\ \A i \in DOMAIN groups : f \in groups[i].files => Tabs!Outcome[f] = groups[i].priority
              /\ (\A i \in DOMAIN groups : f \notin groups[i].files) => Tabs!Outcome[f] = server.files[f]
  <2>1. Tabs!Outcome[f] = IF f \in Tabs!Pending THEN view.pending[f] ELSE server.files[f]
    BY DEF Tabs!Outcome
  <2>2. ASSUME NEW i \in DOMAIN groups, f \in groups[i].files
        PROVE  Tabs!Outcome[f] = groups[i].priority
    <3>1. view.pending[f] = whole[i] /\ whole[i] \in Tabs!Priorities
      BY <1>2, <1>6, <1>8, <2>2
    <3>2. f \in Tabs!Pending
      BY <3>1, ClientAssumption DEF Tabs!Pending
    <3> QED BY <1>8, <2>1, <2>2, <3>1, <3>2
  <2>3. ASSUME \A i \in DOMAIN groups : f \notin groups[i].files
        PROVE  Tabs!Outcome[f] = server.files[f]
    <3>1. ASSUME f \in Tabs!Pending PROVE FALSE
      <4>1. view.pending[f] \in Tabs!Chosen
        BY <3>1 DEF Tabs!Chosen
      <4>2. PICK i \in DOMAIN whole : whole[i] = view.pending[f]
        BY <1>6, <4>1
      <4>3. f \in groups[i].files
        BY <1>8, <4>2
      <4> QED BY <1>8, <2>3, <4>3
    <3> QED BY <2>1, <3>1
  <2> QED BY <2>2, <2>3
<1> QED BY <1>9, <1>10, <1>11, <1>12 DEF Batches, ComesTo

LEMMA BlankHolds ==
  /\ Tabs!Blank("files") \in Pendings
  /\ \A tab : Holding(Tabs!Fresh(tab))
<1>1. Tabs!Blank("files") \in Pendings
  BY DEF Tabs!Blank, Tabs!Members, Pendings
<1> QED BY <1>1 DEF Tabs!Fresh, Holding

LEMMA AskOrderly ==
  ASSUME Orderly(asked, server.files),
         NEW op, NEW list, NEW on, NEW to, NEW saw,
         Tabs!AskSeeing(op, list, on, to, saw),
         op \in {"load", "apply", "add", "remove", "edit", "ban"},
         op \in {"add", "remove", "ban"} => list \in {"trackers", "peers"},
         op = "apply" => to \in Batches /\ ComesTo(to, server.files, saw)
  PROVE  Orderly(asked', server.files)
<1> DEFINE q == Tabs!Request(op, list, on, to, saw)
<1>1. asked' = Tabs!Add(asked, q)
  BY DEF Tabs!AskSeeing
<1>2. Aimed(q) /\ q.op = op /\ q.state = "asked" /\ q.to = to /\ q.saw = saw
  BY RequestAimed
<1>3. \A r \in asked : Aimed(r)
  BY DEF Orderly
<1> HIDE DEF q
<1> QED BY <1>1, <1>2, <1>3, JoinedOrderly

\* The user asks for something.
LEMMA AsksKeep ==
  ASSUME BatchInv,
         \/ Tabs!Retry \/ Tabs!PerformApply \/ Tabs!HandleAdd \/ Tabs!ConfirmBan
         \/ \E u \in Urls : Tabs!HandleRemove(u) \/ Tabs!HandleEditSave(u)
  PROVE  BatchInv'
<1>1. "files" \in DOMAIN server /\ Holding(view) /\ Orderly(asked, server.files)
  BY DEF BatchInv
<1>2. server' = server
  BY DEF Tabs!Retry, Tabs!PerformApply, Tabs!HandleAdd, Tabs!ConfirmBan, Tabs!HandleRemove,
         Tabs!HandleEditSave
<1>3. Holding(view')
  <2>1. CASE Tabs!Retry
    BY <1>1, <2>1 DEF Holding, Tabs!Retry
  <2>2. CASE Tabs!PerformApply
    BY <1>1, <2>2 DEF Holding, Tabs!PerformApply
  <2>3. CASE Tabs!HandleAdd
    BY <1>1, <2>3 DEF Holding, Tabs!HandleAdd
  <2>4. CASE Tabs!ConfirmBan
    BY <1>1, <2>4 DEF Holding, Tabs!ConfirmBan
  <2>5. CASE \E u \in Urls : Tabs!HandleRemove(u) \/ Tabs!HandleEditSave(u)
    BY <1>1, <2>5 DEF Holding, Tabs!HandleRemove, Tabs!HandleEditSave
  <2> QED BY <2>1, <2>2, <2>3, <2>4, <2>5
<1>4. CASE Tabs!PerformApply
  <2>1. PICK groups \in Tabs!OrderedGroups : Tabs!AskSeeing("apply", "files", Gone, groups, Tabs!Outcome)
    BY <1>4 DEF Tabs!PerformApply
  <2>2. Tabs!Pending # {} /\ view.pending \in Pendings
    BY <1>1, <1>4 DEF Tabs!PerformApply, Holding
  <2>3. groups \in Batches /\ ComesTo(groups, server.files, Tabs!Outcome)
    BY <2>2, BatchComes
  <2>4. Orderly(asked', server.files)
    BY <1>1, <2>1, <2>3, AskOrderly
  <2> QED BY <1>1, <1>2, <1>3, <2>4 DEF BatchInv
<1>5. CASE \/ Tabs!Retry \/ Tabs!HandleAdd \/ Tabs!ConfirmBan
           \/ \E u \in Urls : Tabs!HandleRemove(u) \/ Tabs!HandleEditSave(u)
  <2>1. PICK op, list, on, to :
          /\ Tabs!AskSeeing(op, list, on, to, Gone)
          /\ op \in {"load", "add", "remove", "edit", "ban"}
          /\ op \in {"add", "remove", "ban"} => list \in {"trackers", "peers"}
    BY <1>5 DEF Tabs!Retry, Tabs!HandleAdd, Tabs!ConfirmBan, Tabs!HandleRemove,
                Tabs!HandleEditSave, Tabs!Ask
  <2>2. Orderly(asked', server.files)
    BY <1>1, <2>1, AskOrderly
  <2> QED BY <1>1, <1>2, <1>3, <2>2 DEF BatchInv
<1> QED BY <1>4, <1>5

\* The user looks at something else, chooses, types or opens a dialog.
LEMMA LooksKeep ==
  ASSUME BatchInv,
         \/ \E f \in Files, priority \in Tabs!Priorities : Tabs!SetPendingPriority(f, priority)
         \/ Tabs!SelectAll \/ Tabs!SelectNone \/ Tabs!AskToApply \/ Tabs!CancelEdit \/ Tabs!CloseDialog
         \/ \E u \in Urls : Tabs!TypeUrl(u) \/ Tabs!StartEdit(u)
         \/ \E p \in Peers : Tabs!AskToBan(p)
  PROVE  BatchInv'
<1>1. "files" \in DOMAIN server /\ Holding(view) /\ Orderly(asked, server.files)
  BY DEF BatchInv
<1>2. server' = server /\ asked' = asked
  BY DEF Tabs!SetPendingPriority, Tabs!SelectAll, Tabs!SelectNone, Tabs!AskToApply, Tabs!CancelEdit,
         Tabs!CloseDialog, Tabs!TypeUrl, Tabs!StartEdit, Tabs!AskToBan, Tabs!Look, Tabs!Choose
<1>3. Holding(view')
  <2>1. CASE \E pending \in Pendings : Tabs!Choose(pending)
    BY <1>1, <2>1 DEF Holding, Tabs!Choose, Tabs!Look
  <2>2. CASE \E f \in Files, priority \in Tabs!Priorities : Tabs!SetPendingPriority(f, priority)
    <3>1. PICK f \in Files, priority \in Tabs!Priorities :
            Tabs!Choose([view.pending EXCEPT ![f] = priority])
      BY <2>2 DEF Tabs!SetPendingPriority
    <3>2. [view.pending EXCEPT ![f] = priority] \in Pendings
      BY <1>1 DEF Holding, Pendings
    <3> QED BY <2>1, <3>1, <3>2
  <2>3. CASE Tabs!SelectAll
    <3>1. [f \in Files |-> IF Tabs!Effective(f) = "skip" THEN "normal" ELSE view.pending[f]] \in Pendings
      BY <1>1 DEF Holding, Pendings, Tabs!Priorities
    <3> QED BY <2>1, <2>3, <3>1 DEF Tabs!SelectAll
  <2>4. CASE Tabs!SelectNone
    <3>1. [f \in Files |-> "skip"] \in Pendings
      BY DEF Pendings, Tabs!Priorities
    <3> QED BY <2>1, <2>4, <3>1 DEF Tabs!SelectNone
  <2>5. CASE Tabs!CancelEdit \/ \E u \in Urls : Tabs!TypeUrl(u) \/ Tabs!StartEdit(u)
    BY <1>1, <2>5 DEF Holding, Tabs!CancelEdit, Tabs!TypeUrl, Tabs!StartEdit, Tabs!Look
  <2>6. CASE Tabs!AskToApply \/ Tabs!CloseDialog \/ \E p \in Peers : Tabs!AskToBan(p)
    BY <1>1, <2>6 DEF Tabs!AskToApply, Tabs!CloseDialog, Tabs!AskToBan
  <2> QED BY <2>2, <2>3, <2>4, <2>5, <2>6
<1> QED BY <1>1, <1>2, <1>3 DEF BatchInv

\* Another tab is opened: of what was under way, only the changes go on.
LEMMA OpenKeeps ==
  ASSUME BatchInv, NEW tab, Tabs!OpenTab(tab) PROVE BatchInv'
<1> DEFINE going == {r \in Tabs!Unheard : r.op # "load"}
           q == Tabs!Request("load", tab, Gone, Gone, Gone)
<1>1. "files" \in DOMAIN server /\ Orderly(asked, server.files)
  BY DEF BatchInv
<1>2. server' = server /\ view' = Tabs!Fresh(tab) /\ asked' = Tabs!Add(going, q)
  BY DEF Tabs!OpenTab
<1>3. \A r \in going : Aimed(r)
  BY <1>1, UnheardAimed DEF Orderly
<1>4. Aimed(q) /\ q.op = "load"
  BY RequestAimed
<1> HIDE DEF going, q
<1>5. Orderly(asked', server.files)
  BY <1>2, <1>3, <1>4, JoinedOrderly
<1> QED BY <1>1, <1>2, <1>5, BlankHolds DEF BatchInv

\* A change is done, and the list is loaded again.
LEMMA LoadsAfterKeep ==
  ASSUME BatchInv, Tabs!Applied \/ Tabs!Added \/ Tabs!Edited PROVE BatchInv'
<1>1. "files" \in DOMAIN server /\ Holding(view) /\ Orderly(asked, server.files)
  BY DEF BatchInv
<1>2. server' = server /\ \E r, to : Tabs!LoadAfter(r, to)
  BY DEF Tabs!Applied, Tabs!Added, Tabs!Edited
<1>3. PICK r, to : asked' = Tabs!Add(asked \ {r}, Tabs!Request("load", view.tab, Gone, to, Gone))
  BY <1>2 DEF Tabs!LoadAfter
<1> DEFINE q == Tabs!Request("load", view.tab, Gone, to, Gone)
           others == asked \ {r}
<1>4. Aimed(q) /\ q.op = "load"
  BY RequestAimed
<1>5. \A x \in others : Aimed(x)
  BY <1>1 DEF Orderly
<1>6. asked' = Tabs!Add(others, q)
  BY <1>3
<1> HIDE DEF q, others
<1>7. Orderly(asked', server.files)
  BY <1>4, <1>5, <1>6, JoinedOrderly
<1>8. Holding(view')
  BY <1>1 DEF Holding, Tabs!Applied, Tabs!Added, Tabs!Edited
<1> QED BY <1>1, <1>2, <1>7, <1>8 DEF BatchInv

\* An answer is taken, or nobody hears of it.
LEMMA LandsKeep ==
  ASSUME BatchInv,
         \/ Tabs!TabLoaded \/ Tabs!AppliedUnheard \/ Tabs!ApplyRefused \/ Tabs!AddRefused
         \/ Tabs!Removed \/ Tabs!ChangeRefused \/ Tabs!Banned
         \/ Tabs!NobodyHears({"add", "remove", "edit", "ban"})
  PROVE  BatchInv'
<1>1. "files" \in DOMAIN server /\ Holding(view) /\ Orderly(asked, server.files)
  BY DEF BatchInv
<1>2. server' = server /\ \E r : Tabs!Land(r)
  BY DEF Tabs!TabLoaded, Tabs!AppliedUnheard, Tabs!ApplyRefused, Tabs!AddRefused, Tabs!Removed,
         Tabs!ChangeRefused, Tabs!Banned, Tabs!NobodyHears
<1>3. \E r : asked' = asked \ {r}
  BY <1>2 DEF Tabs!Land
<1>4. Orderly(asked', server.files)
  BY <1>1, <1>3, LandedOrderly
<1>5. Holding(view')
  <2>1. CASE Tabs!TabLoaded
    <3>1. PICK r :
            view' = [view EXCEPT !.loading = FALSE, !.error = @ \/ r.state = "refused",
                     !.pending = IF r.list = "files" /\ r.state = "done" THEN Tabs!Blank("files") ELSE @,
                     !.applying = @ /\ r.to # "applying", !.adding = @ /\ r.to # "adding",
                     !.pendingUrls = @ \ {r.to}]
      BY <2>1 DEF Tabs!TabLoaded
    <3> DEFINE pending == IF r.list = "files" /\ r.state = "done"
                          THEN Tabs!Blank("files") ELSE view.pending
               error == view.error \/ r.state = "refused"
               applying == view.applying /\ r.to # "applying"
               adding == view.adding /\ r.to # "adding"
               urls == view.pendingUrls \ {r.to}
               no == FALSE
    <3>2. pending \in Pendings
      BY <1>1, BlankHolds DEF Holding
    <3>3. view' = [view EXCEPT !.loading = no, !.error = error, !.pending = pending,
                               !.applying = applying, !.adding = adding, !.pendingUrls = urls]
      BY <3>1
    <3> HIDE DEF pending, error, applying, adding, urls, no
    <3> QED BY <1>1, <3>2, <3>3 DEF Holding
  <2>2. CASE Tabs!AppliedUnheard \/ Tabs!NobodyHears({"add", "remove", "edit", "ban"})
    BY <1>1, <2>2 DEF Tabs!AppliedUnheard, Tabs!NobodyHears
  <2>3. CASE Tabs!ApplyRefused
    BY <1>1, <2>3 DEF Holding, Tabs!ApplyRefused
  <2>4. CASE Tabs!AddRefused
    BY <1>1, <2>4 DEF Holding, Tabs!AddRefused
  <2>5. CASE Tabs!Removed
    BY <1>1, <2>5 DEF Holding, Tabs!Removed
  <2>6. CASE Tabs!ChangeRefused
    BY <1>1, <2>6 DEF Holding, Tabs!ChangeRefused
  <2>7. CASE Tabs!Banned
    BY <1>1, <2>7 DEF Holding, Tabs!Banned
  <2> QED BY <2>1, <2>2, <2>3, <2>4, <2>5, <2>6, <2>7
<1> QED BY <1>1, <1>2, <1>4, <1>5 DEF BatchInv

\* The groups after the first are those that are left.
LEMMA TailBatch ==
  ASSUME NEW groups \in Batches
  PROVE  /\ Head(groups) = groups[1] /\ groups[1] \in Groups
         /\ Len(groups) \in Nat \ {0} /\ DOMAIN groups = 1..Len(groups)
         /\ Tail(groups) \in Seq(Groups) /\ DOMAIN Tail(groups) = 1..(Len(groups) - 1)
         /\ \A i \in 1..(Len(groups) - 1) : Tail(groups)[i] = groups[i + 1]
         /\ Len(groups) > 1 => Tail(groups) \in Batches
         /\ groups[1].priority = "skip" => Len(groups) = 1
<1>1. groups \in Seq(Groups) /\ groups # <<>> /\ Ordered(groups)
  BY DEF Batches
<1>2. /\ Len(groups) \in Nat \ {0} /\ DOMAIN groups = 1..Len(groups)
      /\ groups[1] \in Groups /\ Head(groups) = groups[1]
  BY <1>1
<1>3. /\ Tail(groups) \in Seq(Groups) /\ Len(Tail(groups)) = Len(groups) - 1
      /\ DOMAIN Tail(groups) = 1..(Len(groups) - 1)
      /\ \A i \in 1..(Len(groups) - 1) : Tail(groups)[i] = groups[i + 1]
  BY <1>1, <1>2
<1>4. \A i \in 1..Len(groups) : groups[i].priority = "skip" => i = Len(groups)
  BY <1>1, <1>2 DEF Ordered
<1>5. groups[1].priority = "skip" => Len(groups) = 1
  <2>1. 1 \in 1..Len(groups)
    BY <1>2
  <2> QED BY <1>4, <2>1
<1>6. ASSUME Len(groups) > 1 PROVE Tail(groups) \in Batches
  <2>1. Tail(groups) # <<>>
    BY <1>1, <1>2, <1>3, <1>6
  <2>2. ASSUME NEW i \in DOMAIN Tail(groups), Tail(groups)[i].priority = "skip"
        PROVE  i = Len(Tail(groups))
    <3>1. i \in 1..(Len(groups) - 1) /\ i + 1 \in 1..Len(groups) /\ i \in Nat
      BY <1>2, <1>3, <2>2
    <3>2. groups[i + 1].priority = "skip"
      BY <1>3, <2>2, <3>1
    <3>3. i + 1 = Len(groups)
      BY <1>4, <3>1, <3>2
    <3>4. Len(Tail(groups)) = Len(groups) - 1 /\ Len(groups) \in Nat
      BY <1>2, <1>3
    <3> QED BY <3>1, <3>3, <3>4
  <2> QED BY <1>3, <2>1, <2>2 DEF Batches, Ordered
<1> QED BY <1>2, <1>3, <1>5, <1>6

\* The next group of a batch goes out.
LEMMA NextGroupKeeps ==
  ASSUME BatchInv, Tabs!NextGroup PROVE BatchInv'
<1>1. "files" \in DOMAIN server /\ Holding(view) /\ Orderly(asked, server.files)
  BY DEF BatchInv
<1>2. PICK r \in asked :
        /\ r.op = "apply" /\ r.state = "done" /\ Len(r.to) > 1
        /\ asked' = (asked \ {r}) \cup {[r EXCEPT !.to = Tail(r.to), !.state = "asked"]}
  BY DEF Tabs!NextGroup
<1> DEFINE rest == Tail(r.to)
           t == [r EXCEPT !.to = rest]
           s == [t EXCEPT !.state = "asked"]
<1>3. Aimed(r) /\ Pursued(r, server.files)
  BY <1>1, <1>2 DEF Orderly
<1>4. rest \in Batches
  BY <1>2, <1>3, TailBatch DEF Aimed
<1>5. s = [r EXCEPT !.to = Tail(r.to), !.state = "asked"]
  <2>1. r = Sent(r.op, r.list, r.on, r.to, r.state, r.alone, r.heard, r.saw)
    BY <1>3 DEF Aimed
  <2> HIDE DEF rest
  <2>2. [r EXCEPT !.to = rest, !.state = "asked"] = [[r EXCEPT !.to = rest] EXCEPT !.state = "asked"]
    BY <2>1
  <2> QED BY <2>2 DEF rest
<1>6. /\ t.op = r.op /\ t.to = rest /\ t.list = r.list /\ t.alone = r.alone /\ t.saw = r.saw
      /\ t = Sent(t.op, t.list, t.on, t.to, t.state, t.alone, t.heard, t.saw)
  <2> HIDE DEF rest
  <2>1. t = Sent(r.op, r.list, r.on, rest, r.state, r.alone, r.heard, r.saw)
    BY <1>3, SentEdits DEF Aimed
  <2> HIDE DEF t
  <2> QED BY <2>1, SentFields
<1>7. /\ s.op = r.op /\ s.to = rest /\ s.list = r.list /\ s.alone = r.alone /\ s.saw = r.saw
      /\ s.state = "asked"
      /\ s = Sent(s.op, s.list, s.on, s.to, s.state, s.alone, s.heard, s.saw)
  <2> HIDE DEF t, rest
  <2>1. s = Sent(t.op, t.list, t.on, t.to, "asked", t.alone, t.heard, t.saw)
    <3> DEFINE x == "asked"
    <3> HIDE DEF x
    <3>1. [t EXCEPT !.state = x] = Sent(t.op, t.list, t.on, t.to, x, t.alone, t.heard, t.saw)
      BY <1>6, SentEdits
    <3> QED BY <3>1 DEF x
  <2> HIDE DEF s
  <2> QED BY <1>6, <2>1, SentFields
<1> HIDE DEF s, t, rest
<1>8. Aimed(s)
  BY <1>2, <1>3, <1>4, <1>7 DEF Aimed
<1>9. Pursued(s, server.files)
  BY <1>2, <1>3, <1>7 DEF Pursued, Rest, rest
<1>10. asked' = (asked \ {r}) \cup {s}
  BY <1>2, <1>5
<1>11. Orderly(asked', server.files)
  <2>1. r \in asked /\ s.alone = r.alone
    BY <1>2, <1>7
  <2>2. Orderly((asked \ {r}) \cup {s}, server.files)
    BY <1>1, <1>8, <1>9, <2>1, ReplacedOrderly
  <2> QED BY <1>10, <2>2
<1>12. server' = server /\ view' = view
  BY DEF Tabs!NextGroup
<1> QED BY <1>1, <1>11, <1>12 DEF BatchInv

\* One group less to set, and these files set: still on the way.
LEMMA HeadComes ==
  ASSUME NEW groups \in Batches, NEW files, NEW saw, ComesTo(groups, files, saw)
  PROVE  ComesTo(Tail(groups),
                 [f \in Files |-> IF f \in Head(groups).files THEN Head(groups).priority ELSE files[f]],
                 saw)
<1> DEFINE head == Head(groups)
           rest == Tail(groups)
           n == Len(groups)
           after == [f \in Files |-> IF f \in head.files THEN head.priority ELSE files[f]]
<1>1. /\ head = groups[1] /\ n \in Nat \ {0} /\ DOMAIN groups = 1..n
      /\ DOMAIN rest = 1..(n - 1) /\ \A i \in 1..(n - 1) : rest[i] = groups[i + 1]
  BY TailBatch
<1> HIDE DEF head, rest, n
<1>2. \A i \in 1..(n - 1) : i + 1 \in 1..n
  BY <1>1
<1>3. ASSUME NEW f \in Files
      PROVE  /\ \A i \in DOMAIN rest : f \in rest[i].files => saw[f] = rest[i].priority
             /\ (\A i \in DOMAIN rest : f \notin rest[i].files) => saw[f] = after[f]
  <2>1. /\ \A i \in 1..n : f \in groups[i].files => saw[f] = groups[i].priority
        /\ (\A i \in 1..n : f \notin groups[i].files) => saw[f] = files[f]
    BY <1>1 DEF ComesTo
  <2>2. \A i \in DOMAIN rest : f \in rest[i].files => saw[f] = rest[i].priority
    BY <1>1, <1>2, <2>1
  <2>3. ASSUME \A i \in DOMAIN rest : f \notin rest[i].files PROVE saw[f] = after[f]
    <3>1. CASE f \in head.files
      <4>1. 1 \in 1..n
        BY <1>1
      <4> QED BY <1>1, <2>1, <3>1, <4>1
    <3>2. CASE f \notin head.files
      <4>1. ASSUME NEW i \in 1..n PROVE f \notin groups[i].files
        <5>1. CASE i = 1
          BY <1>1, <3>2, <5>1
        <5>2. CASE i # 1
          <6>1. i - 1 \in 1..(n - 1) /\ (i - 1) + 1 = i
            BY <1>1, <5>2
          <6>2. rest[i - 1] = groups[i]
            BY <1>1, <6>1
          <6> QED BY <1>1, <2>3, <6>1, <6>2
        <5> QED BY <5>1, <5>2
      <4> QED BY <2>1, <3>2, <4>1
    <3> QED BY <3>1, <3>2
  <2> QED BY <2>2, <2>3
<1>4. ComesTo(rest, after, saw)
  <2> HIDE DEF after
  <2> QED BY <1>3 DEF ComesTo
<1> QED BY <1>4 DEF rest, after, head

\* What the worker does for a request, and what that leaves of a batch.
LEMMA EffectComes ==
  ASSUME BatchInv, NEW r \in asked, r.state = "asked"
  PROVE  /\ "files" \in DOMAIN Tabs!Effect(r)
         /\ r.op # "apply" => Tabs!Effect(r).files = server.files
         /\ r.op = "apply" =>
              Tabs!Effect(r).files =
                [f \in Files |-> IF f \in Head(r.to).files THEN Head(r.to).priority ELSE server.files[f]]
         /\ r.op = "apply" /\ r.alone => ComesTo(Tail(r.to), Tabs!Effect(r).files, r.saw)
<1>1. "files" \in DOMAIN server /\ Aimed(r) /\ Pursued(r, server.files)
  BY DEF BatchInv, Orderly
<1>2. CASE r.op = "load"
  BY <1>1, <1>2 DEF Tabs!Effect
<1>3. CASE r.op = "apply"
  <2> DEFINE files == [f \in Files |-> IF f \in Head(r.to).files THEN Head(r.to).priority
                                       ELSE server.files[f]]
  <2>1. Tabs!Effect(r) = [server EXCEPT !.files = files]
    BY <1>3 DEF Tabs!Effect
  <2>2. r.alone => ComesTo(Tail(r.to), files, r.saw)
    <3> SUFFICES ASSUME r.alone PROVE ComesTo(Tail(r.to), files, r.saw)
      OBVIOUS
    <3>1. r.to \in Batches /\ ComesTo(r.to, server.files, r.saw)
      BY <1>1, <1>3 DEF Aimed, Pursued, Rest
    <3> QED BY <3>1, HeadComes
  <2> HIDE DEF files
  <2>3. "files" \in DOMAIN Tabs!Effect(r) /\ Tabs!Effect(r).files = files
    BY <1>1, <2>1
  <2> QED BY <1>3, <2>2, <2>3 DEF files
<1>4. CASE r.op = "edit"
  <2>1. Tabs!Effect(r) = [server EXCEPT !.trackers[r.on] = Gone, !.trackers[r.to] = "there"]
    BY <1>4 DEF Tabs!Effect
  <2> QED BY <1>1, <1>4, <2>1
<1>5. CASE r.op \in {"add", "remove", "ban"}
  <2>1. Tabs!Effect(r) = [server EXCEPT ![r.list][r.on] = r.to]
    BY <1>5 DEF Tabs!Effect
  <2>2. r.list # "files"
    BY <1>1, <1>5 DEF Aimed
  <2> QED BY <1>1, <1>5, <2>1, <2>2
<1> QED BY <1>1, <1>2, <1>3, <1>4, <1>5 DEF Aimed

\* The worker reaches a request of the page.
ServedTabs == Tabs!Serve(Tabs!Effect, Tabs!Accepts)

LEMMA Served ==
  ASSUME ServedTabs
  PROVE  /\ view' = view
         /\ \E r \in asked :
              /\ r.state = "asked"
              /\ \/ /\ server' = Tabs!Effect(r)
                    /\ asked' = (asked \ {r}) \cup {Tabs!Answer(r)}
                 \/ server' = server /\ asked' = (asked \ {r}) \cup {Tabs!Refusal(r)}
                 \/ server' = Tabs!Effect(r) /\ asked' = (asked \ {r}) \cup {Tabs!Refusal(r)}
  BY DEF ServedTabs, Tabs!Serve, Tabs!Effect, Tabs!Accepts

\* An answer is for its request, and so is a refusal.
LEMMA AnswerAimed ==
  ASSUME NEW r, Aimed(r)
  PROVE  /\ Aimed(Tabs!Answer(r)) /\ Tabs!Answer(r).alone = r.alone
         /\ Tabs!Answer(r).op = r.op /\ Tabs!Answer(r).to = r.to
         /\ Tabs!Answer(r).state = "done" /\ (r.op = "apply" => Tabs!Answer(r).saw = r.saw)
         /\ Aimed(Tabs!Refusal(r)) /\ Tabs!Refusal(r).alone = r.alone
         /\ Tabs!Refusal(r).op = r.op /\ Tabs!Refusal(r).state = "refused"
<1> DEFINE done == "done"
           refused == "refused"
           saw == IF r.op \in Tabs!Brings THEN server'[r.list] ELSE r.saw
           a == Ended(r, done, saw)
           z == Ended(r, refused, Gone)
<1>1. r = Sent(r.op, r.list, r.on, r.to, r.state, r.alone, r.heard, r.saw)
  BY DEF Aimed
<1>2. Tabs!Answer(r) = a /\ Tabs!Refusal(r) = z
  BY DEF Tabs!Answer, Tabs!Refusal, Ended
<1>3. r.op = "apply" => saw = r.saw
  BY DEF Tabs!Brings
<1>4. done = "done" /\ refused = "refused"
  OBVIOUS
<1> HIDE DEF done, refused, saw
<1>5. /\ a = Sent(r.op, r.list, r.on, r.to, done, r.alone, r.heard, saw)
      /\ z = Sent(r.op, r.list, r.on, r.to, refused, r.alone, r.heard, Gone)
  BY <1>1, EndedSent
<1> HIDE DEF a, z
<1>6. /\ a.op = r.op /\ a.list = r.list /\ a.to = r.to /\ a.state = done /\ a.alone = r.alone
      /\ a.saw = saw /\ a = Sent(a.op, a.list, a.on, a.to, a.state, a.alone, a.heard, a.saw)
  BY <1>5, SentFields
<1>7. /\ z.op = r.op /\ z.list = r.list /\ z.to = r.to /\ z.state = refused /\ z.alone = r.alone
      /\ z = Sent(z.op, z.list, z.on, z.to, z.state, z.alone, z.heard, z.saw)
  BY <1>5, SentFields
<1>8. Aimed(a)
  BY <1>6 DEF Aimed
<1>9. Aimed(z)
  BY <1>7 DEF Aimed
<1> QED BY <1>2, <1>3, <1>4, <1>6, <1>7, <1>8, <1>9

LEMMA ServeKeeps == ASSUME BatchInv, ServedTabs PROVE BatchInv'
<1>1. "files" \in DOMAIN server /\ Holding(view) /\ Orderly(asked, server.files)
  BY DEF BatchInv
<1>2. PICK r \in asked :
        /\ r.state = "asked"
        /\ \/ /\ server' = Tabs!Effect(r)
              /\ asked' = (asked \ {r}) \cup {Tabs!Answer(r)}
           \/ server' = server /\ asked' = (asked \ {r}) \cup {Tabs!Refusal(r)}
           \/ server' = Tabs!Effect(r) /\ asked' = (asked \ {r}) \cup {Tabs!Refusal(r)}
  BY Served
<1>3. view' = view
  BY Served
<1> DEFINE a == Tabs!Answer(r)
           z == Tabs!Refusal(r)
           after == Tabs!Effect(r)
<1>4. Aimed(r)
  BY <1>1 DEF Orderly
<1>5. /\ Aimed(a) /\ a.alone = r.alone /\ a.op = r.op /\ a.to = r.to /\ a.state = "done"
      /\ r.op = "apply" => a.saw = r.saw
      /\ Aimed(z) /\ z.alone = r.alone /\ z.state = "refused"
  BY <1>4, AnswerAimed
<1>6. "files" \in DOMAIN after /\ (r.op = "apply" /\ r.alone => ComesTo(Tail(r.to), after.files, r.saw))
  BY <1>2, EffectComes
<1> HIDE DEF a, z, after
<1>7. Pursued(a, after.files)
  BY <1>5, <1>6 DEF Pursued, Rest
<1>8. \A files : Pursued(z, files)
  BY <1>5 DEF Pursued
<1>9. Orderly((asked \ {r}) \cup {a}, after.files)
  BY <1>1, <1>5, <1>7, ReplacedOrderly
<1>10. \A files : Orderly((asked \ {r}) \cup {z}, files)
  BY <1>1, <1>5, <1>8, ReplacedOrderly
<1>11. Orderly(asked', server'.files)
  BY <1>2, <1>9, <1>10 DEF a, z, after
<1>12. "files" \in DOMAIN server'
  BY <1>1, <1>2, <1>6 DEF after
<1> QED BY <1>1, <1>3, <1>11, <1>12 DEF BatchInv

\* Where a tab of the details is opened nothing is gathered and one load is under way.
LEMMA TabsStart == ASSUME Tabs!Init PROVE BatchInv
<1>1. "files" \in DOMAIN server
  BY DEF Tabs!Init
<1>2. PICK tab \in Tabs!Tabs :
        view = Tabs!Fresh(tab) /\ asked = {Tabs!Request("load", tab, Gone, Gone, Gone)}
  BY DEF Tabs!Init, Tabs!Mounted
<1> DEFINE q == Tabs!Request("load", tab, Gone, Gone, Gone)
<1>3. Aimed(q) /\ q.op = "load"
  BY RequestAimed
<1>4. asked = {q}
  BY <1>2
<1> HIDE DEF q
<1>5. Orderly(asked, server.files)
  BY <1>3, <1>4 DEF Orderly, Pursued
<1> QED BY <1>1, <1>2, <1>5, BlankHolds DEF BatchInv

LEMMA TabsStep == ASSUME BatchInv, [Tabs!Next]_pageVars PROVE BatchInv'
<1>1. CASE UNCHANGED pageVars
  BY <1>1 DEF pageVars, BatchInv
<1>2. CASE Tabs!Next
  BY <1>2, OpenKeeps, AsksKeep, LooksKeep, LandsKeep, LoadsAfterKeep, NextGroupKeeps, ServeKeeps
     DEF Tabs!Next, ServedTabs
<1> QED BY <1>1, <1>2

\* Only the worker changes the files, and on the way of a batch that is alone
\* they come to be deselected only where the batch ends with none selected.
LEMMA ServeKeepsASelection ==
  ASSUME BatchInv, ServedTabs PROVE Tabs!BatchKeepsASelection
<1> SUFFICES ASSUME ~Tabs!NothingSelected, Tabs!NothingSelected'
             PROVE  \E r \in asked : r.op = "apply" /\ (~r.alone \/ \A f \in Files : r.saw[f] = "skip")
  BY DEF Tabs!BatchKeepsASelection
<1>1. \A f \in Files : server'.files[f] = "skip"
  BY DEF Tabs!NothingSelected
<1>2. PICK some \in Files : server.files[some] # "skip"
  BY DEF Tabs!NothingSelected
<1>3. PICK r \in asked : r.state = "asked" /\ (server' = Tabs!Effect(r) \/ server' = server)
  BY Served
<1>4. server' = Tabs!Effect(r)
  BY <1>1, <1>2, <1>3
<1> DEFINE files == [f \in Files |-> IF f \in Head(r.to).files THEN Head(r.to).priority
                                     ELSE server.files[f]]
<1>5. /\ r.op # "apply" => server'.files = server.files
      /\ r.op = "apply" => server'.files = files
      /\ r.op = "apply" /\ r.alone => ComesTo(Tail(r.to), server'.files, r.saw)
  BY <1>3, <1>4, EffectComes
<1>6. r.op = "apply"
  BY <1>1, <1>2, <1>5
<1>7. r.to \in Batches
  BY <1>6 DEF BatchInv, Orderly, Aimed
<1>8. some \in Head(r.to).files /\ Head(r.to).priority = "skip"
  BY <1>1, <1>2, <1>5, <1>6
<1>9. DOMAIN Tail(r.to) = {}
  <2>1. Len(r.to) = 1 /\ DOMAIN Tail(r.to) = 1..(Len(r.to) - 1)
    BY <1>7, <1>8, TailBatch
  <2> QED BY <2>1
<1>10. ASSUME r.alone PROVE \A f \in Files : r.saw[f] = "skip"
  BY <1>1, <1>5, <1>6, <1>9, <1>10 DEF ComesTo
<1> QED BY <1>3, <1>6, <1>10

LEMMA TabsKeepASelection ==
  ASSUME BatchInv, [Tabs!Next]_pageVars PROVE Tabs!BatchKeepsASelection
<1>1. CASE server' = server
  BY <1>1 DEF Tabs!BatchKeepsASelection, Tabs!NothingSelected
<1>2. CASE ServedTabs
  BY <1>2, ServeKeepsASelection
<1>3. CASE UNCHANGED pageVars
  BY <1>1, <1>3 DEF pageVars
<1>4. CASE Tabs!Next /\ ~ServedTabs
  <2>1. server' = server
    BY <1>4 DEF Tabs!Next, ServedTabs, Tabs!OpenTab, Tabs!Retry, Tabs!TabLoaded,
         Tabs!SetPendingPriority, Tabs!SelectAll, Tabs!SelectNone, Tabs!AskToApply, Tabs!PerformApply,
         Tabs!NextGroup, Tabs!Applied, Tabs!AppliedUnheard, Tabs!ApplyRefused, Tabs!TypeUrl,
         Tabs!HandleRemove, Tabs!StartEdit, Tabs!HandleEditSave, Tabs!HandleAdd, Tabs!Added,
         Tabs!AddRefused, Tabs!Removed, Tabs!CancelEdit, Tabs!Edited, Tabs!ChangeRefused,
         Tabs!AskToBan, Tabs!CloseDialog, Tabs!ConfirmBan, Tabs!Banned, Tabs!NobodyHears,
         Tabs!Look, Tabs!Choose
  <2> QED BY <1>1, <2>1
<1> QED BY <1>2, <1>3, <1>4

TabsHold == page = "tabs" => BatchInv

LEMMA TabsAlways == Spec => []TabsHold
<1>1. Init => TabsHold
  BY TabsStart DEF Init, TabsHold
<1>2. TabsHold /\ [Next]_vars => TabsHold'
  <2> SUFFICES ASSUME TabsHold, [Next]_vars, page' = "tabs" PROVE BatchInv'
    BY DEF TabsHold
  <2>1. page = "tabs" /\ [Tabs!Next]_pageVars
    BY DEF Next, vars
  <2> QED BY <2>1, TabsStep DEF TabsHold
<1> QED BY <1>1, <1>2, PTL DEF Spec

\* TorrentFilesList.tsx sets the priorities of a batch one group after the other
\* with "skip" last, so a torrent is never without a selected file between two
\* of its calls, however many files and groups there are, and also when the tab
\* is left in the middle or the dialog was confirmed over a list loaded anew.
THEOREM BatchKeepsASelectionCorrect == Spec => BatchKeepsASelection
<1>1. TabsHold /\ [Next]_vars => [page = "tabs" => Tabs!BatchKeepsASelection]_vars
  <2> SUFFICES ASSUME TabsHold, [Next]_vars, page = "tabs" PROVE Tabs!BatchKeepsASelection
    OBVIOUS
  <2>1. [Tabs!Next]_pageVars
    BY DEF Next, vars
  <2> QED BY <2>1, TabsKeepASelection DEF TabsHold
<1> QED BY <1>1, TabsAlways, PTL DEF Spec, BatchKeepsASelection

-----------------------------------------------------------------------------
(* The form that adds a torrent, in AddTorrentModal.tsx. *)

Filled(v) ==
  /\ {"mode", "edited"} \cup Form!Fields \subseteq DOMAIN v
  /\ v.edited \subseteq Form!Fields

\* Of a form that was filled in further nothing is lost that the user edited.
Respects(w, v) ==
  /\ Filled(w) /\ w.mode = v.mode /\ w.edited = v.edited
  /\ \A f \in v.edited : w[f] = v[f]

\* The worker that a category proposes is no field that the user edits.
LEMMA SettledRespects ==
  ASSUME NEW v, Filled(v), NEW w \in Form!Settled(v) PROVE Respects(w, v)
<1>1. w = v \/ \E x : w = [v EXCEPT !.worker = x]
  BY DEF Form!Settled
<1>2. ASSUME NEW x PROVE Respects([v EXCEPT !.worker = x], v)
  BY DEF Respects, Filled, Form!Fields
<1>3. Respects(v, v)
  BY DEF Respects
<1> QED BY <1>1, <1>2, <1>3

\* Fields that were filled in are filled in anew, those that were edited are kept.
Refilled(v, s, name, category, tags, directory) ==
  [v EXCEPT !.suggestion = s, !.displayName = name, !.category = category,
            !.tags = tags, !.directory = directory]

LEMMA RefilledRespects ==
  ASSUME NEW v, Filled(v), NEW s, NEW name, NEW category, NEW tags, NEW directory,
         "displayName" \in v.edited => name = v.displayName,
         "category" \in v.edited => category = v.category,
         "tags" \in v.edited => tags = v.tags,
         "directory" \in v.edited => directory = v.directory
  PROVE  Respects(Refilled(v, s, name, category, tags, directory), v)
<1> DEFINE w == Refilled(v, s, name, category, tags, directory)
<1>1. {"mode", "edited"} \cup Form!Fields \subseteq DOMAIN v /\ v.edited \subseteq Form!Fields
  BY DEF Filled
<1>2. DOMAIN w = DOMAIN v /\ w.mode = v.mode /\ w.edited = v.edited
  BY <1>1 DEF Refilled
<1>3. w.displayName = name /\ w.category = category /\ w.tags = tags /\ w.directory = directory
  BY <1>1 DEF Form!Fields, Refilled
<1> HIDE DEF w
<1>4. \A f \in v.edited : w[f] = v[f]
  BY <1>1, <1>3 DEF Form!Fields
<1> QED BY <1>1, <1>2, <1>4 DEF Respects, Filled, w

LEMMA ClearedRespects ==
  ASSUME NEW v, Filled(v) PROVE Respects(Form!ClearAutoFilledFields(v), v)
<1> DEFINE kept(f, new) == Form!Kept(v, f, new)
           name == kept("displayName", Nothing)
           category == kept("category", Nothing)
           tags == kept("tags", {})
           directory == kept("directory", Nothing)
<1>1. /\ "displayName" \in v.edited => name = v.displayName
      /\ "category" \in v.edited => category = v.category
      /\ "tags" \in v.edited => tags = v.tags
      /\ "directory" \in v.edited => directory = v.directory
  BY DEF Form!Kept
<1>2. Form!ClearAutoFilledFields(v) = Refilled(v, Nothing, name, category, tags, directory)
  BY DEF Form!ClearAutoFilledFields, Refilled
<1> HIDE DEF name, category, tags, directory
<1> QED BY <1>1, <1>2, RefilledRespects

LEMMA SuggestedRespects ==
  ASSUME NEW v, Filled(v), NEW r PROVE Respects(Form!ApplySuggestion(v, r), v)
<1>1. CASE r \in Vague
  BY <1>1, ClearedRespects DEF Form!ApplySuggestion
<1>2. CASE r \notin Vague
  <2> DEFINE match == "category" \notin v.edited /\ Guess[r] \in v.categories
             category == IF match THEN Guess[r] ELSE v.category
             name == Form!Kept(v, "displayName", r)
             tags == Form!Kept(v, "tags", Form!Known(v, category) \cup {r})
             directory == IF match THEN Form!Kept(v, "directory", Guess[r]) ELSE v.directory
  <2>1. /\ "displayName" \in v.edited => name = v.displayName
        /\ "category" \in v.edited => category = v.category
        /\ "tags" \in v.edited => tags = v.tags
        /\ "directory" \in v.edited => directory = v.directory
    BY DEF Form!Kept
  <2>2. Form!ApplySuggestion(v, r)
          = [v EXCEPT !.suggestion = r, !.displayName = name, !.tags = tags,
                      !.category = category, !.directory = directory]
    BY <1>2 DEF Form!ApplySuggestion
  <2> HIDE DEF name, category, tags, directory, match
  <2>3. Form!ApplySuggestion(v, r) = Refilled(v, r, name, category, tags, directory)
    BY <2>2 DEF Refilled
  <2> QED BY <2>1, <2>3, RefilledRespects
<1> QED BY <1>1, <1>2

LEMMA BlankFilled == \A mode : Filled(Form!Blank(mode)) /\ Form!Blank(mode).mode = mode
  BY DEF Form!Blank, Filled, Form!Fields

LEMMA RespectsTwice ==
  ASSUME NEW u, NEW v, NEW w, Respects(v, u), Respects(w, v) PROVE Respects(w, u)
  BY DEF Respects

\* What a handler makes of an answer, or of another release, is the form filled
\* in further.
LEMMA FillsRespect ==
  ASSUME Filled(view),
         \/ \E r \in Releases \cup {Nothing} : Form!ChooseRelease(r)
         \/ Form!Parsed \/ Form!WorkersLoaded \/ Form!CategoriesLoaded \/ Form!LoadRefused
  PROVE  Respects(view', view)
<1>1. ASSUME NEW v, Respects(v, view), Form!Becomes(v) PROVE Respects(view', view)
  <2>1. Respects(view', v)
    BY <1>1, SettledRespects DEF Form!Becomes, Respects
  <2> QED BY <1>1, <2>1, RespectsTwice
<1>2. /\ \A r : Respects([view EXCEPT !.release = r], view)
      /\ \A workers, loaded :
           Respects([view EXCEPT !.workers = workers, !.workersLoaded = loaded], view)
      /\ Respects([view EXCEPT !.categories = Labels], view)
  BY DEF Respects, Filled, Form!Fields
<1>3. ASSUME NEW r \in Releases \cup {Nothing}, Form!ChooseRelease(r) PROVE Respects(view', view)
  <2> DEFINE w == [view EXCEPT !.release = r]
  <2>1. Respects(w, view)
    BY <1>2
  <2>2. Form!Becomes(Form!ClearAutoFilledFields(w)) \/ Form!Becomes(w)
    BY <1>3 DEF Form!ChooseRelease
  <2> HIDE DEF w
  <2>3. Respects(Form!ClearAutoFilledFields(w), view)
    BY <2>1, ClearedRespects, RespectsTwice DEF Respects
  <2> QED BY <1>1, <2>1, <2>2, <2>3
<1>4. CASE Form!Parsed
  BY <1>1, <1>4, SuggestedRespects DEF Form!Parsed
<1>5. CASE Form!WorkersLoaded
  <2> DEFINE loaded == TRUE
  <2>1. PICK r : Form!Becomes([view EXCEPT !.workers = r.saw, !.workersLoaded = TRUE])
    BY <1>5 DEF Form!WorkersLoaded
  <2> DEFINE w == [view EXCEPT !.workers = r.saw, !.workersLoaded = loaded]
  <2>2. Form!Becomes(w)
    BY <2>1
  <2> HIDE DEF loaded
  <2>3. Respects(w, view)
    BY <1>2
  <2> HIDE DEF w
  <2> QED BY <1>1, <2>2, <2>3
<1>6. CASE Form!CategoriesLoaded
  <2> DEFINE w == [view EXCEPT !.categories = Labels]
  <2>1. Respects(w, view)
    BY <1>2
  <2>2. Form!Becomes(w) \/ Form!Becomes(Form!ApplySuggestion(w, view.suggestion))
    BY <1>6 DEF Form!CategoriesLoaded
  <2> HIDE DEF w
  <2>3. Respects(Form!ApplySuggestion(w, view.suggestion), view)
    BY <2>1, SuggestedRespects, RespectsTwice DEF Respects
  <2> QED BY <1>1, <2>1, <2>2, <2>3
<1>7. CASE Form!LoadRefused
  <2> DEFINE loaded == TRUE
             none == {}
             w == [view EXCEPT !.workers = none, !.workersLoaded = loaded]
  <2>1. view' = view \/ Form!Becomes(w)
    BY <1>7 DEF Form!LoadRefused
  <2> HIDE DEF loaded, none
  <2>2. Respects(w, view)
    BY <1>2
  <2>3. Respects(view, view)
    BY DEF Respects
  <2> HIDE DEF w
  <2> QED BY <1>1, <2>1, <2>2, <2>3
<1> QED BY <1>3, <1>4, <1>5, <1>6, <1>7

LEMMA FormStart == ASSUME Form!Init PROVE Filled(view)
  BY BlankFilled DEF Form!Init

\* No step loses what the form is made of, and where an answer is taken by a form
\* that stays open, in its mode, the edited fields are the same after it.
LEMMA FormStep ==
  ASSUME Filled(view), [Form!Next]_pageVars
  PROVE  Filled(view)' /\ Form!AnswersKeepEdits
<1>1. ASSUME Respects(view', view) PROVE Filled(view)' /\ Form!AnswersKeepEdits
  BY <1>1 DEF Respects, Filled, Form!AnswersKeepEdits
<1>2. CASE \/ \E r \in Releases \cup {Nothing} : Form!ChooseRelease(r)
           \/ Form!Parsed \/ Form!WorkersLoaded \/ Form!CategoriesLoaded \/ Form!LoadRefused
  BY <1>1, <1>2, FillsRespect
<1>3. CASE view' = view
  <2>1. Respects(view, view)
    BY DEF Respects
  <2> QED BY <1>1, <1>3, <2>1
<1>4. CASE \/ Form!ParseRefused \/ Form!Created \/ Form!CreateRefused \/ Form!Renamed
           \/ Form!RenameFailed \/ Form!Reconcile \/ Form!Answered \/ UNCHANGED pageVars
  BY <1>3, <1>4 DEF Form!ParseRefused, Form!Refused, Form!Created, Form!CreateRefused, Form!Renamed,
                    Form!RenameFailed, Form!Reconcile, Form!Answered, pageVars
<1>5. CASE \E f \in Form!Fields : Form!Edit(f)
  <2>1. PICK f \in {"displayName", "directory"} :
          Form!Becomes([view EXCEPT !.edited = @ \cup {f}, ![f] = Mine]) /\ asked' = asked
    BY <1>5 DEF Form!Edit, Form!Stays
  <2> DEFINE edited == view.edited \cup {f}
             w == [view EXCEPT !.edited = edited, ![f] = Mine]
  <2>2. Form!Becomes(w)
    BY <2>1
  <2>3. edited \subseteq Form!Fields
    BY DEF Filled, Form!Fields
  <2> HIDE DEF edited
  <2>4. Filled(w)
    BY <2>1, <2>3 DEF Filled
  <2> HIDE DEF w
  <2>5. Filled(view')
    BY <2>2, <2>4, SettledRespects DEF Form!Becomes, Respects
  <2> QED BY <2>1, <2>5 DEF Form!AnswersKeepEdits, Filled
<1>6. CASE \E tags : Form!EditTags(tags)
  <2>1. PICK tags : /\ Form!Becomes([view EXCEPT !.edited = @ \cup {"tags"}, !.tags = tags])
                    /\ asked' = asked
    BY <1>6 DEF Form!EditTags, Form!Stays
  <2> DEFINE edited == view.edited \cup {"tags"}
             w == [view EXCEPT !.edited = edited, !.tags = tags]
  <2>2. Form!Becomes(w)
    BY <2>1
  <2>3. edited \subseteq Form!Fields
    BY DEF Filled, Form!Fields
  <2> HIDE DEF edited
  <2>4. Filled(w)
    BY <2>3 DEF Filled
  <2> HIDE DEF w
  <2>5. Filled(view')
    BY <2>2, <2>4, SettledRespects DEF Form!Becomes, Respects
  <2> QED BY <2>1, <2>5 DEF Form!AnswersKeepEdits, Filled
<1>7. CASE \E c \in Form!Offered : Form!ChangeCategory(c)
  <2>1. PICK c : /\ Form!Becomes([view EXCEPT !.edited = @ \cup {"category"}, !.category = c,
                                   !.categories = @ \cup {c},
                                   !.tags = {c} \cup ({view.suggestion} \ {Nothing}), !.directory = c])
                 /\ asked' = asked
    BY <1>7 DEF Form!ChangeCategory, Form!Stays
  <2> DEFINE edited == view.edited \cup {"category"}
             categories == view.categories \cup {c}
             tags == {c} \cup ({view.suggestion} \ {Nothing})
             w == [view EXCEPT !.edited = edited, !.category = c, !.categories = categories,
                               !.tags = tags, !.directory = c]
  <2>2. Form!Becomes(w)
    BY <2>1
  <2>3. edited \subseteq Form!Fields
    BY DEF Filled, Form!Fields
  <2> HIDE DEF edited, categories, tags
  <2>4. Filled(w)
    BY <2>3 DEF Filled
  <2> HIDE DEF w
  <2>5. Filled(view')
    BY <2>2, <2>4, SettledRespects DEF Form!Becomes, Respects
  <2> QED BY <2>1, <2>5 DEF Form!AnswersKeepEdits, Filled
<1>8. CASE \E worker \in Hosts : Form!ChangeWorker(worker)
  <2>1. PICK worker : Form!Becomes([view EXCEPT !.manual = TRUE, !.worker = worker]) /\ asked' = asked
    BY <1>8 DEF Form!ChangeWorker, Form!Stays
  <2> DEFINE yes == TRUE
             w == [view EXCEPT !.manual = yes, !.worker = worker]
  <2>2. Form!Becomes(w)
    BY <2>1
  <2> HIDE DEF yes
  <2>3. Filled(w)
    BY DEF Filled, Form!Fields
  <2> HIDE DEF w
  <2>4. Filled(view')
    BY <2>2, <2>3, SettledRespects DEF Form!Becomes, Respects
  <2> QED BY <2>1, <2>4 DEF Form!AnswersKeepEdits, Filled
<1>9. CASE \/ \E mode \in {"magnet", "file"} : Form!OpenAddModal(mode)
           \/ Form!CloseAddModal \/ Form!HandleSubmit
  <2>1. \E mode : view' = Form!Blank(mode)
    BY <1>9 DEF Form!OpenAddModal, Form!CloseAddModal, Form!HandleSubmit
  <2>2. dialog = Form!Closed \/ (dialog # Form!Closed /\ dialog' = Form!Closed)
    BY <1>9 DEF Form!OpenAddModal, Form!CloseAddModal, Form!HandleSubmit, Form!Open
  <2>3. Filled(view)'
    BY <2>1, BlankFilled DEF Filled
  <2> QED BY <2>2, <2>3 DEF Form!AnswersKeepEdits
<1>10. CASE \E mode \in {"magnet", "file"} : Form!ChangeMode(mode)
  <2>1. PICK mode \in {"magnet", "file"} :
          /\ mode # view.mode
          /\ Form!Becomes([Form!Blank(mode) EXCEPT !.worker = view.worker, !.manual = view.manual,
                 !.workers = view.workers, !.workersLoaded = view.workersLoaded,
                 !.categories = view.categories])
    BY <1>10 DEF Form!ChangeMode
  <2> DEFINE blank == Form!Blank(mode)
             w == [blank EXCEPT !.worker = view.worker, !.manual = view.manual,
                 !.workers = view.workers, !.workersLoaded = view.workersLoaded,
                 !.categories = view.categories]
  <2>2. Filled(blank) /\ blank.mode = mode
    BY BlankFilled
  <2> HIDE DEF blank
  <2>3. Filled(w) /\ w.mode = mode
    BY <2>2 DEF Filled, Form!Fields
  <2>4. Form!Becomes(w)
    BY <2>1 DEF blank
  <2> HIDE DEF w
  <2>5. Filled(view') /\ view'.mode = mode
    BY <2>3, <2>4, SettledRespects DEF Form!Becomes, Respects
  <2> QED BY <2>1, <2>5 DEF Form!AnswersKeepEdits, Filled
<1> QED BY <1>2, <1>4, <1>5, <1>6, <1>7, <1>8, <1>9, <1>10 DEF Form!Next

FormHolds == page = "form" => Filled(view)

LEMMA FormAlways == Spec => []FormHolds
<1>1. Init => FormHolds
  BY FormStart DEF Init, FormHolds
<1>2. FormHolds /\ [Next]_vars => FormHolds'
  <2> SUFFICES ASSUME FormHolds, [Next]_vars, page' = "form" PROVE Filled(view)'
    BY DEF FormHolds, Filled
  <2>1. page = "form" /\ [Form!Next]_pageVars
    BY DEF Next, vars
  <2> QED BY <2>1, FormStep DEF FormHolds
<1> QED BY <1>1, <1>2, PTL DEF Spec

\* In AddTorrentModal.tsx the user and the answers fill in the same fields: a
\* suggestion, the categories it waited for and the worker a category proposes
\* come in at any time and in any order, and leave every edited field alone.
THEOREM AnswersKeepEditsCorrect == Spec => AnswersKeepEdits
<1>1. FormHolds /\ [Next]_vars => [page = "form" => Form!AnswersKeepEdits]_vars
  <2> SUFFICES ASSUME FormHolds, [Next]_vars, page = "form" PROVE Form!AnswersKeepEdits
    OBVIOUS
  <2>1. [Form!Next]_pageVars
    BY DEF Next, vars
  <2> QED BY <2>1, FormStep DEF FormHolds
<1> QED BY <1>1, FormAlways, PTL DEF Spec, AnswersKeepEdits

-----------------------------------------------------------------------------
(* The rows of the list, in Torrents.tsx. *)

Deletes == {"remove", "deletions"}
Changes == {"act", "bulk", "category"}

\* What a request changes stays, and what one is done deleting is gone.
Meant(r, torrents) ==
  /\ r = Sent(r.op, r.list, r.on, r.to, r.state, r.alone, r.heard, r.saw)
  /\ r.op \in Changes => r.to = "changed"
  /\ r.op \in Deletes => r.on \subseteq Hosted
  /\ r.op \in Deletes /\ r.state = "done" => \A t \in r.on : torrents[t] = Gone

RowsInv ==
  /\ "torrents" \in DOMAIN server /\ DOMAIN server.torrents = Hosted
  /\ "torrents" \in DOMAIN shown /\ DOMAIN shown.torrents = Hosted
  /\ \A r \in asked : Meant(r, server.torrents)

\* The page asks for something: the requests that are under way stay as they are.
LEMMA AskMeant ==
  ASSUME RowsInv, NEW op, NEW list, NEW on, NEW to, TorrentsPage!Ask(op, list, on, to),
         op \in Changes => to = "changed",
         op \in Deletes => on \subseteq Hosted
  PROVE  \A r \in asked' : Meant(r, server.torrents)
<1> DEFINE no == FALSE
           first == asked = {}
           q == TorrentsPage!Request(op, list, on, to, Gone)
           new == [q EXCEPT !.alone = first]
           aside(r) == [r EXCEPT !.alone = no]
<1>1. asked' = {aside(r) : r \in asked} \cup {new}
  BY DEF TorrentsPage!Ask, TorrentsPage!AskSeeing, TorrentsPage!Add
<1>2. ASSUME NEW r \in asked PROVE Meant(aside(r), server.torrents)
  <2>1. Meant(r, server.torrents) /\ r = Sent(r.op, r.list, r.on, r.to, r.state, r.alone, r.heard, r.saw)
    BY DEF RowsInv, Meant
  <2> HIDE DEF no
  <2>2. aside(r) = Sent(r.op, r.list, r.on, r.to, r.state, no, r.heard, r.saw)
    BY <2>1, SentEdits
  <2> HIDE DEF aside
  <2>3. /\ aside(r).op = r.op /\ aside(r).on = r.on /\ aside(r).to = r.to /\ aside(r).state = r.state
        /\ aside(r) = Sent(aside(r).op, aside(r).list, aside(r).on, aside(r).to,
                           aside(r).state, aside(r).alone, aside(r).heard, aside(r).saw)
    BY <2>2, SentFields
  <2> QED BY <2>1, <2>3 DEF Meant
<1>3. Meant(new, server.torrents)
  <2>1. /\ q = Sent(q.op, q.list, q.on, q.to, q.state, q.alone, q.heard, q.saw)
        /\ q.op = op /\ q.on = on /\ q.to = to /\ q.state = "asked"
    BY DEF TorrentsPage!Request, Sent
  <2> HIDE DEF first, q
  <2>2. new = Sent(q.op, q.list, q.on, q.to, q.state, first, q.heard, q.saw)
    BY <2>1, SentEdits
  <2> HIDE DEF new
  <2>3. /\ new.op = q.op /\ new.on = q.on /\ new.to = q.to /\ new.state = q.state
        /\ new = Sent(new.op, new.list, new.on, new.to, new.state, new.alone, new.heard, new.saw)
    BY <2>2, SentFields
  <2> QED BY <2>1, <2>3 DEF Meant
<1> HIDE DEF new, aside
<1> QED BY <1>1, <1>2, <1>3

LEMMA RowsAsk ==
  ASSUME RowsInv,
         \/ \E id : TorrentsPage!Act(id)
         \/ TorrentsPage!BulkAction \/ TorrentsPage!SaveLimits \/ TorrentsPage!SaveCategory
         \/ TorrentsPage!DeleteTorrent \/ TorrentsPage!ConfirmDelete
  PROVE  RowsInv' /\ shown' = shown
<1>1. server' = server /\ shown' = shown
  BY DEF TorrentsPage!Act, TorrentsPage!BulkAction, TorrentsPage!SaveLimits, TorrentsPage!SaveCategory,
         TorrentsPage!DeleteTorrent, TorrentsPage!ConfirmDelete
<1> DEFINE list == "torrents"
           asks(op, on, to) == TorrentsPage!Ask(op, list, on, to)
<1>2. \/ \E on : asks("act", on, "changed") \/ asks("bulk", on, "changed") \/ asks("category", on, "changed")
      \/ \E on : asks("limits", on, "changed")
      \/ \E on \in SUBSET Hosted : \E to : asks("remove", on, to) \/ asks("deletions", on, to)
  <2>1. TorrentsPage!Rows \subseteq Hosted
    BY DEF TorrentsPage!Rows
  <2>2. \A id : TorrentsPage!Find(id) \subseteq TorrentsPage!Rows
    BY DEF TorrentsPage!Find
  <2> HIDE DEF asks
  <2>3. CASE \/ \E id : TorrentsPage!Act(id)
             \/ TorrentsPage!BulkAction \/ TorrentsPage!SaveLimits \/ TorrentsPage!SaveCategory
    BY <2>3 DEF TorrentsPage!Act, TorrentsPage!BulkAction, TorrentsPage!SaveLimits,
                TorrentsPage!SaveCategory, asks
  <2>4. CASE TorrentsPage!DeleteTorrent
    <3>1. PICK id, t, to : t \in TorrentsPage!Find(id) /\ asks("remove", {t}, to)
      BY <2>4 DEF TorrentsPage!DeleteTorrent, asks
    <3>2. {t} \in SUBSET Hosted
      BY <2>1, <2>2, <3>1
    <3> QED BY <3>1, <3>2
  <2>5. CASE TorrentsPage!ConfirmDelete
    <3>1. PICK found, to : found \in SUBSET TorrentsPage!Rows /\ asks("deletions", found, to)
      BY <2>5 DEF TorrentsPage!ConfirmDelete, asks
    <3> QED BY <2>1, <3>1
  <2> QED BY <2>3, <2>4, <2>5
<1> HIDE DEF list
<1>3. \A r \in asked' : Meant(r, server.torrents)
  BY <1>2, AskMeant DEF Changes, Deletes
<1> QED BY <1>1, <1>3 DEF RowsInv

\* The user looks at the list and opens dialogs, or the feed brings the list in.
LEMMA RowsLook ==
  ASSUME RowsInv,
         \/ TorrentsPage!Snapshot \/ TorrentsPage!ToggleSelectAll \/ TorrentsPage!CloseDialog
         \/ TorrentsPage!DeleteSelected
         \/ \E id : TorrentsPage!ToggleSelect(id) \/ TorrentsPage!ShowDetails(id)
         \/ \E t \in Hosted : TorrentsPage!ShowLimits(t) \/ TorrentsPage!DeleteRow(t)
  PROVE  RowsInv' /\ TorrentsPage!RowLeavesForAReason
<1>1. CASE TorrentsPage!Snapshot
  <2>1. /\ server' = server /\ asked' = asked
        /\ shown' = [shown EXCEPT !.torrents = server.torrents]
    BY <1>1 DEF TorrentsPage!Snapshot
  <2>2. "torrents" \in DOMAIN shown' /\ shown'.torrents = server.torrents
    BY <2>1 DEF RowsInv
  <2> QED BY <2>1, <2>2 DEF RowsInv, TorrentsPage!RowLeavesForAReason
<1>2. CASE \/ TorrentsPage!ToggleSelectAll \/ TorrentsPage!CloseDialog \/ TorrentsPage!DeleteSelected
           \/ \E id : TorrentsPage!ToggleSelect(id) \/ TorrentsPage!ShowDetails(id)
           \/ \E t \in Hosted : TorrentsPage!ShowLimits(t) \/ TorrentsPage!DeleteRow(t)
  <2>1. server' = server /\ asked' = asked /\ shown' = shown
    BY <1>2 DEF TorrentsPage!ToggleSelectAll, TorrentsPage!CloseDialog, TorrentsPage!DeleteSelected,
         TorrentsPage!ToggleSelect, TorrentsPage!ShowDetails, TorrentsPage!ShowLimits,
         TorrentsPage!DeleteRow, TorrentsPage!OpenDelete
  <2> QED BY <2>1 DEF RowsInv, TorrentsPage!RowLeavesForAReason
<1> QED BY <1>1, <1>2

\* A row that is taken out is that of a torrent that is gone, provided no two
\* torrents have one id.
HashesOnOneWorker ==
  \A t, u \in Hosted : TorrentsPage!Id(t) = TorrentsPage!Id(u) => t = u

LEMMA RemovedGone ==
  ASSUME HashesOnOneWorker, NEW on \in SUBSET Hosted, NEW t \in Hosted,
         \A u \in on : server.torrents[u] = Gone,
         shown.torrents[t] # Gone,
         TorrentsPage!Removed({TorrentsPage!Id(u) : u \in on})[t] = Gone
  PROVE  server.torrents[t] = Gone
<1>1. TorrentsPage!Id(t) \in {TorrentsPage!Id(u) : u \in on}
  BY DEF TorrentsPage!Removed
<1>2. PICK u \in on : TorrentsPage!Id(t) = TorrentsPage!Id(u)
  BY <1>1
<1> QED BY <1>2 DEF HashesOnOneWorker

\* The page takes an answer.
LEMMA RowsLand ==
  ASSUME RowsInv,
         \/ TorrentsPage!WorkersLoaded \/ TorrentsPage!Acted \/ TorrentsPage!CategorySaved
         \/ TorrentsPage!LimitsSaved \/ TorrentsPage!TorrentDeleted \/ TorrentsPage!ConfirmedGone
         \/ TorrentsPage!Refused({"act", "bulk", "category", "limits", "remove"})
  PROVE  RowsInv' /\ (HashesOnOneWorker => TorrentsPage!RowLeavesForAReason)
<1> DEFINE gone(on) == TorrentsPage!Removed({TorrentsPage!Id(t) : t \in on})
<1>1. server' = server /\ \E r : TorrentsPage!Land(r)
  BY DEF TorrentsPage!WorkersLoaded, TorrentsPage!Loaded, TorrentsPage!Acted,
         TorrentsPage!CategorySaved, TorrentsPage!LimitsSaved, TorrentsPage!TorrentDeleted,
         TorrentsPage!ConfirmedGone, TorrentsPage!Refused
<1>2. \A r \in asked' : Meant(r, server.torrents)
  BY <1>1 DEF TorrentsPage!Land, RowsInv
<1>3. \A on : DOMAIN gone(on) = Hosted
  BY DEF TorrentsPage!Removed
<1>4. CASE shown' = shown
  BY <1>1, <1>2, <1>4 DEF RowsInv, TorrentsPage!RowLeavesForAReason
<1>5. CASE TorrentsPage!WorkersLoaded
  <2>1. shown' = shown \/ \E saw : shown' = [shown EXCEPT !["workers"] = saw]
    BY <1>5 DEF TorrentsPage!WorkersLoaded, TorrentsPage!Loaded
  <2>2. "torrents" \in DOMAIN shown' /\ shown'.torrents = shown.torrents
    BY <2>1 DEF RowsInv
  <2> QED BY <1>1, <1>2, <2>2 DEF RowsInv, TorrentsPage!RowLeavesForAReason
<1>6. CASE TorrentsPage!CategorySaved
  <2>1. PICK r \in asked :
          /\ r.op = "category"
          /\ shown' = shown \/ \E u \in Hosted : shown' = [shown EXCEPT !.torrents[u] = r.to]
    BY <1>6 DEF TorrentsPage!CategorySaved, TorrentsPage!Answers, TorrentsPage!Find, TorrentsPage!Rows
  <2>2. r.to = "changed" /\ r.to # Gone
    BY <2>1, ClientAssumption DEF RowsInv, Meant, Changes, TorrentsPage!States
  <2>3. ASSUME NEW u \in Hosted, shown' = [shown EXCEPT !.torrents[u] = r.to]
        PROVE  RowsInv' /\ TorrentsPage!RowLeavesForAReason
    <3> DEFINE torrents == [shown.torrents EXCEPT ![u] = r.to]
    <3>1. "torrents" \in DOMAIN shown' /\ shown'.torrents = torrents
      BY <2>3 DEF RowsInv
    <3>2. DOMAIN torrents = Hosted /\ \A t \in Hosted : torrents[t] = Gone => shown.torrents[t] = Gone
      BY <2>2 DEF RowsInv
    <3> HIDE DEF torrents
    <3> QED BY <1>1, <1>2, <3>1, <3>2 DEF RowsInv, TorrentsPage!RowLeavesForAReason
  <2> QED BY <1>4, <2>1, <2>3
<1>7. ASSUME NEW r \in asked, r.op \in Deletes, r.state = "done",
             shown' = [shown EXCEPT !.torrents = gone(r.on)]
      PROVE  RowsInv' /\ (HashesOnOneWorker => TorrentsPage!RowLeavesForAReason)
  <2>1. r.on \in SUBSET Hosted /\ \A t \in r.on : server.torrents[t] = Gone
    BY <1>7 DEF RowsInv, Meant
  <2> HIDE DEF gone
  <2>2. "torrents" \in DOMAIN shown' /\ shown'.torrents = gone(r.on)
    BY <1>7 DEF RowsInv
  <2>3. ASSUME HashesOnOneWorker, NEW t \in Hosted, shown.torrents[t] # Gone, gone(r.on)[t] = Gone
        PROVE  server.torrents[t] = Gone
    BY <2>1, <2>3, RemovedGone DEF gone
  <2> QED BY <1>1, <1>2, <1>3, <2>2, <2>3 DEF RowsInv, TorrentsPage!RowLeavesForAReason
<1>8. CASE TorrentsPage!TorrentDeleted
  BY <1>7, <1>8 DEF TorrentsPage!TorrentDeleted, TorrentsPage!Answers, Deletes
<1>9. CASE TorrentsPage!ConfirmedGone
  <2>1. PICK r \in asked :
          /\ r.op = "deletions"
          /\ shown' = [shown EXCEPT !.torrents = TorrentsPage!Removed(
                         IF r.state = "done" THEN {TorrentsPage!Id(t) : t \in r.on} ELSE {})]
    BY <1>9 DEF TorrentsPage!ConfirmedGone, TorrentsPage!Answers
  <2>2. CASE r.state = "done"
    BY <1>7, <2>1, <2>2 DEF Deletes
  <2>3. CASE r.state # "done"
    <3>1. shown' = [shown EXCEPT !.torrents = TorrentsPage!Removed({})]
      BY <2>1, <2>3
    <3>2. /\ DOMAIN TorrentsPage!Removed({}) = Hosted
          /\ \A t \in Hosted : TorrentsPage!Removed({})[t] = shown.torrents[t]
      BY DEF TorrentsPage!Removed
    <3>3. "torrents" \in DOMAIN shown' /\ shown'.torrents = TorrentsPage!Removed({})
      BY <3>1 DEF RowsInv
    <3> QED BY <1>1, <1>2, <3>2, <3>3 DEF RowsInv, TorrentsPage!RowLeavesForAReason
  <2> QED BY <2>2, <2>3
<1>10. CASE \/ TorrentsPage!Acted \/ TorrentsPage!LimitsSaved
            \/ TorrentsPage!Refused({"act", "bulk", "category", "limits", "remove"})
  BY <1>4, <1>10 DEF TorrentsPage!Acted, TorrentsPage!LimitsSaved, TorrentsPage!Refused
<1> QED BY <1>5, <1>6, <1>8, <1>9, <1>10

\* The backend has some of the torrents gone and the others changed: what was gone
\* stays gone, so what is said of the other requests stays true.
LEMMA GoneStays ==
  ASSUME NEW before, NEW after, \A t \in Hosted : before[t] = Gone => after[t] = Gone,
         NEW r, Meant(r, before)
  PROVE  Meant(r, after)
  BY DEF Meant

LEMMA RowsEffect ==
  ASSUME RowsInv, NEW r \in asked
  PROVE  LET after == TorrentsPage!Effect(r) IN
         /\ "torrents" \in DOMAIN after /\ DOMAIN after.torrents = Hosted
         /\ \A t \in Hosted : server.torrents[t] = Gone => after.torrents[t] = Gone
         /\ r.op = "remove" => \A t \in Hosted : t \in r.on => after.torrents[t] = Gone
<1> DEFINE changed == [t \in Hosted |-> IF t \in r.on /\ server.torrents[t] # Gone
                                       THEN r.to ELSE server.torrents[t]]
           removed == [t \in Hosted |-> IF t \in r.on THEN Gone ELSE server.torrents[t]]
<1>1. CASE r.op \in Changes
  <2>1. TorrentsPage!Effect(r) = [server EXCEPT !.torrents = changed]
    BY <1>1 DEF TorrentsPage!Effect, Changes
  <2>2. DOMAIN changed = Hosted /\ \A t \in Hosted : server.torrents[t] = Gone => changed[t] = Gone
    OBVIOUS
  <2> HIDE DEF changed
  <2> QED BY <1>1, <2>1, <2>2 DEF RowsInv, Changes
<1>2. CASE r.op = "remove"
  <2>1. TorrentsPage!Effect(r) = [server EXCEPT !.torrents = removed]
    BY <1>2 DEF TorrentsPage!Effect
  <2>2. /\ DOMAIN removed = Hosted
        /\ \A t \in Hosted : server.torrents[t] = Gone \/ t \in r.on => removed[t] = Gone
    OBVIOUS
  <2> HIDE DEF removed
  <2> QED BY <2>1, <2>2 DEF RowsInv
<1>3. CASE r.op \notin Changes \cup {"remove"}
  <2>1. TorrentsPage!Effect(r) = server
    BY <1>3 DEF TorrentsPage!Effect, Changes
  <2> QED BY <1>3, <2>1 DEF RowsInv
<1> QED BY <1>1, <1>2, <1>3

ServedRows == TorrentsPage!Serve(TorrentsPage!Effect, TorrentsPage!Accepts)

LEMMA RowsServed ==
  ASSUME RowsInv, ServedRows PROVE RowsInv' /\ shown' = shown
<1>1. PICK r \in asked :
        \/ /\ server' = TorrentsPage!Effect(r) /\ TorrentsPage!Accepts(r)
           /\ asked' = (asked \ {r}) \cup {TorrentsPage!Answer(r)}
        \/ server' = server /\ asked' = (asked \ {r}) \cup {TorrentsPage!Refusal(r)}
        \/ server' = TorrentsPage!Effect(r) /\ asked' = (asked \ {r}) \cup {TorrentsPage!Refusal(r)}
  BY DEF ServedRows, TorrentsPage!Serve, TorrentsPage!Effect, TorrentsPage!Accepts
<1>2. shown' = shown
  BY DEF ServedRows, TorrentsPage!Serve
<1>3. Meant(r, server.torrents)
  BY DEF RowsInv
<1>4. /\ "torrents" \in DOMAIN server' /\ DOMAIN server'.torrents = Hosted
      /\ \A t \in Hosted : server.torrents[t] = Gone => server'.torrents[t] = Gone
      /\ r.op = "remove" /\ server' = TorrentsPage!Effect(r) =>
           \A t \in r.on : server'.torrents[t] = Gone
  <2>1. r.op = "remove" => r.on \subseteq Hosted
    BY <1>3 DEF Meant, Deletes
  <2> QED BY <1>1, <2>1, RowsEffect DEF RowsInv
<1>5. \A q \in asked : Meant(q, server'.torrents)
  BY <1>4, GoneStays DEF RowsInv
<1> DEFINE done == "done"
           refused == "refused"
           saw == IF r.op \in TorrentsPage!Brings THEN server'[r.list] ELSE r.saw
           a == Ended(r, done, saw)
           z == Ended(r, refused, Gone)
<1>6. r = Sent(r.op, r.list, r.on, r.to, r.state, r.alone, r.heard, r.saw)
  BY <1>3 DEF Meant
<1>7. TorrentsPage!Answer(r) = a /\ TorrentsPage!Refusal(r) = z
  BY DEF TorrentsPage!Answer, TorrentsPage!Refusal, Ended
<1>8. done = "done" /\ refused = "refused"
  OBVIOUS
<1> HIDE DEF done, refused, saw
<1>9. /\ a = Sent(r.op, r.list, r.on, r.to, done, r.alone, r.heard, saw)
      /\ z = Sent(r.op, r.list, r.on, r.to, refused, r.alone, r.heard, Gone)
  BY <1>6, EndedSent
<1> HIDE DEF a, z
<1>10. /\ a.op = r.op /\ a.on = r.on /\ a.to = r.to /\ a.state = done
       /\ a = Sent(a.op, a.list, a.on, a.to, a.state, a.alone, a.heard, a.saw)
       /\ z.op = r.op /\ z.on = r.on /\ z.to = r.to /\ z.state = refused
       /\ z = Sent(z.op, z.list, z.on, z.to, z.state, z.alone, z.heard, z.saw)
  BY <1>9, SentFields
<1>11. Meant(r, server'.torrents)
  BY <1>5
<1>12. Meant(z, server'.torrents)
  BY <1>8, <1>10, <1>11 DEF Meant
<1>13. ASSUME server' = TorrentsPage!Effect(r), TorrentsPage!Accepts(r)
       PROVE  Meant(a, server'.torrents)
  <2>1. r.op # "deletions"
    BY <1>13 DEF TorrentsPage!Accepts
  <2>2. r.op \in Deletes => \A t \in r.on : server'.torrents[t] = Gone
    BY <1>4, <1>13, <2>1 DEF Deletes
  <2> QED BY <1>10, <1>11, <2>2 DEF Meant
<1>14. \A q \in asked' : Meant(q, server'.torrents)
  <2>1. \/ asked' = (asked \ {r}) \cup {a} /\ Meant(a, server'.torrents)
        \/ asked' = (asked \ {r}) \cup {z}
    BY <1>1, <1>7, <1>13
  <2> QED BY <1>5, <1>12, <2>1
<1> QED BY <1>2, <1>4, <1>14 DEF RowsInv

\* Of the torrents to delete some are gone, and the request is about those now.
LEMMA RowsDeleted ==
  ASSUME RowsInv, TorrentsPage!ServeDelete PROVE RowsInv' /\ shown' = shown
<1>1. PICK r \in asked, gone \in SUBSET Hosted :
        /\ r.op = "deletions"
        /\ server' = [server EXCEPT !.torrents = [t \in Hosted |-> IF t \in gone THEN Gone ELSE @[t]]]
        /\ asked' = (asked \ {r}) \cup {[r EXCEPT !.state = "done", !.on = gone]}
  BY DEF TorrentsPage!ServeDelete
<1> DEFINE left == [t \in Hosted |-> IF t \in gone THEN Gone ELSE server.torrents[t]]
           s == [r EXCEPT !.state = "done", !.on = gone]
<1>2. server' = [server EXCEPT !.torrents = left]
  BY <1>1
<1>3. /\ DOMAIN left = Hosted
      /\ \A t \in Hosted : server.torrents[t] = Gone \/ t \in gone => left[t] = Gone
  OBVIOUS
<1> HIDE DEF left
<1>4. "torrents" \in DOMAIN server' /\ server'.torrents = left
  BY <1>2 DEF RowsInv
<1>5. \A q \in asked : Meant(q, server'.torrents)
  BY <1>3, <1>4, GoneStays DEF RowsInv
<1>6. /\ s.op = r.op /\ s.on = gone /\ s.to = r.to /\ s.state = "done"
      /\ s = Sent(s.op, s.list, s.on, s.to, s.state, s.alone, s.heard, s.saw)
  <2>1. r = Sent(r.op, r.list, r.on, r.to, r.state, r.alone, r.heard, r.saw)
    BY <1>5 DEF Meant
  <2>2. PICK op, list, on, to, state, alone, heard, saw :
          r = [op |-> op, list |-> list, on |-> on, to |-> to, state |-> state,
               alone |-> alone, heard |-> heard, saw |-> saw]
    BY <2>1 DEF Sent
  <2> DEFINE done == "done"
  <2> HIDE DEF done
  <2>3. [r EXCEPT !.state = done, !.on = gone]
          = Sent(op, list, gone, to, done, alone, heard, saw)
    <3> DEFINE e == [op |-> op, list |-> list, on |-> on, to |-> to, state |-> done,
                     alone |-> alone, heard |-> heard, saw |-> saw]
    <3>1. [r EXCEPT !.state = done, !.on = gone] = [[r EXCEPT !.state = done] EXCEPT !.on = gone]
      BY <2>2
    <3>2. [r EXCEPT !.state = done] = e
      BY <2>2
    <3>3. [e EXCEPT !.on = gone] = Sent(op, list, gone, to, done, alone, heard, saw)
      BY DEF Sent
    <3> QED BY <3>1, <3>2, <3>3
  <2>4. r.op = op /\ r.to = to
    BY <2>2
  <2>5. s = Sent(op, list, gone, to, done, alone, heard, saw) /\ done = "done"
    BY <2>3 DEF done
  <2> HIDE DEF s
  <2> QED BY <2>4, <2>5, SentFields
<1> HIDE DEF s
<1>7. Meant(s, server'.torrents)
  BY <1>1, <1>3, <1>4, <1>6 DEF Meant, Deletes, Changes
<1>8. asked' = (asked \ {r}) \cup {s}
  BY <1>1 DEF s
<1>9. \A q \in asked' : Meant(q, server'.torrents)
  BY <1>5, <1>7, <1>8
<1>10. shown' = shown
  BY DEF TorrentsPage!ServeDelete
<1> QED BY <1>3, <1>4, <1>9, <1>10 DEF RowsInv

LEMMA RowsStart == ASSUME TorrentsPage!Init PROVE RowsInv
<1>1. asked = {TorrentsPage!Request("load", "workers", Gone, Gone, Gone)}
  BY DEF TorrentsPage!Init, TorrentsPage!Mounted
<1>2. \A r \in asked : Meant(r, server.torrents)
  BY <1>1 DEF TorrentsPage!Request, Meant, Sent, Changes, Deletes
<1>3. /\ "torrents" \in DOMAIN server /\ DOMAIN server.torrents = Hosted
      /\ "torrents" \in DOMAIN shown /\ DOMAIN shown.torrents = Hosted
  BY DEF TorrentsPage!Init
<1> QED BY <1>2, <1>3 DEF RowsInv

LEMMA RowsStep ==
  ASSUME RowsInv, [TorrentsPage!Next]_pageVars
  PROVE  RowsInv' /\ (HashesOnOneWorker => TorrentsPage!RowLeavesForAReason)
<1>1. ASSUME shown' = shown PROVE TorrentsPage!RowLeavesForAReason
  BY <1>1 DEF TorrentsPage!RowLeavesForAReason
<1>2. CASE UNCHANGED pageVars
  BY <1>1, <1>2 DEF pageVars, RowsInv
<1>3. CASE \/ \E id : TorrentsPage!Act(id)
           \/ TorrentsPage!BulkAction \/ TorrentsPage!SaveLimits \/ TorrentsPage!SaveCategory
           \/ TorrentsPage!DeleteTorrent \/ TorrentsPage!ConfirmDelete
  BY <1>1, <1>3, RowsAsk
<1>4. CASE \/ TorrentsPage!Snapshot \/ TorrentsPage!ToggleSelectAll \/ TorrentsPage!CloseDialog
           \/ TorrentsPage!DeleteSelected
           \/ \E id : TorrentsPage!ToggleSelect(id) \/ TorrentsPage!ShowDetails(id)
           \/ \E t \in Hosted : TorrentsPage!ShowLimits(t) \/ TorrentsPage!DeleteRow(t)
  BY <1>4, RowsLook
<1>5. CASE \/ TorrentsPage!WorkersLoaded \/ TorrentsPage!Acted \/ TorrentsPage!CategorySaved
           \/ TorrentsPage!LimitsSaved \/ TorrentsPage!TorrentDeleted \/ TorrentsPage!ConfirmedGone
           \/ TorrentsPage!Refused({"act", "bulk", "category", "limits", "remove"})
  BY <1>5, RowsLand
<1>6. CASE TorrentsPage!ServeDelete \/ ServedRows
  BY <1>1, <1>6, RowsServed, RowsDeleted
<1> QED BY <1>2, <1>3, <1>4, <1>5, <1>6 DEF TorrentsPage!Next, ServedRows

RowsHold == page = "torrents" => RowsInv

LEMMA RowsAlways == Spec => []RowsHold
<1>1. Init => RowsHold
  BY RowsStart DEF Init, RowsHold
<1>2. RowsHold /\ [Next]_vars => RowsHold'
  <2> SUFFICES ASSUME RowsHold, [Next]_vars, page' = "torrents" PROVE RowsInv'
    BY DEF RowsHold
  <2>1. page = "torrents" /\ [TorrentsPage!Next]_pageVars
    BY DEF Next, vars
  <2> QED BY <2>1, RowsStep DEF RowsHold
<1> QED BY <1>1, <1>2, PTL DEF Spec

\* Torrents.tsx takes rows out of its list by itself (removeTasksLocally), and only
\* those whose deletion a worker has confirmed, whichever of a bulk deletion's
\* workers fail and whatever else is under way.  It does so by hash: it takes that
\* no hash is on two workers.
THEOREM RowsLeaveForAReasonCorrect == HashesOnOneWorker => (Spec => RowsLeaveForAReason)
<1> SUFFICES ASSUME HashesOnOneWorker PROVE Spec => RowsLeaveForAReason
  OBVIOUS
<1>1. RowsHold /\ [Next]_vars => [page = "torrents" => TorrentsPage!RowLeavesForAReason]_vars
  <2> SUFFICES ASSUME RowsHold, [Next]_vars, page = "torrents"
               PROVE  TorrentsPage!RowLeavesForAReason
    OBVIOUS
  <2>1. [TorrentsPage!Next]_pageVars
    BY DEF Next, vars
  <2> QED BY <2>1, RowsStep DEF RowsHold
<1> QED BY <1>1, RowsAlways, PTL DEF Spec, RowsLeaveForAReason


-----------------------------------------------------------------------------
(* Requests. *)

Asks(r) ==
  /\ r = Sent(r.op, r.list, r.on, r.to, r.state, r.alone, r.heard, r.saw)
  /\ r.state \in {"asked", "done", "refused"} /\ r.alone \in BOOLEAN /\ r.heard \in BOOLEAN

\* The same request, whether others are beside it or not; and one that asks for
\* the same, however far it has come.
Same(r, q) ==
  /\ r.op = q.op /\ r.list = q.list /\ r.on = q.on /\ r.to = q.to /\ r.heard = q.heard
  /\ r.state = q.state /\ r.saw = q.saw
Twin(r, q) == r.op = q.op /\ r.list = q.list /\ r.on = q.on /\ r.to = q.to /\ r.heard = q.heard

LEMMA RequestAsks ==
  ASSUME NEW op, NEW list, NEW on, NEW to, NEW saw
  PROVE  Asks(Request(op, list, on, to, saw))
<1> DEFINE q == Request(op, list, on, to, saw)
           yes == TRUE
           state == "asked"
<1>1. q = Sent(op, list, on, to, state, yes, yes, saw)
  BY DEF Request, Sent
<1> HIDE DEF q
<1>2. /\ q.op = op /\ q.list = list /\ q.on = on /\ q.to = to /\ q.saw = saw
      /\ q.state = state /\ q.alone = yes /\ q.heard = yes
      /\ q = Sent(q.op, q.list, q.on, q.to, q.state, q.alone, q.heard, q.saw)
  <2> HIDE DEF state, yes
  <2> QED BY <1>1, SentFields
<1> QED BY <1>2 DEF q, Asks

\* A request joins others: none of them is alone any more, unless there are none.
LEMMA AddAsks ==
  ASSUME NEW others, \A r \in others : Asks(r), NEW q, Asks(q)
  PROVE  LET after == Add(others, q) IN
         /\ \A r \in after : /\ Asks(r)
                             /\ \/ ~r.alone /\ \E p \in others : Same(r, p)
                                \/ r.alone = (others = {}) /\ Same(r, q)
         /\ \A p \in others \cup {q} : \E r \in after : Same(r, p)
         /\ others = {} => \E r : after = {r}
<1> DEFINE no == FALSE
           first == others = {}
           new == [q EXCEPT !.alone = first]
           aside(r) == [r EXCEPT !.alone = no]
           after == Add(others, q)
<1>1. after = {aside(r) : r \in others} \cup {new}
  BY DEF Add
<1>2. ASSUME NEW r \in others PROVE Asks(aside(r)) /\ aside(r).alone = no /\ Same(aside(r), r)
  <2>1. Asks(r) /\ r = Sent(r.op, r.list, r.on, r.to, r.state, r.alone, r.heard, r.saw)
    BY DEF Asks
  <2> HIDE DEF no
  <2>2. aside(r) = Sent(r.op, r.list, r.on, r.to, r.state, no, r.heard, r.saw)
    BY <2>1, SentEdits
  <2> HIDE DEF aside
  <2>3. /\ Same(aside(r), r) /\ aside(r).alone = no
        /\ aside(r) = Sent(aside(r).op, aside(r).list, aside(r).on, aside(r).to,
                           aside(r).state, aside(r).alone, aside(r).heard, aside(r).saw)
    BY <2>2, SentFields DEF Same
  <2> QED BY <2>1, <2>3 DEF Asks, Same, no
<1>3. Asks(new) /\ new.alone = first /\ Same(new, q)
  <2>1. q = Sent(q.op, q.list, q.on, q.to, q.state, q.alone, q.heard, q.saw)
    BY DEF Asks
  <2> HIDE DEF first
  <2>2. new = Sent(q.op, q.list, q.on, q.to, q.state, first, q.heard, q.saw)
    BY <2>1, SentEdits
  <2> HIDE DEF new
  <2>3. /\ Same(new, q) /\ new.alone = first
        /\ new = Sent(new.op, new.list, new.on, new.to, new.state, new.alone, new.heard, new.saw)
    BY <2>2, SentFields DEF Same
  <2> QED BY <2>3 DEF Asks, Same, first
<1> HIDE DEF aside, new, after, no
<1>4. \A r \in after : /\ Asks(r)
                       /\ \/ ~r.alone /\ \E p \in others : Same(r, p)
                          \/ r.alone = first /\ Same(r, q)
  BY <1>1, <1>2, <1>3 DEF no
<1>5. \A p \in others \cup {q} : \E r \in after : Same(r, p)
  BY <1>1, <1>2, <1>3
<1>6. others = {} => after = {new}
  BY <1>1
<1> QED BY <1>4, <1>5, <1>6 DEF after

\* What becomes of a request when the backend answers it.
LEMMA AnswerAsks ==
  ASSUME NEW r, Asks(r)
  PROVE  /\ Asks(Answer(r)) /\ Twin(Answer(r), r) /\ Answer(r).alone = r.alone
         /\ Answer(r).state = "done"
         /\ Answer(r).saw = IF r.op \in Brings THEN server'[r.list] ELSE r.saw
         /\ Asks(Refusal(r)) /\ Twin(Refusal(r), r) /\ Refusal(r).alone = r.alone
         /\ Refusal(r).state = "refused" /\ Refusal(r).saw = Gone
<1> DEFINE done == "done"
           refused == "refused"
           saw == IF r.op \in Brings THEN server'[r.list] ELSE r.saw
           a == Answer(r)
           b == Refusal(r)
<1>1. r = Sent(r.op, r.list, r.on, r.to, r.state, r.alone, r.heard, r.saw)
  BY DEF Asks
<1>2. a = Ended(r, done, saw)
  BY DEF Answer, Ended
<1>3. b = Ended(r, refused, Gone)
  BY DEF Refusal, Ended
<1> HIDE DEF a, b, saw, done, refused
<1>4. a = Sent(r.op, r.list, r.on, r.to, done, r.alone, r.heard, saw)
  BY <1>1, <1>2, EndedSent
<1>5. b = Sent(r.op, r.list, r.on, r.to, refused, r.alone, r.heard, Gone)
  BY <1>1, <1>3, EndedSent
<1>6. /\ Twin(a, r) /\ a.alone = r.alone /\ a.state = done /\ a.saw = saw
      /\ a = Sent(a.op, a.list, a.on, a.to, a.state, a.alone, a.heard, a.saw)
  BY <1>4, SentFields DEF Twin
<1>7. /\ Twin(b, r) /\ b.alone = r.alone /\ b.state = refused /\ b.saw = Gone
      /\ b = Sent(b.op, b.list, b.on, b.to, b.state, b.alone, b.heard, b.saw)
  BY <1>5, SentFields DEF Twin
<1>8. Asks(a) /\ Asks(b)
  BY <1>6, <1>7 DEF Asks, Twin, done, refused
<1> QED BY <1>6, <1>7, <1>8 DEF a, b, saw, done, refused

\* Nobody hears of a request any more.
LEMMA UnheardAsks ==
  ASSUME NEW r, Asks(r)
  PROVE  LET s == [r EXCEPT !.heard = FALSE] IN
         /\ Asks(s) /\ s.op = r.op /\ s.list = r.list /\ s.on = r.on /\ s.to = r.to
         /\ s.state = r.state /\ s.alone = r.alone /\ s.heard = FALSE /\ s.saw = r.saw
<1> DEFINE no == FALSE
           s == [r EXCEPT !.heard = no]
<1>1. PICK op, list, on, to, state, alone, heard, saw :
        r = [op |-> op, list |-> list, on |-> on, to |-> to, state |-> state,
             alone |-> alone, heard |-> heard, saw |-> saw]
  BY DEF Asks, Sent
<1> HIDE DEF no
<1>2. /\ s = [op |-> op, list |-> list, on |-> on, to |-> to, state |-> state,
              alone |-> alone, heard |-> no, saw |-> saw]
      /\ r.op = op /\ r.list = list /\ r.on = on /\ r.to = to /\ r.state = state
      /\ r.alone = alone /\ r.saw = saw
  BY <1>1
<1> HIDE DEF s
<1>3. s = Sent(op, list, on, to, state, alone, no, saw)
  BY <1>2 DEF Sent
<1>4. /\ s.op = r.op /\ s.list = r.list /\ s.on = r.on /\ s.to = r.to
      /\ s.state = r.state /\ s.alone = r.alone /\ s.heard = no /\ s.saw = r.saw
      /\ s = Sent(s.op, s.list, s.on, s.to, s.state, s.alone, s.heard, s.saw)
  BY <1>2, <1>3, SentFields
<1> QED BY <1>4 DEF Asks, s, no

\* The places of a sequence are taken one after the other: what is taken comes
\* from it, all of it, and what was last stays last.
LEMMA OnlyTakes ==
  ASSUME NEW S, NEW s \in Seq(S), NEW places \in SUBSET DOMAIN s
  PROVE  LET taken == Only(s, places) IN
         /\ taken \in Seq(S) /\ Len(taken) = Cardinality(places) /\ Len(taken) <= Len(s)
         /\ \A n \in 1..Len(taken) : \E i \in places : taken[n] = s[i]
         /\ \A i \in places : \E n \in 1..Len(taken) : taken[n] = s[i]
         /\ Len(s) \in places => taken[Len(taken)] = s[Len(s)]
<1> DEFINE size == Cardinality(places)
           before(i) == {j \in places : j < i}
           rank == [i \in places |-> Cardinality(before(i))]
           at(n) == CHOOSE i \in places : Cardinality(before(i)) = n - 1
           taken == [n \in 1..size |-> s[at(n)]]
<1>1. /\ DOMAIN s = 1..Len(s) /\ Len(s) \in Nat
      /\ IsFiniteSet(1..Len(s)) /\ Cardinality(1..Len(s)) = Len(s)
  <2>1. DOMAIN s = 1..Len(s) /\ Len(s) \in Nat
    OBVIOUS
  <2>2. ASSUME NEW m \in Nat PROVE IsFiniteSet(1..m) /\ Cardinality(1..m) = m
    BY FS_Interval
  <2> QED BY <2>1, <2>2
<1>2. IsFiniteSet(places) /\ size \in Nat /\ size <= Len(s)
  BY <1>1, FS_Subset, FS_CardinalityType
<1>3. ASSUME NEW i \in places
      PROVE  /\ IsFiniteSet(before(i)) /\ Cardinality(before(i)) \in 0..(size - 1)
             /\ \A k \in places : i < k => Cardinality(before(i)) < Cardinality(before(k))
  <2>1. IsFiniteSet(before(i)) /\ Cardinality(before(i)) \in Nat
    BY <1>2, FS_Subset, FS_CardinalityType
  <2>2. i \in Nat /\ i \notin before(i)
    BY <1>1
  <2>3. /\ IsFiniteSet(before(i) \cup {i})
        /\ Cardinality(before(i) \cup {i}) = Cardinality(before(i)) + 1
    <3> HIDE DEF before
    <3> QED BY <2>1, <2>2, FS_AddElement
  <2>4. Cardinality(before(i) \cup {i}) <= size
    <3>1. before(i) \cup {i} \in SUBSET places
      OBVIOUS
    <3> HIDE DEF before
    <3> QED BY <1>2, <3>1, FS_Subset
  <2>5. ASSUME NEW k \in places, i < k PROVE Cardinality(before(i)) < Cardinality(before(k))
    <3>1. before(i) \cup {i} \in SUBSET before(k)
      BY <1>1, <2>5
    <3>2. IsFiniteSet(before(k)) /\ Cardinality(before(k)) \in Nat
      BY <1>2, FS_Subset, FS_CardinalityType
    <3> HIDE DEF before
    <3>3. Cardinality(before(i) \cup {i}) <= Cardinality(before(k))
      BY <3>1, <3>2, FS_Subset
    <3> QED BY <2>1, <2>3, <3>2, <3>3
  <2> HIDE DEF before, size
  <2> QED BY <1>2, <2>1, <2>3, <2>4, <2>5
<1> HIDE DEF before
<1>4. rank \in Injection(places, 0..(size - 1))
  <2>1. rank \in [places -> 0..(size - 1)]
    BY <1>3
  <2>2. \A i, k \in places : rank[i] = rank[k] => i = k
    <3> SUFFICES ASSUME NEW i \in places, NEW k \in places, rank[i] = rank[k], i # k PROVE FALSE
      OBVIOUS
    <3>1. i \in Nat /\ k \in Nat
      BY <1>1
    <3>2. i < k \/ k < i
      BY <3>1
    <3>3. rank[i] \in Nat /\ rank[k] \in Nat
      BY <1>3, <1>2
    <3> QED BY <1>3, <3>2, <3>3
  <2> QED BY <2>1, <2>2 DEF Injection, IsInjective
<1>5. \A n \in 1..size : at(n) \in places /\ Cardinality(before(at(n))) = n - 1
  <2>1. IsFiniteSet(0..(size - 1)) /\ Cardinality(0..(size - 1)) = size
    <3>1. ASSUME NEW m \in Int, m >= -1 PROVE IsFiniteSet(0..m) /\ Cardinality(0..m) = m + 1
      BY <3>1, FS_Interval
    <3> DEFINE m == size - 1
    <3>2. m \in Int /\ m >= -1 /\ m + 1 = size
      BY <1>2
    <3> HIDE DEF m
    <3>3. IsFiniteSet(0..m) /\ Cardinality(0..m) = m + 1
      BY <3>1, <3>2
    <3> QED BY <3>2, <3>3 DEF m
  <2>2. rank \in Surjection(places, 0..(size - 1))
    <3> HIDE DEF rank
    <3> QED BY <1>4, <2>1, FS_Injection
  <2>3. ASSUME NEW n \in 1..size PROVE \E i \in places : Cardinality(before(i)) = n - 1
    <3>1. n - 1 \in 0..(size - 1)
      BY <1>2
    <3>2. PICK i \in places : rank[i] = n - 1
      BY <2>2, <3>1 DEF Surjection
    <3> QED BY <3>2
  <2> QED BY <2>3
<1>6. taken = Only(s, places)
  BY DEF Only, before
<1> HIDE DEF at, rank
<1>7. taken \in Seq(S) /\ Len(taken) = size
  <2>1. \A n \in 1..size : s[at(n)] \in S
    BY <1>1, <1>5
  <2> QED BY <1>2, <2>1
<1>8. \A n \in 1..size : \E i \in places : taken[n] = s[i]
  BY <1>5
<1>9. ASSUME NEW i \in places
      PROVE  Cardinality(before(i)) + 1 \in 1..size /\ taken[Cardinality(before(i)) + 1] = s[i]
  <2> DEFINE n == Cardinality(before(i)) + 1
  <2>1. n \in 1..size /\ n - 1 = Cardinality(before(i))
    BY <1>2, <1>3
  <2>2. at(n) \in places /\ Cardinality(before(at(n))) = Cardinality(before(i))
    BY <1>5, <2>1
  <2>3. i \in Nat /\ at(n) \in Nat
    BY <1>1, <2>2
  <2>4. at(n) = i
    <3>1. ASSUME at(n) < i \/ i < at(n) PROVE FALSE
      <4>1. Cardinality(before(i)) \in Nat /\ Cardinality(before(at(n))) \in Nat
        BY <1>2, <1>3, <2>2
      <4> HIDE DEF n
      <4> QED BY <1>3, <2>2, <3>1, <4>1
    <3> HIDE DEF n
    <3> QED BY <2>3, <3>1
  <2> HIDE DEF n
  <2> QED BY <2>1, <2>4 DEF n
<1>10. ASSUME Len(s) \in places PROVE taken[size] = s[Len(s)]
  <2> DEFINE last == Len(s)
  <2>1. \A i \in places : i <= last
    BY <1>1
  <2>2. before(last) \cup {last} = places
    BY <1>1, <1>10, <2>1 DEF before
  <2>3. last \notin before(last)
    BY <1>1 DEF before
  <2>4. size = Cardinality(before(last)) + 1
    <3> HIDE DEF last
    <3> QED BY <1>3, <1>10, <2>2, <2>3, FS_AddElement DEF last
  <2> QED BY <1>9, <1>10, <2>4
<1> HIDE DEF taken, size
<1>11. \A i \in places : \E n \in 1..size : taken[n] = s[i]
  BY <1>9
<1> QED BY <1>2, <1>6, <1>7, <1>8, <1>10, <1>11 DEF size

LEMMA WithoutTakes ==
  ASSUME NEW S, dialog \in Seq(S), NEW kinds
  PROVE  /\ Without(kinds) \in Seq(S) /\ Len(Without(kinds)) <= Len(dialog)
         /\ \A n \in 1..Len(Without(kinds)) :
              \E i \in 1..Len(dialog) : Without(kinds)[n] = dialog[i] /\ dialog[i].is \notin kinds
         /\ dialog # Closed /\ Top.is \notin kinds =>
              Without(kinds) # Closed /\ Without(kinds)[Len(Without(kinds))] = Top
<1> DEFINE places == {i \in DOMAIN dialog : dialog[i].is \notin kinds}
           rest == Without(kinds)
<1>1. rest = Only(dialog, places) /\ places \in SUBSET DOMAIN dialog
  BY DEF Without
<1>2. DOMAIN dialog = 1..Len(dialog) /\ Len(dialog) \in Nat
  OBVIOUS
<1>3. /\ rest \in Seq(S) /\ Len(rest) <= Len(dialog)
      /\ \A n \in 1..Len(rest) : \E i \in places : rest[n] = dialog[i]
      /\ \A i \in places : \E n \in 1..Len(rest) : rest[n] = dialog[i]
      /\ Len(dialog) \in places => rest[Len(rest)] = dialog[Len(dialog)]
  <2> HIDE DEF places, rest
  <2> QED BY <1>1, OnlyTakes
<1>4. ASSUME dialog # Closed, Top.is \notin kinds
      PROVE  rest # Closed /\ rest[Len(rest)] = Top
  <2>1. Len(dialog) \in 1..Len(dialog) /\ Top = dialog[Len(dialog)]
    BY <1>2, <1>4 DEF Closed, Top
  <2>2. Len(dialog) \in places
    BY <1>2, <1>4, <2>1
  <2> HIDE DEF places, rest
  <2>3. \E n \in 1..Len(rest) : TRUE
    BY <1>3, <2>2
  <2> QED BY <1>3, <2>1, <2>2, <2>3 DEF Closed
<1> HIDE DEF rest
<1> QED BY <1>2, <1>3, <1>4 DEF rest

\* A request that has been alone so far still is; otherwise the lists may differ.
Solo == \A r \in asked : IF r.alone THEN asked = {r} ELSE DOMAIN shown \subseteq apart

\* Nothing is alone, and no list is known to agree.
Crowded == DOMAIN shown \subseteq apart /\ \A r \in asked : ~r.alone

LEMMA AskSolo ==
  ASSUME \A r \in asked : Asks(r), Solo,
         NEW op, NEW list, NEW on, NEW to, NEW saw,
         asked' = Add(asked, Request(op, list, on, to, saw)),
         apart' = IF asked = {} THEN apart ELSE DOMAIN shown,
         DOMAIN shown' = DOMAIN shown
  PROVE  /\ \A r \in asked' : /\ Asks(r)
                              /\ \E p \in asked \cup {Request(op, list, on, to, saw)} : Same(r, p)
         /\ \A p \in asked \cup {Request(op, list, on, to, saw)} : \E r \in asked' : Twin(r, p)
         /\ Solo'
         /\ \/ /\ asked = {} /\ apart' = apart
               /\ \A r \in asked' : Same(r, Request(op, list, on, to, saw))
            \/ Crowded'
<1> DEFINE q == Request(op, list, on, to, saw)
<1>1. Asks(q)
  BY RequestAsks
<1> HIDE DEF q
<1>2. asked' = Add(asked, q)
  BY DEF q
<1>3. /\ \A r \in asked' : /\ Asks(r)
                           /\ \/ ~r.alone /\ \E p \in asked : Same(r, p)
                              \/ r.alone = (asked = {}) /\ Same(r, q)
      /\ \A p \in asked \cup {q} : \E r \in asked' : Same(r, p)
      /\ asked = {} => \E r : asked' = {r}
  <2> DEFINE after == Add(asked, q)
  <2>1. /\ \A r \in after : /\ Asks(r)
                            /\ \/ ~r.alone /\ \E p \in asked : Same(r, p)
                               \/ r.alone = (asked = {}) /\ Same(r, q)
        /\ \A p \in asked \cup {q} : \E r \in after : Same(r, p)
        /\ asked = {} => \E r : after = {r}
    BY <1>1, AddAsks
  <2> HIDE DEF after
  <2> QED BY <1>2, <2>1 DEF after
<1>4. \A p \in asked \cup {q} : \E r \in asked' : Twin(r, p)
  BY <1>3 DEF Same, Twin
<1>5. Solo'
  BY <1>3 DEF Solo
<1>6. asked # {} => Crowded'
  BY <1>3 DEF Crowded
<1>7. asked = {} => apart' = apart /\ \A r \in asked' : Same(r, q)
  BY <1>3
<1> QED BY <1>3, <1>4, <1>5, <1>6, <1>7 DEF q

LEMMA LandSolo ==
  ASSUME Solo, NEW r \in asked, asked' = asked \ {r}, DOMAIN shown' = DOMAIN shown,
         apart' = apart \/ (r.alone /\ apart' = apart \ {r.list})
  PROVE  Solo' /\ ((r.alone /\ asked' = {}) \/ (~r.alone /\ apart' = apart /\ Crowded'))
  BY DEF Solo, Crowded

LEMMA ServeSolo ==
  ASSUME Solo, NEW r \in asked, NEW s, asked' = (asked \ {r}) \cup {s}, s.alone = r.alone,
         DOMAIN shown' = DOMAIN shown, apart' = apart \/ apart' = DOMAIN shown
  PROVE  Solo' /\ ((r.alone /\ asked = {r} /\ asked' = {s}) \/ Crowded')
  BY DEF Solo, Crowded

\* What waits goes on waiting: a request that others join, one that is answered,
\* and one beside another that is taken.
Carries(before, after) == \A p \in before : \E r \in after : Twin(r, p)

\* The backend reaches a request: it answers it with what it did, refuses it, or
\* does it unheard.
LEMMA Answering ==
  ASSUME NEW r \in asked, Asks(r), NEW accepts, NEW effect,
         \/ accepts /\ server' = effect /\ asked' = (asked \ {r}) \cup {Answer(r)} /\ apart' = apart
         \/ asked' = (asked \ {r}) \cup {Refusal(r)} /\ server' = server /\ apart' = apart
         \/ /\ accepts /\ server' = effect /\ asked' = (asked \ {r}) \cup {Refusal(r)}
            /\ apart' = DOMAIN shown
  PROVE  \E s : /\ asked' = (asked \ {r}) \cup {s}
                /\ Asks(s) /\ Twin(s, r) /\ s.alone = r.alone
                /\ \/ /\ s.state = "done" /\ accepts /\ server' = effect /\ apart' = apart
                      /\ s.saw = IF r.op \in Brings THEN server'[r.list] ELSE r.saw
                   \/ /\ s.state = "refused" /\ s.saw = Gone
                      /\ \/ server' = server /\ apart' = apart
                         \/ accepts /\ server' = effect /\ apart' = DOMAIN shown
<1> DEFINE a == Answer(r)
           b == Refusal(r)
<1>1. /\ Asks(a) /\ Twin(a, r) /\ a.alone = r.alone /\ a.state = "done"
      /\ a.saw = IF r.op \in Brings THEN server'[r.list] ELSE r.saw
      /\ Asks(b) /\ Twin(b, r) /\ b.alone = r.alone /\ b.state = "refused" /\ b.saw = Gone
  BY AnswerAsks
<1>2. \/ accepts /\ server' = effect /\ asked' = (asked \ {r}) \cup {a} /\ apart' = apart
      \/ asked' = (asked \ {r}) \cup {b} /\ server' = server /\ apart' = apart
      \/ accepts /\ server' = effect /\ asked' = (asked \ {r}) \cup {b} /\ apart' = DOMAIN shown
  OBVIOUS
<1> HIDE DEF a, b
<1> QED BY <1>1, <1>2

\* A handler that has its answer goes on with a request of its own.
LEMMA FollowSolo ==
  ASSUME \A r \in asked : Asks(r), NEW others \in SUBSET asked,
         NEW op, NEW list, NEW on, NEW to, NEW saw,
         asked' = Add(others, Request(op, list, on, to, saw)),
         apart' = DOMAIN shown, DOMAIN shown' = DOMAIN shown
  PROVE  /\ \A r \in asked' : /\ Asks(r)
                              /\ \E p \in others \cup {Request(op, list, on, to, saw)} : Same(r, p)
         /\ \A p \in others \cup {Request(op, list, on, to, saw)} : \E r \in asked' : Twin(r, p)
         /\ Solo'
<1> DEFINE q == Request(op, list, on, to, saw)
<1>1. Asks(q)
  BY RequestAsks
<1> HIDE DEF q
<1>2. /\ \A r \in asked' : /\ Asks(r)
                           /\ \/ ~r.alone /\ \E p \in others : Same(r, p)
                              \/ r.alone = (others = {}) /\ Same(r, q)
      /\ \A p \in others \cup {q} : \E r \in asked' : Same(r, p)
      /\ others = {} => \E r : asked' = {r}
  <2> DEFINE after == Add(others, q)
  <2>1. /\ \A r \in after : /\ Asks(r)
                            /\ \/ ~r.alone /\ \E p \in others : Same(r, p)
                               \/ r.alone = (others = {}) /\ Same(r, q)
        /\ \A p \in others \cup {q} : \E r \in after : Same(r, p)
        /\ others = {} => \E r : after = {r}
    BY <1>1, AddAsks
  <2> HIDE DEF after
  <2> QED BY <2>1 DEF after, q
<1>3. \A p \in others \cup {q} : \E r \in asked' : Twin(r, p)
  BY <1>2 DEF Same, Twin
<1>4. Solo'
  BY <1>2 DEF Solo
<1> QED BY <1>2, <1>3, <1>4 DEF q

\* The dialog on top of some dialogs.
TopOf(d) == IF d = <<>> THEN [is |-> "none"] ELSE d[Len(d)]

\* A request that asks for something else by now.
LEMMA AimAsks ==
  ASSUME NEW r, Asks(r), NEW aim
  PROVE  LET s == [r EXCEPT !.to = aim] IN
         /\ Asks(s) /\ s.op = r.op /\ s.list = r.list /\ s.on = r.on /\ s.to = aim
         /\ s.state = r.state /\ s.alone = r.alone /\ s.heard = r.heard /\ s.saw = r.saw
<1> DEFINE s == [r EXCEPT !.to = aim]
<1>1. PICK op, list, on, to, state, alone, heard, saw :
        r = [op |-> op, list |-> list, on |-> on, to |-> to, state |-> state,
             alone |-> alone, heard |-> heard, saw |-> saw]
  BY DEF Asks, Sent
<1>2. /\ s = [op |-> op, list |-> list, on |-> on, to |-> aim, state |-> state,
              alone |-> alone, heard |-> heard, saw |-> saw]
      /\ r.op = op /\ r.list = list /\ r.on = on /\ r.heard = heard /\ r.state = state
      /\ r.alone = alone /\ r.saw = saw
  BY <1>1
<1> HIDE DEF s
<1>3. s = Sent(op, list, on, aim, state, alone, heard, saw)
  BY <1>2 DEF Sent
<1>4. /\ s.op = r.op /\ s.list = r.list /\ s.on = r.on /\ s.to = aim
      /\ s.state = r.state /\ s.alone = r.alone /\ s.heard = r.heard /\ s.saw = r.saw
      /\ s = Sent(s.op, s.list, s.on, s.to, s.state, s.alone, s.heard, s.saw)
  BY <1>2, <1>3, SentFields
<1> QED BY <1>4 DEF Asks, s

\* Two requests that are the same, alone or not, are one.
LEMMA SameAsks ==
  ASSUME NEW p, NEW q, Asks(p), Asks(q), Same(p, q), p.alone = q.alone
  PROVE  p = q
  BY DEF Asks, Same

\* Of one dialog at most, the one on top is the only one.
LEMMA ShortDialogs ==
  ASSUME NEW S, NEW d \in Seq(S), Len(d) <= 1
  PROVE  (d = <<>> /\ TopOf(d).is = "none") \/ (Len(d) = 1 /\ TopOf(d) = d[1] /\ TopOf(d) \in S)
<1>1. CASE d = <<>>
  BY <1>1 DEF TopOf
<1>2. CASE d # <<>>
  <2> DEFINE n == Len(d)
  <2>1. n \in Nat /\ n # 0 /\ n <= 1
    BY <1>2
  <2>2. n = 1
    <3> HIDE DEF n
    <3> QED BY <2>1
  <2>3. d[1] \in S
    BY <2>2
  <2> QED BY <1>2, <2>2, <2>3 DEF TopOf
<1> QED BY <1>1, <1>2

\* Some kinds of dialogs are closed: the one that stood open is, or stays.
LEMMA ShortWithout ==
  ASSUME NEW S, dialog \in Seq(S), Len(dialog) <= 1, NEW kinds
  PROVE  /\ Without(kinds) \in Seq(S) /\ Len(Without(kinds)) <= 1
         /\ \/ Without(kinds) = <<>>
            \/ TopOf(Without(kinds)) = TopOf(dialog) /\ TopOf(dialog).is \notin kinds /\ dialog # <<>>
<1> DEFINE rest == Without(kinds)
<1>1. /\ rest \in Seq(S) /\ Len(rest) <= Len(dialog)
      /\ \A n \in 1..Len(rest) : \E i \in 1..Len(dialog) : rest[n] = dialog[i] /\ dialog[i].is \notin kinds
  BY WithoutTakes
<1> HIDE DEF rest
<1>2. Len(rest) \in Nat /\ Len(dialog) \in Nat
  BY <1>1
<1>3. CASE rest # <<>>
  <2> DEFINE n == Len(rest)
             m == Len(dialog)
  <2>3. n # 0
    BY <1>1, <1>3
  <2>4. n \in Nat /\ m \in Nat /\ n <= m /\ m <= 1
    BY <1>1, <1>2
  <2>1. n = 1 /\ m = 1
    <3> HIDE DEF n, m
    <3> QED BY <2>3, <2>4
  <2>2. rest[1] = dialog[1] /\ dialog[1].is \notin kinds
    BY <1>1, <2>1
  <2> QED BY <1>1, <1>3, <2>1, <2>2 DEF TopOf, rest
<1> QED BY <1>1, <1>2, <1>3 DEF rest

\* A request joins others: each of them is still there, once.
LEMMA JoinAsks ==
  ASSUME NEW others, \A r \in others : Asks(r), NEW q, Asks(q), asked' = Add(others, q)
  PROVE  /\ \A r \in asked' : Asks(r) /\ \E p \in others \cup {q} : Same(r, p)
         /\ \A p \in others \cup {q} : \E r \in asked' : Same(r, p)
         /\ others = {} => \A r \in asked' : asked' = {r} /\ r.alone
         /\ others # {} => \A r \in asked' : ~r.alone
         /\ \A r, s \in asked' : Same(r, s) => r = s
<1>1. /\ \A r \in asked' : /\ Asks(r)
                           /\ \/ ~r.alone /\ \E p \in others : Same(r, p)
                              \/ r.alone = (others = {}) /\ Same(r, q)
      /\ \A p \in others \cup {q} : \E r \in asked' : Same(r, p)
      /\ others = {} => \E r : asked' = {r}
  <2> DEFINE after == Add(others, q)
  <2>1. /\ \A r \in after : /\ Asks(r)
                            /\ \/ ~r.alone /\ \E p \in others : Same(r, p)
                               \/ r.alone = (others = {}) /\ Same(r, q)
        /\ \A p \in others \cup {q} : \E r \in after : Same(r, p)
        /\ others = {} => \E r : after = {r}
    BY AddAsks
  <2> HIDE DEF after
  <2> QED BY <2>1 DEF after
<1>2. \A r \in asked' : IF others = {} THEN asked' = {r} /\ r.alone ELSE ~r.alone
  BY <1>1
<1>3. ASSUME NEW r \in asked', NEW s \in asked', Same(r, s) PROVE r = s
  <2>1. CASE others = {}
    BY <1>2, <2>1
  <2>2. CASE others # {}
    <3>1. r.alone = FALSE /\ s.alone = FALSE /\ Asks(r) /\ Asks(s)
      BY <1>1, <1>2, <2>2 DEF Asks
    <3> QED BY <1>3, <3>1, SameAsks
  <2> QED BY <2>1, <2>2
<1> QED BY <1>1, <1>2, <1>3

\* A sequence of dialogs loses the one on top.
LEMMA CloseShortens ==
  ASSUME NEW S, dialog \in Seq(S), NEW rest, rest = SubSeq(dialog, 1, Len(dialog) - 1)
  PROVE  rest \in Seq(S)
<1>1. Len(dialog) \in Nat
  OBVIOUS
<1> QED BY <1>1

LEMMA TopTyped ==
  ASSUME NEW S, NEW d \in Seq(S), TopOf(d).is # "none"
  PROVE  d # <<>> /\ TopOf(d) \in S
<1>1. d # <<>>
  BY DEF TopOf
<1>2. Len(d) \in 1..Len(d)
  BY <1>1
<1> QED BY <1>1, <1>2 DEF TopOf

LEMMA OverTop ==
  ASSUME NEW S, NEW d \in Seq(S), NEW e \in S
  PROVE  /\ Append(d, e) \in Seq(S) /\ Append(d, e) # <<>>
         /\ TopOf(Append(d, e)) = e
<1>1. Append(d, e) \in Seq(S) /\ Len(Append(d, e)) = Len(d) + 1 /\ Append(d, e)[Len(d) + 1] = e
  OBVIOUS
<1>2. Append(d, e) # <<>>
  <2> DEFINE n == Len(d)
             m == Len(Append(d, e))
  <2>1. n \in Nat /\ m = n + 1
    BY <1>1
  <2>2. m # 0
    <3> HIDE DEF n, m
    <3> QED BY <2>1
  <2>3. Len(<<>>) = 0
    OBVIOUS
  <2> DEFINE a == Append(d, e)
  <2>4. Len(a) # 0
    BY <2>2
  <2> HIDE DEF a
  <2>5. a # <<>>
    BY <2>3, <2>4
  <2> QED BY <2>5 DEF a
<1> QED BY <1>1, <1>2 DEF TopOf

LEMMA WithoutTop ==
  ASSUME NEW S, dialog \in Seq(S), NEW kinds
  PROVE  /\ Without(kinds) \in Seq(S)
         /\ TopOf(dialog).is \notin kinds => TopOf(Without(kinds)).is = TopOf(dialog).is
         /\ TopOf(Without(kinds)).is \notin kinds \/ Without(kinds) = <<>>
<1> DEFINE rest == Without(kinds)
<1>1. /\ rest \in Seq(S) /\ Len(rest) <= Len(dialog)
      /\ \A n \in 1..Len(rest) : \E i \in 1..Len(dialog) : rest[n] = dialog[i] /\ dialog[i].is \notin kinds
      /\ dialog # <<>> /\ Top.is \notin kinds => rest # <<>> /\ rest[Len(rest)] = Top
  BY WithoutTakes DEF Closed
<1>2. Top = TopOf(dialog)
  BY DEF Top, TopOf, Closed
<1> HIDE DEF rest
<1>3. CASE rest = <<>>
  <2>1. ASSUME TopOf(dialog).is \notin kinds PROVE TopOf(rest).is = TopOf(dialog).is
    <3>1. dialog = <<>>
      BY <1>1, <1>2, <1>3, <2>1
    <3> QED BY <1>3, <3>1 DEF TopOf
  <2> QED BY <1>1, <1>3, <2>1 DEF rest
<1>4. CASE rest # <<>>
  <2>1. Len(rest) \in 1..Len(rest) /\ TopOf(rest) = rest[Len(rest)]
    BY <1>1, <1>4 DEF TopOf
  <2>2. TopOf(rest).is \notin kinds
    BY <1>1, <2>1
  <2>3. dialog # <<>>
    <3> DEFINE n == Len(rest)
               m == Len(dialog)
    <3>1. n \in Nat /\ m \in Nat /\ n \in 1..n /\ n <= m
      BY <1>1, <2>1
    <3>2. m # 0
      <4> HIDE DEF n, m
      <4> QED BY <3>1
    <3> QED BY <3>2
  <2>4. TopOf(dialog).is \notin kinds => TopOf(rest) = TopOf(dialog)
    BY <1>1, <1>2, <2>1, <2>3
  <2> QED BY <1>1, <2>2, <2>4 DEF rest
<1> QED BY <1>3, <1>4

-----------------------------------------------------------------------------
(* Users.tsx. *)

UserPatches == {"delete", "update", "create", "revoke"}
UserCopies(list) == IF list = "users" THEN [Accounts -> UsersPage!Roles \cup {Gone}]
                    ELSE [Links -> {Gone, "open", "used"}]
UserAsks(r) ==
  /\ Asks(r)
  /\ r.op \in UserPatches \cup {"load", "reset"} /\ r.list \in {"users", "links"}
  /\ r.op \in {"delete", "update", "reset"} => r.list = "users" /\ r.on \in Accounts
  /\ r.op \in {"create", "revoke"} => r.list = "links"
  /\ r.op = "update" => r.to \in UsersPage!Roles
  /\ r.op = "create" => r.to = "open"
  /\ r.op \in {"delete", "revoke"} => r.to = Gone
  /\ r.op \in UserPatches /\ r.state # "refused" => r.saw \in UserCopies(r.list)
  /\ r.op = "load" /\ r.state = "done" => r.saw \in UserCopies(r.list)
UserDialogs ==
  [is : {"delete"}, on : Accounts] \cup [is : {"links"}, on : {Nobody}]
    \cup [is : {"details", "edit"}, on : Accounts, was : UsersPage!Roles]
UserViews ==
  [loading : BOOLEAN, linksLoading : BOOLEAN, found : {Accounts, {}}, role : UsersPage!Roles,
   linkForm : BOOLEAN, link : Accounts \cup {Nobody}]

\* A list that loads and patches can be told from is what the backend holds, once
\* the patch that is done is applied to the copy its handler closed over.
Settled(list, patches) ==
  /\ \A r \in asked : r.op \in patches /\ r.list = list =>
       /\ r.state # "refused" => r.saw = shown[list]
       /\ r.state = "done" => server[list] = [shown[list] EXCEPT ![r.on] = r.to]
  /\ (\A r \in asked : r.op \in patches /\ r.list = list => r.state # "done")
       => shown[list] = server[list]
FreshLoads == \A r \in asked : r.op = "load" /\ r.state = "done" /\ r.alone => r.saw = server[r.list]

UsersTyped ==
  /\ server \in UsersPage!Lists /\ shown \in UsersPage!Lists
  /\ sent \in 0..Sends.users /\ apart \subseteq DOMAIN shown
UsersAgree ==
  /\ \A r \in asked : UserAsks(r)
  /\ Solo /\ FreshLoads
  /\ \A list \in {"users", "links"} \ apart : Settled(list, UserPatches)
UsersWait ==
  /\ view.loading => \E r \in asked : r.op = "load" /\ r.list = "users"
  /\ view.linksLoading => \E r \in asked : r.op = "load" /\ r.list = "links"
UsersInv ==
  /\ view \in UserViews /\ dialog \in Seq(UserDialogs)
  /\ UsersTyped /\ UsersAgree /\ UsersWait

\* Nothing happens to the requests and the lists.
LEMMA UsersIdle ==
  ASSUME UsersInv, UNCHANGED <<server, shown, asked, apart, sent>>,
         view' \in UserViews, dialog' \in Seq(UserDialogs),
         view'.loading = view.loading, view'.linksLoading = view.linksLoading
  PROVE  UsersInv'
<1>1. UsersTyped'
  BY DEF UsersInv, UsersTyped
<1>2. UsersAgree'
  BY DEF UsersInv, UsersAgree, Solo, FreshLoads, Settled
<1>3. UsersWait'
  BY DEF UsersInv, UsersWait
<1> QED BY <1>1, <1>2, <1>3 DEF UsersInv

\* The dialog on top is one of the page's.
LEMMA UsersTop ==
  ASSUME dialog \in Seq(UserDialogs), dialog # Closed
  PROVE  UsersPage!Top \in UserDialogs
<1>1. Len(dialog) \in 1..Len(dialog) /\ UsersPage!Top = dialog[Len(dialog)]
  BY DEF Closed, UsersPage!Top, UsersPage!Closed
<1> QED BY <1>1

LEMMA UsersOn ==
  ASSUME dialog \in Seq(UserDialogs), NEW is, UsersPage!On(is), is # "none"
  PROVE  UsersPage!Top \in UserDialogs /\ UsersPage!Top.is = is
<1>1. dialog # Closed
  BY DEF UsersPage!On, UsersPage!Top, UsersPage!Closed, Closed
<1> QED BY <1>1, UsersTop DEF UsersPage!On

LEMMA UsersLook ==
  ASSUME UsersInv,
         \/ UsersPage!Search \/ UsersPage!CloseDialog \/ UsersPage!ConfirmDelete
         \/ UsersPage!ShowEdit \/ UsersPage!ChooseRole \/ UsersPage!LinkForm
         \/ \E u \in Accounts : UsersPage!OpenDetails(u)
  PROVE  UsersInv'
<1>1. view \in UserViews /\ dialog \in Seq(UserDialogs) /\ shown \in UsersPage!Lists
  BY DEF UsersInv, UsersTyped
<1>2. CASE UsersPage!Search
  <2>1. view' \in UserViews /\ view'.loading = view.loading /\ view'.linksLoading = view.linksLoading
    BY <1>1, <1>2 DEF UsersPage!Search, UserViews
  <2> QED BY <1>1, <1>2, <2>1, UsersIdle DEF UsersPage!Search
<1>3. CASE UsersPage!CloseDialog
  <2>1. dialog' \in Seq(UserDialogs)
    <3>1. Len(dialog) \in Nat /\ dialog' = SubSeq(dialog, 1, Len(dialog) - 1)
      BY <1>1, <1>3 DEF UsersPage!CloseDialog, UsersPage!CloseTop
    <3> QED BY <1>1, <3>1
  <2> QED BY <1>1, <1>3, <2>1, UsersIdle DEF UsersPage!CloseDialog
<1>4. CASE UsersPage!ConfirmDelete
  <2>1. UsersPage!Top \in UserDialogs /\ UsersPage!Top.is = "details"
    BY <1>1, <1>4, UsersOn DEF UsersPage!ConfirmDelete
  <2>2. UsersPage!Dialog("delete", UsersPage!Top.on) \in UserDialogs
    BY <2>1 DEF UserDialogs, UsersPage!Dialog
  <2>3. dialog' \in Seq(UserDialogs)
    BY <1>1, <1>4, <2>2 DEF UsersPage!ConfirmDelete, UsersPage!Over
  <2> QED BY <1>1, <1>4, <2>3, UsersIdle DEF UsersPage!ConfirmDelete
<1>5. CASE UsersPage!ShowEdit
  <2>1. UsersPage!Top \in UserDialogs /\ UsersPage!Top.is = "details"
    BY <1>1, <1>5, UsersOn DEF UsersPage!ShowEdit
  <2>2. [UsersPage!Top EXCEPT !.is = "edit"] \in UserDialogs /\ UsersPage!Top.was \in UsersPage!Roles
    BY <2>1 DEF UserDialogs
  <2>3. dialog' \in Seq(UserDialogs)
    BY <1>1, <1>5, <2>2 DEF UsersPage!ShowEdit, UsersPage!Over
  <2>4. view' \in UserViews /\ view'.loading = view.loading /\ view'.linksLoading = view.linksLoading
    BY <1>1, <1>5, <2>2 DEF UsersPage!ShowEdit, UserViews, UsersPage!Roles
  <2> QED BY <1>1, <1>5, <2>3, <2>4, UsersIdle DEF UsersPage!ShowEdit
<1>6. CASE UsersPage!ChooseRole
  <2>1. view' \in UserViews /\ view'.loading = view.loading /\ view'.linksLoading = view.linksLoading
    BY <1>1, <1>6 DEF UsersPage!ChooseRole, UserViews
  <2> QED BY <1>1, <1>6, <2>1, UsersIdle DEF UsersPage!ChooseRole
<1>7. CASE UsersPage!LinkForm
  <2>1. view' \in UserViews /\ view'.loading = view.loading /\ view'.linksLoading = view.linksLoading
    BY <1>1, <1>7 DEF UsersPage!LinkForm, UserViews
  <2> QED BY <1>1, <1>7, <2>1, UsersIdle DEF UsersPage!LinkForm
<1>8. ASSUME NEW u \in Accounts, UsersPage!OpenDetails(u) PROVE UsersInv'
  <2>1. shown.users[u] \in UsersPage!Roles
    BY <1>1, <1>8 DEF UsersPage!OpenDetails, UsersPage!Rows, UsersPage!Lists
  <2>2. [is |-> "details", on |-> u, was |-> shown.users[u]] \in UserDialogs
    BY <2>1 DEF UserDialogs
  <2>3. dialog' \in Seq(UserDialogs)
    BY <1>1, <1>8, <2>2 DEF UsersPage!OpenDetails, UsersPage!Over
  <2> QED BY <1>1, <1>8, <2>3, UsersIdle DEF UsersPage!OpenDetails
<1> QED BY <1>2, <1>3, <1>4, <1>5, <1>6, <1>7, <1>8

\* One more request.
LEMMA UsersAsk ==
  ASSUME UsersInv, NEW op, NEW list, NEW on, NEW to, NEW saw,
         UsersPage!AskSeeing(op, list, on, to, saw),
         UserAsks(Request(op, list, on, to, saw)),
         op \in UserPatches => saw = shown[list],
         UNCHANGED <<server, shown>>
  PROVE  /\ UsersTyped' /\ UsersAgree' /\ Carries(asked, asked')
         /\ \E r \in asked' : r.op = op /\ r.list = list
<1> DEFINE q == Request(op, list, on, to, saw)
<1>1. /\ asked' = Add(asked, q) /\ sent < Sends.users /\ sent' = sent + 1
      /\ apart' = IF asked = {} THEN apart ELSE DOMAIN shown
  BY DEF UsersPage!AskSeeing, UsersPage!Add, UsersPage!Request, Add, Request
<1>2. q.op = op /\ q.list = list /\ q.saw = saw /\ q.state = "asked" /\ q.on = on
  BY DEF Request
<1>3. \A r \in asked : UserAsks(r) /\ Asks(r)
  BY DEF UsersInv, UsersAgree, UserAsks
<1>4. /\ \A r \in asked' : Asks(r) /\ \E p \in asked \cup {q} : Same(r, p)
      /\ \A p \in asked \cup {q} : \E r \in asked' : Twin(r, p)
      /\ Solo'
      /\ \/ asked = {} /\ apart' = apart /\ \A r \in asked' : Same(r, q)
         \/ Crowded'
  <2> HIDE DEF q
  <2>1. Solo
    BY DEF UsersInv, UsersAgree
  <2> QED BY <1>1, <1>3, <2>1, AskSolo DEF q
<1> HIDE DEF q
<1>5. \A r \in asked' : UserAsks(r)
  <2>1. \A p \in asked \cup {q} : UserAsks(p)
    BY <1>3 DEF q
  <2> QED BY <1>4, <2>1 DEF UserAsks, Same
<1>6. UsersTyped'
  <2>1. Sends.users \in Nat
    BY ClientAssumption DEF ClientAssumption
  <2> QED BY <1>1, <2>1 DEF UsersInv, UsersTyped
<1>7. FreshLoads' /\ \A l \in {"users", "links"} \ apart' : Settled(l, UserPatches)'
  <2>1. CASE Crowded'
    <3>1. DOMAIN shown' = {"users", "links"}
      BY DEF UsersInv, UsersTyped, UsersPage!Lists
    <3> QED BY <2>1, <3>1 DEF Crowded, FreshLoads
  <2>2. CASE asked = {} /\ apart' = apart /\ \A r \in asked' : Same(r, q)
    <3>1. \A r \in asked' : r.op = op /\ r.list = list /\ r.saw = saw /\ r.state = "asked"
      BY <1>2, <2>2 DEF Same
    <3>2. FreshLoads'
      BY <3>1 DEF FreshLoads
    <3>3. ASSUME NEW l \in {"users", "links"} \ apart' PROVE Settled(l, UserPatches)'
      <4>1. shown[l] = server[l]
        BY <2>2, <3>3 DEF UsersInv, UsersAgree, Settled
      <4> QED BY <3>1, <4>1 DEF Settled
    <3> QED BY <3>2, <3>3
  <2> QED BY <1>4, <2>1, <2>2
<1> QED BY <1>2, <1>4, <1>5, <1>6, <1>7 DEF UsersAgree, Carries, Twin

LEMMA UserRequest ==
  ASSUME NEW op \in UserPatches \cup {"load", "reset"}, NEW list \in {"users", "links"},
         NEW on, NEW to, NEW saw,
         op \in {"delete", "update", "reset"} => list = "users" /\ on \in Accounts,
         op \in {"create", "revoke"} => list = "links",
         op = "update" => to \in UsersPage!Roles,
         op = "create" => to = "open",
         op \in {"delete", "revoke"} => to = Gone,
         op \in UserPatches => saw \in UserCopies(list)
  PROVE  UserAsks(Request(op, list, on, to, saw))
<1> DEFINE q == Request(op, list, on, to, saw)
<1>1. Asks(q)
  BY RequestAsks
<1>2. /\ q.op = op /\ q.list = list /\ q.on = on /\ q.to = to /\ q.saw = saw
      /\ q.state = "asked"
  BY DEF Request
<1> HIDE DEF q
<1> QED BY <1>1, <1>2 DEF UserAsks, q

\* A request that changes nothing but the forms and the spinners it leaves alone.
LEMMA UsersSent ==
  ASSUME UsersInv, UsersTyped', UsersAgree', Carries(asked, asked'),
         view' \in UserViews, dialog' \in Seq(UserDialogs),
         view'.loading => view.loading \/ \E r \in asked' : r.op = "load" /\ r.list = "users",
         view'.linksLoading => view.linksLoading \/ \E r \in asked' : r.op = "load" /\ r.list = "links"
  PROVE  UsersInv'
<1>1. UsersWait'
  BY DEF UsersInv, UsersWait, Carries, Twin
<1> QED BY <1>1 DEF UsersInv

LEMMA UsersCopies ==
  ASSUME UsersInv
  PROVE  /\ shown.users \in UserCopies("users") /\ shown.links \in UserCopies("links")
         /\ server.users \in UserCopies("users") /\ server.links \in UserCopies("links")
         /\ view \in UserViews /\ dialog \in Seq(UserDialogs)
  BY DEF UsersInv, UsersTyped, UsersPage!Lists, UserCopies

LEMMA UsersAskPatching ==
  ASSUME UsersInv, NEW op \in UserPatches, NEW list \in {"users", "links"}, NEW on, NEW to,
         UsersPage!AskPatching(op, list, on, to),
         op \in {"delete", "update"} => list = "users" /\ on \in Accounts,
         op \in {"create", "revoke"} => list = "links",
         op = "update" => to \in UsersPage!Roles,
         op = "create" => to = "open",
         op \in {"delete", "revoke"} => to = Gone,
         UNCHANGED <<server, shown, dialog, view>>
  PROVE  UsersInv'
<1>1. shown[list] \in UserCopies(list)
  BY UsersCopies
<1>2. UserAsks(Request(op, list, on, to, shown[list]))
  BY <1>1, UserRequest DEF UserPatches
<1>3. UsersPage!AskSeeing(op, list, on, to, shown[list])
  BY DEF UsersPage!AskPatching
<1>4. UsersTyped' /\ UsersAgree' /\ Carries(asked, asked')
  BY <1>2, <1>3, UsersAsk
<1> QED BY <1>4, UsersSent, UsersCopies

LEMMA UsersAskOther ==
  ASSUME UsersInv, NEW op \in {"load", "reset"}, NEW list \in {"users", "links"}, NEW on,
         UsersPage!Ask(op, list, on, Gone),
         op = "reset" => list = "users" /\ on \in Accounts,
         UNCHANGED <<server, shown>>
  PROVE  /\ UsersTyped' /\ UsersAgree' /\ Carries(asked, asked')
         /\ \E r \in asked' : r.op = op /\ r.list = list
<1>1. UserAsks(Request(op, list, on, Gone, Gone))
  BY UserRequest DEF UserPatches
<1>2. UsersPage!AskSeeing(op, list, on, Gone, Gone)
  BY DEF UsersPage!Ask
<1>3. op \notin UserPatches
  BY DEF UserPatches
<1> QED BY <1>1, <1>2, <1>3, UsersAsk

LEMMA UsersAsks ==
  ASSUME UsersInv,
         \/ UsersPage!LoadUsers \/ UsersPage!DeleteUser \/ UsersPage!UpdateUser
         \/ UsersPage!RequestPasswordReset \/ UsersPage!OpenMagicLinks \/ UsersPage!CreateLink
         \/ \E l \in Links : UsersPage!RevokeLink(l)
  PROVE  UsersInv'
<1>1. view \in UserViews /\ dialog \in Seq(UserDialogs)
  BY UsersCopies
<1>2. CASE UsersPage!LoadUsers
  <2>1. /\ UsersPage!Ask("load", "users", Gone, Gone) /\ UNCHANGED <<server, shown, dialog>>
        /\ view' = [view EXCEPT !.loading = TRUE]
    BY <1>2 DEF UsersPage!LoadUsers, UsersPage!Load
  <2>2. /\ UsersTyped' /\ UsersAgree' /\ Carries(asked, asked')
        /\ \E r \in asked' : r.op = "load" /\ r.list = "users"
    BY <2>1, UsersAskOther
  <2>3. view' \in UserViews /\ view'.linksLoading = view.linksLoading
    BY <1>1, <2>1 DEF UserViews
  <2> QED BY <1>1, <2>1, <2>2, <2>3, UsersSent
<1>3. CASE UsersPage!DeleteUser
  <2>1. UsersPage!Top.on \in Accounts
    BY <1>1, <1>3, UsersOn DEF UsersPage!DeleteUser, UserDialogs
  <2> QED BY <1>3, <2>1, UsersAskPatching DEF UsersPage!DeleteUser, UserPatches
<1>4. CASE UsersPage!UpdateUser
  <2>1. UsersPage!Top.on \in Accounts /\ view.role \in UsersPage!Roles
    BY <1>1, <1>4, UsersOn DEF UsersPage!UpdateUser, UserDialogs, UserViews
  <2> QED BY <1>4, <2>1, UsersAskPatching DEF UsersPage!UpdateUser, UserPatches
<1>5. CASE UsersPage!RequestPasswordReset
  <2>1. UsersPage!Top.on \in Accounts
    BY <1>1, <1>5, UsersOn DEF UsersPage!RequestPasswordReset, UserDialogs
  <2>2. UsersTyped' /\ UsersAgree' /\ Carries(asked, asked')
    BY <1>5, <2>1, UsersAskOther DEF UsersPage!RequestPasswordReset
  <2> QED BY <1>1, <1>5, <2>2, UsersSent DEF UsersPage!RequestPasswordReset
<1>6. CASE UsersPage!OpenMagicLinks
  <2>1. /\ UsersPage!Ask("load", "links", Gone, Gone) /\ UNCHANGED <<server, shown>>
        /\ view' = [view EXCEPT !.linksLoading = TRUE]
        /\ dialog' = IF UsersPage!Top.is = "links" THEN dialog
                     ELSE Append(dialog, [is |-> "links", on |-> Nobody])
    BY <1>6 DEF UsersPage!OpenMagicLinks, UsersPage!Over, UsersPage!Dialog
  <2>2. /\ UsersTyped' /\ UsersAgree' /\ Carries(asked, asked')
        /\ \E r \in asked' : r.op = "load" /\ r.list = "links"
    BY <2>1, UsersAskOther
  <2>3. view' \in UserViews /\ view'.loading = view.loading
    BY <1>1, <2>1 DEF UserViews
  <2>4. [is |-> "links", on |-> Nobody] \in UserDialogs
    BY DEF UserDialogs
  <2>5. dialog' \in Seq(UserDialogs)
    BY <1>1, <2>1, <2>4
  <2> QED BY <2>2, <2>3, <2>5, UsersSent
<1>7. CASE UsersPage!CreateLink
  BY <1>7, UsersAskPatching DEF UsersPage!CreateLink, UserPatches
<1>8. ASSUME NEW l \in Links, UsersPage!RevokeLink(l) PROVE UsersInv'
  BY <1>8, UsersAskPatching DEF UsersPage!RevokeLink, UserPatches
<1> QED BY <1>2, <1>3, <1>4, <1>5, <1>6, <1>7, <1>8

\* An answer is taken, and the list it is about is what the handler makes of it.
LEMMA UsersLand ==
  ASSUME UsersInv, NEW r \in asked, asked' = asked \ {r}, sent' = sent, server' = server,
         DOMAIN shown' = DOMAIN shown,
         apart' = (IF r.op = "load" /\ r.state = "done" /\ r.alone THEN apart \ {r.list} ELSE apart),
         \A l \in {"users", "links"} : l # r.list => shown'[l] = shown[l],
         r.op \in UserPatches /\ r.state = "done" =>
           shown'[r.list] = [r.saw EXCEPT ![r.on] = r.to],
         r.op = "load" /\ r.state = "done" => shown'[r.list] = r.saw,
         r.state # "done" \/ r.op = "reset" => shown'[r.list] = shown[r.list],
         r.state # "asked"
  PROVE  UsersAgree'
<1>1. \A q \in asked : UserAsks(q)
  BY DEF UsersInv, UsersAgree
<1>2. /\ Solo'
      /\ \/ r.alone /\ asked' = {}
         \/ ~r.alone /\ apart' = apart /\ Crowded'
  <2>1. apart' = apart \/ (r.alone /\ apart' = apart \ {r.list})
    OBVIOUS
  <2> QED BY <2>1, LandSolo DEF UsersInv, UsersAgree
<1>3. FreshLoads' /\ \A l \in {"users", "links"} \ apart' : Settled(l, UserPatches)'
  <2>1. CASE Crowded'
    <3>1. DOMAIN shown' = {"users", "links"}
      BY DEF UsersInv, UsersTyped, UsersPage!Lists
    <3> QED BY <2>1, <3>1 DEF Crowded, FreshLoads
  <2>2. CASE r.alone /\ asked' = {}
    <3>1. asked = {r}
      BY <2>2
    <3>2. r.op \in UserPatches \cup {"load", "reset"} /\ r.list \in {"users", "links"}
      BY <1>1 DEF UserAsks
    <3>3. r.op = "load" /\ r.state = "done" => r.saw = server[r.list]
      BY <2>2 DEF UsersInv, UsersAgree, FreshLoads
    <3>4. ASSUME NEW l \in {"users", "links"} \ apart' PROVE shown'[l] = server'[l]
      <4>1. CASE l \in apart
        BY <3>3, <3>4, <4>1
      <4>2. CASE l \notin apart
        <5>1. Settled(l, UserPatches)
          BY <3>4, <4>2 DEF UsersInv, UsersAgree
        <5>2. CASE l = r.list /\ r.op \in UserPatches /\ r.state = "done"
          BY <5>1, <5>2 DEF Settled
        <5>3. CASE l = r.list /\ r.op = "load" /\ r.state = "done"
          BY <3>3, <5>3
        <5>4. CASE l # r.list \/ r.state # "done" \/ r.op = "reset"
          <6>1. shown[l] = server[l]
            BY <3>1, <5>1, <5>4 DEF Settled, UserPatches
          <6> QED BY <3>4, <5>4, <6>1
        <5> QED BY <3>2, <5>2, <5>3, <5>4
      <4> QED BY <4>1, <4>2
    <3> QED BY <2>2, <3>4 DEF FreshLoads, Settled
  <2> QED BY <1>2, <2>1, <2>2
<1> QED BY <1>1, <1>2, <1>3 DEF UsersAgree

\* The rest is where it was, but for the spinner that the answer ends.
LEMMA UsersLanded ==
  ASSUME UsersInv, NEW r \in asked, asked' = asked \ {r}, sent' = sent, server' = server,
         apart' \subseteq apart, UsersAgree',
         shown' \in UsersPage!Lists, view' \in UserViews, dialog' \in Seq(UserDialogs),
         view'.loading => view.loading /\ (r.op # "load" \/ r.list # "users"),
         view'.linksLoading => view.linksLoading /\ (r.op # "load" \/ r.list # "links")
  PROVE  UsersInv'
<1>1. UsersTyped'
  BY DEF UsersInv, UsersTyped, UsersPage!Lists
<1>2. UsersWait'
  BY DEF UsersInv, UsersWait
<1> QED BY <1>1, <1>2 DEF UsersInv

LEMMA UsersLoadedKeeps ==
  ASSUME UsersInv, NEW list \in {"users", "links"}, NEW spinner,
         \/ list = "users" /\ spinner = "loading"
         \/ list = "links" /\ spinner = "linksLoading",
         UsersPage!Loaded(list, spinner)
  PROVE  UsersInv'
<1>1. PICK r \in asked :
        /\ r.op = "load" /\ r.state \in {"done", "refused"} /\ r.list = list
        /\ shown' = IF r.state = "done" THEN [shown EXCEPT ![list] = r.saw] ELSE shown
        /\ asked' = asked \ {r} /\ sent' = sent
        /\ apart' = IF r.op = "load" /\ r.state = "done" /\ r.alone THEN apart \ {r.list} ELSE apart
        /\ view' = [view EXCEPT ![spinner] = FALSE]
        /\ UNCHANGED <<server, dialog>>
  BY DEF UsersPage!Loaded, UsersPage!Answers, UsersPage!Land
<1>2. /\ shown \in UsersPage!Lists /\ view \in UserViews /\ dialog \in Seq(UserDialogs)
      /\ DOMAIN shown = {"users", "links"}
  BY DEF UsersInv, UsersTyped, UsersPage!Lists
<1>3. UserAsks(r)
  BY DEF UsersInv, UsersAgree
<1>4. r.state = "done" => r.saw \in UserCopies(list)
  BY <1>1, <1>3 DEF UserAsks
<1>5. shown' \in UsersPage!Lists
  BY <1>1, <1>2, <1>4 DEF UsersPage!Lists, UserCopies
<1>6. UsersAgree'
  <2>1. DOMAIN shown' = DOMAIN shown
    BY <1>2, <1>5 DEF UsersPage!Lists
  <2>2. \A l \in {"users", "links"} : l # r.list => shown'[l] = shown[l]
    BY <1>1, <1>2
  <2>3. r.state = "done" => shown'[r.list] = r.saw
    BY <1>1, <1>2
  <2>4. r.op \notin UserPatches
    BY <1>1 DEF UserPatches
  <2> QED BY <1>1, <2>1, <2>2, <2>3, <2>4, UsersLand
<1>7. /\ view' \in UserViews
      /\ view'.loading => view.loading /\ list # "users"
      /\ view'.linksLoading => view.linksLoading /\ list # "links"
  BY <1>1, <1>2 DEF UserViews
<1> QED BY <1>1, <1>2, <1>5, <1>6, <1>7, UsersLanded

\* The handlers that patch the list they closed over.
LEMMA UsersPatched ==
  ASSUME UsersInv, NEW r \in asked, r.op \in UserPatches, r.state = "done",
         NEW to, to = r.to,
         shown' = IF r.list = "users" THEN [shown EXCEPT !.users = [r.saw EXCEPT ![r.on] = to]]
                  ELSE [shown EXCEPT !.links = [r.saw EXCEPT ![r.on] = to]],
         UsersPage!Land(r), server' = server,
         view' \in UserViews, dialog' \in Seq(UserDialogs),
         view'.loading = view.loading, view'.linksLoading = view.linksLoading
  PROVE  UsersInv'
<1>1. UserAsks(r) /\ shown \in UsersPage!Lists /\ DOMAIN shown = {"users", "links"}
  BY DEF UsersInv, UsersAgree, UsersTyped, UsersPage!Lists
<1>2. asked' = asked \ {r} /\ sent' = sent /\ apart' = apart /\ r.op # "load"
  BY DEF UsersPage!Land, UserPatches
<1>3. /\ r.saw \in UserCopies(r.list) /\ r.list \in {"users", "links"}
      /\ r.list = "users" => to \in UsersPage!Roles \cup {Gone}
      /\ r.list = "links" => to \in {Gone, "open", "used"}
  BY <1>1 DEF UserAsks, UserPatches
<1>4. /\ shown' \in UsersPage!Lists /\ shown'[r.list] = [r.saw EXCEPT ![r.on] = to]
      /\ \A l \in {"users", "links"} : l # r.list => shown'[l] = shown[l]
  BY <1>1, <1>3 DEF UsersPage!Lists, UserCopies
<1>5. DOMAIN shown' = DOMAIN shown
  BY <1>1, <1>4 DEF UsersPage!Lists
<1>6. UsersAgree'
  BY <1>2, <1>4, <1>5, UsersLand DEF UserPatches
<1> QED BY <1>2, <1>4, <1>6, UsersLanded

\* An answer that changes no list.
LEMMA UsersNoted ==
  ASSUME UsersInv, NEW r \in asked, r.op # "load",
         \/ r.state = "refused"
         \/ r.op = "reset" /\ r.state = "done",
         UsersPage!Land(r), UNCHANGED <<server, shown, dialog>>,
         view' \in UserViews,
         view'.loading = view.loading, view'.linksLoading = view.linksLoading
  PROVE  UsersInv'
<1>1. asked' = asked \ {r} /\ sent' = sent /\ apart' = apart
  BY DEF UsersPage!Land
<1>2. "reset" \notin UserPatches
  BY DEF UserPatches
<1>3. UsersAgree'
  BY <1>1, <1>2, UsersLand
<1>4. shown \in UsersPage!Lists /\ dialog \in Seq(UserDialogs)
  BY DEF UsersInv, UsersTyped
<1> QED BY <1>1, <1>3, <1>4, UsersLanded

LEMMA UsersLands ==
  ASSUME UsersInv,
         \/ UsersPage!UsersLoaded \/ UsersPage!LinksLoaded \/ UsersPage!UserDeleted
         \/ UsersPage!UserUpdated \/ UsersPage!LinkCreated \/ UsersPage!LinkRevoked
         \/ UsersPage!ResetLinkShown
         \/ UsersPage!Refused({"delete", "update", "reset", "create", "revoke"})
  PROVE  UsersInv'
<1>1. /\ view \in UserViews /\ dialog \in Seq(UserDialogs)
      /\ \A r \in asked : UserAsks(r)
  BY DEF UsersInv, UsersAgree
<1>2. \A kinds : UsersPage!Without(kinds) \in Seq(UserDialogs)
  <2>1. \A kinds : Without(kinds) \in Seq(UserDialogs)
    BY <1>1, WithoutTakes
  <2>2. \A kinds : UsersPage!Without(kinds) = Without(kinds)
    BY DEF UsersPage!Without, UsersPage!Only, UsersPage!Cardinality, Without, Only, Cardinality
  <2> QED BY <2>1, <2>2
<1>3. CASE UsersPage!UsersLoaded
  BY <1>3, UsersLoadedKeeps DEF UsersPage!UsersLoaded
<1>4. CASE UsersPage!LinksLoaded
  BY <1>4, UsersLoadedKeeps DEF UsersPage!LinksLoaded
<1>5. CASE UsersPage!UserDeleted
  <2>1. PICK r \in asked :
          /\ r.op = "delete" /\ r.state = "done"
          /\ shown' = [shown EXCEPT !.users = [r.saw EXCEPT ![r.on] = Gone]]
          /\ UsersPage!Land(r)
    BY <1>5 DEF UsersPage!UserDeleted, UsersPage!Answers
  <2>2. r.list = "users" /\ r.to = Gone
    BY <1>1, <2>1 DEF UserAsks
  <2> QED BY <1>1, <1>2, <1>5, <2>1, <2>2, UsersPatched DEF UsersPage!UserDeleted, UserPatches
<1>6. CASE UsersPage!UserUpdated
  <2>1. PICK r \in asked :
          /\ r.op = "update" /\ r.state = "done"
          /\ shown' = [shown EXCEPT !.users = [r.saw EXCEPT ![r.on] = r.to]]
          /\ UsersPage!Land(r)
    BY <1>6 DEF UsersPage!UserUpdated, UsersPage!Answers
  <2>2. r.list = "users"
    BY <1>1, <2>1 DEF UserAsks
  <2> QED BY <1>1, <1>2, <1>6, <2>1, <2>2, UsersPatched DEF UsersPage!UserUpdated, UserPatches
<1>7. CASE UsersPage!LinkCreated
  <2>1. PICK r \in asked :
          /\ r.op = "create" /\ r.state = "done"
          /\ shown' = [shown EXCEPT !.links = [r.saw EXCEPT ![r.on] = "open"]]
          /\ UsersPage!Land(r)
    BY <1>7 DEF UsersPage!LinkCreated, UsersPage!Answers
  <2>2. r.list = "links" /\ r.to = "open"
    BY <1>1, <2>1 DEF UserAsks
  <2>3. view' \in UserViews /\ view'.loading = view.loading /\ view'.linksLoading = view.linksLoading
    BY <1>1, <1>7 DEF UsersPage!LinkCreated, UserViews
  <2> QED BY <1>1, <1>7, <2>1, <2>2, <2>3, UsersPatched DEF UsersPage!LinkCreated, UserPatches
<1>8. CASE UsersPage!LinkRevoked
  <2>1. PICK r \in asked :
          /\ r.op = "revoke" /\ r.state = "done"
          /\ shown' = [shown EXCEPT !.links = [r.saw EXCEPT ![r.on] = Gone]]
          /\ UsersPage!Land(r)
    BY <1>8 DEF UsersPage!LinkRevoked, UsersPage!Answers
  <2>2. r.list = "links" /\ r.to = Gone
    BY <1>1, <2>1 DEF UserAsks
  <2> QED BY <1>1, <1>8, <2>1, <2>2, UsersPatched DEF UsersPage!LinkRevoked, UserPatches
<1>9. CASE UsersPage!ResetLinkShown
  <2>1. PICK r \in asked :
          /\ r.op = "reset" /\ r.state = "done"
          /\ view' = [view EXCEPT !.link = r.on] /\ UsersPage!Land(r)
    BY <1>9 DEF UsersPage!ResetLinkShown, UsersPage!Answers
  <2>2. view' \in UserViews /\ view'.loading = view.loading /\ view'.linksLoading = view.linksLoading
    BY <1>1, <2>1 DEF UserViews, UserAsks
  <2> QED BY <1>9, <2>1, <2>2, UsersNoted DEF UsersPage!ResetLinkShown
<1>10. CASE UsersPage!Refused({"delete", "update", "reset", "create", "revoke"})
  <2>1. PICK r \in asked :
          /\ r.op \in {"delete", "update", "reset", "create", "revoke"} /\ r.state = "refused"
          /\ UsersPage!Land(r)
    BY <1>10 DEF UsersPage!Refused
  <2> QED BY <1>1, <1>10, <2>1, UsersNoted DEF UsersPage!Refused
<1> QED BY <1>3, <1>4, <1>5, <1>6, <1>7, <1>8, <1>9, <1>10

LEMMA UsersServed ==
  ASSUME UsersInv, UsersPage!Serve(UsersPage!Effect, UsersPage!Accepts)
  PROVE  UsersInv'
<1>1. PICK r \in asked :
        /\ r.state = "asked"
        /\ \/ /\ UsersPage!Accepts(r)
              /\ server' = UsersPage!Effect(r)
              /\ asked' = (asked \ {r}) \cup {Answer(r)}
              /\ apart' = apart
           \/ /\ asked' = (asked \ {r}) \cup {Refusal(r)}
              /\ server' = server /\ apart' = apart
           \/ /\ UsersPage!Accepts(r)
              /\ server' = UsersPage!Effect(r)
              /\ asked' = (asked \ {r}) \cup {Refusal(r)}
              /\ apart' = DOMAIN shown
  BY DEF UsersPage!Serve, UsersPage!Answer, UsersPage!Refusal, UsersPage!Brings, Answer, Refusal, Brings
<1>2. UNCHANGED <<shown, dialog, view, sent>>
  BY DEF UsersPage!Serve
<1>3. /\ UserAsks(r) /\ Asks(r) /\ \A q \in asked : UserAsks(q)
      /\ server \in UsersPage!Lists /\ shown \in UsersPage!Lists
      /\ DOMAIN shown = {"users", "links"} /\ DOMAIN server = {"users", "links"}
  BY DEF UsersInv, UsersAgree, UsersTyped, UserAsks, UsersPage!Lists
<1>4. PICK s :
        /\ asked' = (asked \ {r}) \cup {s}
        /\ Asks(s) /\ Twin(s, r) /\ s.alone = r.alone
        /\ \/ /\ s.state = "done" /\ UsersPage!Accepts(r) /\ server' = UsersPage!Effect(r)
              /\ apart' = apart
              /\ s.saw = IF r.op \in Brings THEN server'[r.list] ELSE r.saw
           \/ /\ s.state = "refused" /\ s.saw = Gone
              /\ \/ server' = server /\ apart' = apart
                 \/ /\ UsersPage!Accepts(r) /\ server' = UsersPage!Effect(r)
                    /\ apart' = DOMAIN shown
  <2> DEFINE accepts == UsersPage!Accepts(r)
             effect == UsersPage!Effect(r)
  <2>1. \/ accepts /\ server' = effect /\ asked' = (asked \ {r}) \cup {Answer(r)} /\ apart' = apart
        \/ asked' = (asked \ {r}) \cup {Refusal(r)} /\ server' = server /\ apart' = apart
        \/ /\ accepts /\ server' = effect /\ asked' = (asked \ {r}) \cup {Refusal(r)}
           /\ apart' = DOMAIN shown
    BY <1>1
  <2> HIDE DEF accepts, effect
  <2> QED BY <1>3, <2>1, Answering DEF accepts, effect
<1>5. server' = server \/ server' = UsersPage!Effect(r)
  BY <1>1
<1>6. /\ Asks(s) /\ Twin(s, r) /\ s.alone = r.alone
      /\ \/ /\ s.state = "done" /\ server' = UsersPage!Effect(r)
            /\ s.saw = IF r.op \in Brings THEN server'[r.list] ELSE r.saw
         \/ s.state = "refused" /\ (server' = server \/ apart' = DOMAIN shown)
  BY <1>4
<1>7. /\ server' \in UsersPage!Lists
      /\ \A list \in {"users", "links"} : server'[list] \in UserCopies(list)
      /\ \A list \in {"users", "links"} : server'[list] =
           IF server' = server \/ r.op \in {"load", "reset"} \/ r.list # list THEN server[list]
           ELSE [server[list] EXCEPT ![r.on] = r.to]
  <2>1. CASE server' = server
    BY <1>3, <2>1 DEF UsersPage!Lists, UserCopies
  <2>2. CASE server' = UsersPage!Effect(r) /\ r.op \in {"load", "reset"}
    BY <1>3, <2>2 DEF UsersPage!Lists, UserCopies, UsersPage!Effect
  <2>3. CASE server' = UsersPage!Effect(r) /\ r.op \notin {"load", "reset"}
    <3>1. /\ r.list \in {"users", "links"}
          /\ r.list = "users" => r.to \in UsersPage!Roles \cup {Gone}
          /\ r.list = "links" => r.to \in {Gone, "open", "used"}
      BY <1>3, <2>3 DEF UserAsks, UserPatches
    <3>2. server' = [server EXCEPT ![r.list][r.on] = r.to]
      BY <2>3 DEF UsersPage!Effect
    <3>3. /\ server' = [server EXCEPT ![r.list] = [server[r.list] EXCEPT ![r.on] = r.to]]
          /\ server'[r.list] = [server[r.list] EXCEPT ![r.on] = r.to]
          /\ \A list \in {"users", "links"} : list # r.list => server'[list] = server[list]
      BY <1>3, <3>1, <3>2
    <3>4. server'[r.list] \in UserCopies(r.list)
      BY <1>3, <3>1, <3>3 DEF UserCopies, UsersPage!Lists
    <3>5. server' \in UsersPage!Lists
      BY <1>3, <3>1, <3>3, <3>4 DEF UserCopies, UsersPage!Lists
    <3>6. server' = server => server[r.list] = [server[r.list] EXCEPT ![r.on] = r.to]
      BY <3>3
    <3> QED BY <2>3, <3>3, <3>5, <3>6 DEF UserCopies, UsersPage!Lists
  <2> QED BY <1>5, <2>1, <2>2, <2>3
<1>8. Solo' /\ ((r.alone /\ asked = {r} /\ asked' = {s}) \/ Crowded')
  <2>1. Solo /\ DOMAIN shown' = DOMAIN shown /\ (apart' = apart \/ apart' = DOMAIN shown)
    BY <1>2, <1>4 DEF UsersInv, UsersAgree
  <2> QED BY <1>4, <1>6, <2>1, ServeSolo
<1>9. \A q \in asked' : UserAsks(q)
  <2>1. r.op \in Brings => r.op = "load"
    BY <1>3 DEF UserAsks, Brings, UserPatches
  <2>2. s.op = "load" /\ s.state = "done" => s.saw \in UserCopies(s.list)
    BY <1>3, <1>6, <1>7 DEF Twin, UserAsks, Brings
  <2>3. s.op \in UserPatches /\ s.state # "refused" => s.saw \in UserCopies(s.list)
    BY <1>1, <1>3, <1>6, <2>1 DEF Twin, UserAsks, UserPatches
  <2>4. UserAsks(s)
    BY <1>3, <1>6, <2>2, <2>3 DEF Twin, UserAsks
  <2> QED BY <1>3, <1>4, <2>4
<1>10. FreshLoads' /\ \A l \in {"users", "links"} \ apart' : Settled(l, UserPatches)'
  <2>1. CASE Crowded'
    BY <1>2, <1>3, <2>1 DEF Crowded, FreshLoads
  <2>2. CASE r.alone /\ asked = {r} /\ asked' = {s}
    <3>1. FreshLoads'
      BY <1>6, <2>2 DEF FreshLoads, Twin, Brings
    <3>2. ASSUME NEW l \in {"users", "links"} \ apart' PROVE Settled(l, UserPatches)'
      <4>1. /\ l \notin apart /\ apart' = apart
            /\ shown'[l] = shown[l] /\ shown[l] = server[l]
            /\ r.op \in UserPatches /\ r.list = l => r.saw = shown[l]
        BY <1>1, <1>2, <1>3, <1>4, <2>2, <3>2 DEF UsersInv, UsersAgree, Settled
      <4>2. /\ s.op = r.op /\ s.list = r.list /\ s.on = r.on /\ s.to = r.to
            /\ s.op \in UserPatches => s.op \notin Brings
        BY <1>6 DEF Twin, Brings, UserPatches
      <4>3. s.op \in UserPatches /\ s.list = l /\ s.state # "refused" => s.saw = shown'[l]
        BY <1>6, <4>1, <4>2
      <4>4. s.op \in UserPatches /\ s.list = l /\ s.state = "done" =>
              server'[l] = [shown'[l] EXCEPT ![s.on] = s.to]
        <5>1. ASSUME s.op \in UserPatches, s.list = l, s.state = "done"
              PROVE  server'[l] = [shown'[l] EXCEPT ![s.on] = s.to]
          <6>1. server' = UsersPage!Effect(r) /\ r.op \notin {"load", "reset"}
            BY <1>6, <4>2, <5>1 DEF UserPatches
          <6>2. server' = [server EXCEPT ![r.list][r.on] = r.to]
            BY <6>1 DEF UsersPage!Effect
          <6>3. server'[l] = [server[l] EXCEPT ![r.on] = r.to]
            BY <1>3, <4>2, <5>1, <6>2
          <6> QED BY <4>1, <4>2, <6>3
        <5> QED BY <5>1
      <4>5. ~(s.op \in UserPatches /\ s.list = l /\ s.state = "done") => shown'[l] = server'[l]
        <5>1. CASE s.state = "done"
          <6>1. r.op \in {"load", "reset"} \/ r.list # l => server'[l] = server[l]
            BY <1>7, <3>2
          <6> QED BY <1>3, <4>1, <4>2, <5>1, <6>1 DEF UserAsks
        <5>2. CASE s.state = "refused"
          <6>1. server' = server \/ apart' = DOMAIN shown
            BY <1>6, <5>2
          <6> QED BY <1>3, <3>2, <4>1, <6>1
        <5> QED BY <1>6, <5>1, <5>2
      <4> QED BY <2>2, <4>3, <4>4, <4>5 DEF Settled
    <3> QED BY <3>1, <3>2
  <2> QED BY <1>8, <2>1, <2>2
<1>11. UsersWait'
  BY <1>2, <1>4, <1>6 DEF UsersInv, UsersWait, Twin
<1>12. UsersTyped'
  BY <1>2, <1>4, <1>7 DEF UsersInv, UsersTyped
<1> QED BY <1>2, <1>8, <1>9, <1>10, <1>11, <1>12 DEF UsersInv, UsersAgree

LEMMA UsersStart == ASSUME UsersPage!Init PROVE UsersInv
<1> DEFINE q == Request("load", "users", Gone, Gone, Gone)
<1>1. /\ asked = {q} /\ dialog = <<>> /\ apart = DOMAIN shown /\ sent = 0
      /\ view = [loading |-> TRUE, linksLoading |-> FALSE, found |-> Accounts, role |-> "user",
                 linkForm |-> FALSE, link |-> Nobody]
      /\ shown = [users |-> [u \in Accounts |-> Gone], links |-> [l \in Links |-> Gone]]
  BY DEF UsersPage!Init, UsersPage!Mounted, UsersPage!Request, UsersPage!Closed, Request
<1>2. /\ server \in [users : {[u \in Accounts |-> IF u \in Admins THEN "admin" ELSE "user"]},
                     links : [Links -> {Gone, "used"}]]
  BY DEF UsersPage!Init
<1>3. UserAsks(q) /\ q.op = "load" /\ q.list = "users" /\ q.state = "asked"
  BY UserRequest DEF Request, UserPatches
<1> HIDE DEF q
<1>4. view \in UserViews /\ dialog \in Seq(UserDialogs)
  BY <1>1 DEF UserViews, UsersPage!Roles
<1>5. server \in UsersPage!Lists
  <2>1. [u \in Accounts |-> IF u \in Admins THEN "admin" ELSE "user"] \in [Accounts -> UsersPage!Roles \cup {Gone}]
    BY DEF UsersPage!Roles
  <2> QED BY <1>2, <2>1 DEF UsersPage!Lists
<1>6. shown \in UsersPage!Lists
  BY <1>1 DEF UsersPage!Lists
<1>7. DOMAIN shown = {"users", "links"}
  BY <1>6 DEF UsersPage!Lists
<1>8. UsersTyped
  BY <1>1, <1>5, <1>6, ClientAssumption DEF UsersTyped, ClientAssumption
<1>9. UsersAgree
  BY <1>1, <1>3, <1>7 DEF UsersAgree, Solo, FreshLoads
<1>10. UsersWait
  BY <1>1, <1>3 DEF UsersWait
<1> QED BY <1>4, <1>8, <1>9, <1>10 DEF UsersInv

LEMMA UsersStep == ASSUME UsersInv, [UsersPage!Next]_pageVars PROVE UsersInv'
<1>1. CASE UNCHANGED pageVars
  <2>1. UNCHANGED <<server, shown, asked, apart, sent, dialog, view>>
    BY <1>1 DEF pageVars
  <2> QED BY <2>1, UsersIdle, UsersCopies
<1>2. CASE UsersPage!Next
  BY <1>2, UsersLook, UsersAsks, UsersLands, UsersServed DEF UsersPage!Next
<1> QED BY <1>1, <1>2

UsersHold == page = "users" => UsersInv

LEMMA UsersAlways == Spec => []UsersHold
<1>1. Init => UsersHold
  BY UsersStart DEF Init, UsersHold
<1>2. ASSUME UsersHold, [Next]_vars PROVE UsersHold'
  <2>1. page' = page /\ (page = "users" => [UsersPage!Next]_pageVars)
    BY <1>2 DEF Next, vars
  <2> QED BY <1>2, <2>1, UsersStep DEF UsersHold
<1> QED BY <1>1, <1>2, PTL DEF Spec

\* One more request: the others wait on, and it is there too.
LEMMA AskJoins ==
  ASSUME \A r \in asked : Asks(r), NEW op, NEW list, NEW on, NEW to, NEW saw,
         asked' = Add(asked, Request(op, list, on, to, saw))
  PROVE  /\ \A r \in asked' :
              /\ Asks(r)
              /\ \/ \E p \in asked : Same(r, p)
                 \/ /\ r.op = op /\ r.list = list /\ r.on = on /\ r.to = to
                    /\ r.state = "asked" /\ r.heard /\ r.saw = saw
         /\ Carries(asked, asked')
         /\ \E r \in asked' : r.op = op /\ r.list = list /\ r.on = on /\ r.to = to /\ r.heard
<1> DEFINE q == Request(op, list, on, to, saw)
<1>1. /\ Asks(q) /\ q.op = op /\ q.list = list /\ q.on = on /\ q.to = to /\ q.state = "asked"
      /\ q.heard /\ q.saw = saw
  BY RequestAsks DEF Request
<1> HIDE DEF q
<1>3. /\ \A r \in asked' : Asks(r) /\ \E p \in asked \cup {q} : Same(r, p)
      /\ \A p \in asked \cup {q} : \E r \in asked' : Same(r, p)
  <2> DEFINE after == Add(asked, q)
  <2>1. /\ \A r \in after : /\ Asks(r)
                            /\ \/ ~r.alone /\ \E p \in asked : Same(r, p)
                               \/ r.alone = (asked = {}) /\ Same(r, q)
        /\ \A p \in asked \cup {q} : \E r \in after : Same(r, p)
        /\ asked = {} => \E r : after = {r}
    BY <1>1, AddAsks
  <2>2. asked' = after
    BY DEF q
  <2> HIDE DEF after
  <2> QED BY <2>1, <2>2
<1>4. \A r \in asked' : /\ Asks(r)
                        /\ \/ \E p \in asked : Same(r, p)
                           \/ /\ r.op = op /\ r.list = list /\ r.on = on /\ r.to = to
                              /\ r.state = "asked" /\ r.heard /\ r.saw = saw
  BY <1>1, <1>3 DEF Same
<1>5. Carries(asked, asked')
  BY <1>3 DEF Same, Twin, Carries
<1>6. \E r \in asked' : r.op = op /\ r.list = list /\ r.on = on /\ r.to = to /\ r.heard
  BY <1>1, <1>3 DEF Same
<1> QED BY <1>4, <1>5, <1>6

LEMMA AsksOK ==
  ASSUME \A r \in asked : Asks(r)
  PROVE  \A r \in asked : /\ r.state \in {"asked", "done", "refused"}
                          /\ r.alone \in BOOLEAN /\ r.heard \in BOOLEAN
  BY DEF Asks

-----------------------------------------------------------------------------
(* The rest of Torrents.tsx: its types, its dialogs and its spinners. *)

RowLists == [Hosted -> TorrentsPage!States \cup {Gone}]
RowAsks(r) ==
  /\ Asks(r)
  /\ r.op \in Changes => r.to = "changed"
  /\ r.op = "load" => r.list = "workers"
  /\ r.op = "load" /\ r.state = "done" => r.saw = "listed"
RowDialogs ==
  [is : {"details", "limits", "delete"},
   on : Hosted \cup (SUBSET Hosted)
          \cup (SUBSET ({TorrentsPage!Worker(t) : t \in Hosted} \X TorrentsPage!Ids))]
RowViews ==
  [loading : BOOLEAN, fed : BOOLEAN, selecting : BOOLEAN, selected : SUBSET TorrentsPage!Ids,
   refreshing : BOOLEAN]
ListTyped ==
  /\ server \in [torrents : RowLists, workers : {"listed"}]
  /\ shown \in [torrents : RowLists, workers : {"listed", Gone}]
  /\ view \in RowViews /\ dialog \in Seq(RowDialogs)
  /\ apart \subseteq {"torrents", "workers"} /\ sent \in 0..Sends.torrents
ListWaits ==
  /\ view.loading => \E r \in asked : r.op = "load"
  /\ view.refreshing => \E r \in asked : r.op = "deletions"
ListInv == ListTyped /\ ListWaits /\ \A r \in asked : RowAsks(r)

\* Requests go on waiting.
LEMMA ListWaitsOn ==
  ASSUME ListInv, Carries(asked, asked'), view' = view
  PROVE  ListWaits'
  BY DEF ListInv, ListWaits, Carries, Twin

LEMMA ListLook ==
  ASSUME ListInv,
         \/ TorrentsPage!Snapshot \/ TorrentsPage!ToggleSelectAll \/ TorrentsPage!CloseDialog
         \/ TorrentsPage!DeleteSelected
         \/ \E id \in TorrentsPage!Ids : TorrentsPage!ToggleSelect(id) \/ TorrentsPage!ShowDetails(id)
         \/ \E t \in Hosted : TorrentsPage!ShowLimits(t) \/ TorrentsPage!DeleteRow(t)
  PROVE  ListInv'
<1>1. UNCHANGED <<server, asked, apart, sent>>
  BY DEF TorrentsPage!Snapshot, TorrentsPage!ToggleSelectAll, TorrentsPage!CloseDialog, TorrentsPage!DeleteSelected,
         TorrentsPage!ToggleSelect, TorrentsPage!ShowDetails, TorrentsPage!ShowLimits,
         TorrentsPage!DeleteRow, TorrentsPage!OpenDelete
<1>2. /\ view \in RowViews /\ dialog \in Seq(RowDialogs) /\ shown \in [torrents : RowLists, workers : {"listed", Gone}]
      /\ server \in [torrents : RowLists, workers : {"listed"}]
  BY DEF ListInv, ListTyped
<1>3. TorrentsPage!Rows \subseteq Hosted /\ \A t \in Hosted : TorrentsPage!Id(t) \in TorrentsPage!Ids
  BY DEF TorrentsPage!Rows, TorrentsPage!Ids
<1>4. ASSUME shown' \in [torrents : RowLists, workers : {"listed", Gone}], view' \in RowViews,
             dialog' \in Seq(RowDialogs), view'.loading = view.loading, view'.refreshing = view.refreshing
      PROVE  ListInv'
  BY <1>1, <1>4 DEF ListInv, ListTyped, ListWaits
<1>5. CASE TorrentsPage!Snapshot
  <2>1. /\ shown' = [shown EXCEPT !.torrents = server.torrents] /\ dialog' = dialog
        /\ view' = [view EXCEPT !.fed = TRUE]
    BY <1>5 DEF TorrentsPage!Snapshot
  <2>2. view' \in RowViews /\ view'.loading = view.loading /\ view'.refreshing = view.refreshing
    BY <1>2, <2>1 DEF RowViews
  <2> QED BY <1>2, <1>4, <2>1, <2>2
<1>6. ASSUME NEW picked \in SUBSET TorrentsPage!Ids, NEW selecting \in BOOLEAN, UNCHANGED <<shown, dialog>>,
             \/ view' = [view EXCEPT !.selecting = selecting, !.selected = picked]
             \/ view' = [view EXCEPT !.selected = picked]
      PROVE  ListInv'
  <2>1. view' \in RowViews /\ view'.loading = view.loading /\ view'.refreshing = view.refreshing
    BY <1>2, <1>6 DEF RowViews
  <2> QED BY <1>2, <1>4, <1>6, <2>1
<1>7. CASE TorrentsPage!ToggleSelectAll
  <2> DEFINE seen == {TorrentsPage!Id(t) : t \in TorrentsPage!Rows}
  <2>1. seen \in SUBSET TorrentsPage!Ids
    BY <1>3
  <2>2. UNCHANGED <<shown, dialog>>
    BY <1>7 DEF TorrentsPage!ToggleSelectAll
  <2> DEFINE yes == TRUE
             no == FALSE
             none == {}
  <2>3. \/ view' = [view EXCEPT !.selecting = yes, !.selected = none]
        \/ view' = [view EXCEPT !.selected = seen]
        \/ view' = [view EXCEPT !.selecting = no, !.selected = none]
    BY <1>7 DEF TorrentsPage!ToggleSelectAll
  <2>4. yes \in BOOLEAN /\ no \in BOOLEAN /\ none \in SUBSET TorrentsPage!Ids
    OBVIOUS
  <2> HIDE DEF seen, yes, no, none
  <2> QED BY <1>6, <2>1, <2>2, <2>3, <2>4
<1>8. ASSUME NEW id \in TorrentsPage!Ids, TorrentsPage!ToggleSelect(id) PROVE ListInv'
  <2>1. UNCHANGED <<shown, dialog>>
    BY <1>8 DEF TorrentsPage!ToggleSelect
  <2> DEFINE picked == IF id \in view.selected THEN view.selected \ {id} ELSE view.selected \cup {id}
  <2>2. view' = [view EXCEPT !.selected = picked]
    BY <1>8 DEF TorrentsPage!ToggleSelect
  <2>3. picked \in SUBSET TorrentsPage!Ids
    BY <1>2 DEF RowViews
  <2> HIDE DEF picked
  <2> QED BY <1>6, <2>1, <2>2, <2>3
\* A dialog is opened on a torrent, or on several.
<1>9. ASSUME NEW d \in RowDialogs, dialog' = Append(dialog, d), UNCHANGED <<shown, view>> PROVE ListInv'
  <2>1. dialog' \in Seq(RowDialogs)
    BY <1>2, <1>9
  <2> QED BY <1>2, <1>4, <1>9, <2>1
<1>10. ASSUME NEW id, TorrentsPage!ShowDetails(id) PROVE ListInv'
  <2>1. PICK t \in TorrentsPage!Find(id) : dialog' = Append(dialog, [is |-> "details", on |-> t])
    BY <1>10 DEF TorrentsPage!ShowDetails, TorrentsPage!Over, TorrentsPage!Dialog
  <2>2. [is |-> "details", on |-> t] \in RowDialogs
    BY <1>3 DEF TorrentsPage!Find, RowDialogs
  <2>3. UNCHANGED <<shown, view>>
    BY <1>10 DEF TorrentsPage!ShowDetails
  <2> QED BY <1>9, <2>1, <2>2, <2>3
<1>11. ASSUME NEW t \in Hosted, TorrentsPage!ShowLimits(t) PROVE ListInv'
  <2> DEFINE ids == IF view.selecting /\ Cardinality(view.selected) > 1
                    THEN view.selected ELSE {TorrentsPage!Id(t)}
             on == {<<TorrentsPage!Worker(t), id>> : id \in ids}
  <2>1. dialog' = Append(dialog, [is |-> "limits", on |-> on]) /\ UNCHANGED <<shown, view>>
    BY <1>11 DEF TorrentsPage!ShowLimits, TorrentsPage!Over, TorrentsPage!Dialog, TorrentsPage!Cardinality, Cardinality
  <2>2. ids \subseteq TorrentsPage!Ids
    BY <1>2, <1>3 DEF RowViews
  <2> HIDE DEF ids
  <2>3. on \in SUBSET ({TorrentsPage!Worker(u) : u \in Hosted} \X TorrentsPage!Ids)
    BY <2>2
  <2> HIDE DEF on
  <2>4. [is |-> "limits", on |-> on] \in RowDialogs
    BY <2>3 DEF RowDialogs
  <2> QED BY <1>9, <2>1, <2>4
<1>12. ASSUME NEW rows \in SUBSET Hosted, TorrentsPage!OpenDelete(rows) PROVE ListInv'
  <2>1. dialog' = Append(dialog, [is |-> "delete", on |-> rows]) /\ UNCHANGED <<shown, view>>
    BY <1>12 DEF TorrentsPage!OpenDelete, TorrentsPage!Over, TorrentsPage!Dialog
  <2>2. [is |-> "delete", on |-> rows] \in RowDialogs
    BY DEF RowDialogs
  <2> QED BY <1>9, <2>1, <2>2
<1>13. CASE TorrentsPage!DeleteSelected \/ \E t \in Hosted : TorrentsPage!DeleteRow(t)
  <2>1. \E rows \in SUBSET Hosted : TorrentsPage!OpenDelete(rows)
    <3>1. CASE TorrentsPage!DeleteSelected
      <4> DEFINE rows == {t \in TorrentsPage!Rows : TorrentsPage!Id(t) \in view.selected}
      <4>1. TorrentsPage!OpenDelete(rows) /\ rows \in SUBSET Hosted
        BY <1>3, <3>1 DEF TorrentsPage!DeleteSelected
      <4> HIDE DEF rows
      <4> QED BY <4>1
    <3>2. ASSUME NEW t \in Hosted, TorrentsPage!DeleteRow(t) PROVE \E rows \in SUBSET Hosted : TorrentsPage!OpenDelete(rows)
      <4> DEFINE rows == {t}
      <4>1. TorrentsPage!OpenDelete(rows) /\ rows \in SUBSET Hosted
        BY <3>2 DEF TorrentsPage!DeleteRow
      <4> HIDE DEF rows
      <4> QED BY <4>1
    <3> QED BY <1>13, <3>1, <3>2
  <2> QED BY <1>12, <2>1
<1>14. CASE TorrentsPage!CloseDialog
  <2>1. UNCHANGED <<shown, view>> /\ dialog' = SubSeq(dialog, 1, Len(dialog) - 1)
    BY <1>14 DEF TorrentsPage!CloseDialog, TorrentsPage!CloseTop
  <2>2. dialog' \in Seq(RowDialogs)
    BY <1>2, <2>1, CloseShortens
  <2> QED BY <1>2, <1>4, <2>1, <2>2
<1> QED BY <1>5, <1>7, <1>8, <1>10, <1>11, <1>13, <1>14

LEMMA ListAsk ==
  ASSUME ListInv,
         \/ \E id : TorrentsPage!Act(id)
         \/ TorrentsPage!BulkAction \/ TorrentsPage!SaveLimits \/ TorrentsPage!SaveCategory
         \/ TorrentsPage!DeleteTorrent \/ TorrentsPage!ConfirmDelete
  PROVE  ListInv'
<1>1. UNCHANGED <<server, shown, dialog>>
  BY DEF TorrentsPage!Act, TorrentsPage!BulkAction, TorrentsPage!SaveLimits, TorrentsPage!SaveCategory,
         TorrentsPage!DeleteTorrent, TorrentsPage!ConfirmDelete
<1> DEFINE list == "torrents"
           asks(op, on, to) == TorrentsPage!Ask(op, list, on, to)
<1>2. PICK op, on, to :
        /\ asks(op, on, to) /\ op # "load" /\ (op \in Changes => to = "changed")
        /\ view' = view \/ (op = "deletions" /\ view' = [view EXCEPT !.refreshing = TRUE])
  <2> HIDE DEF asks
  <2>1. CASE \/ \E id : TorrentsPage!Act(id)
             \/ TorrentsPage!BulkAction \/ TorrentsPage!SaveLimits \/ TorrentsPage!SaveCategory
    <3>1. \/ \E on : asks("act", on, "changed") \/ asks("bulk", on, "changed") \/ asks("category", on, "changed")
          \/ \E on : asks("limits", on, "changed")
      BY <2>1 DEF TorrentsPage!Act, TorrentsPage!BulkAction, TorrentsPage!SaveLimits,
                  TorrentsPage!SaveCategory, asks
    <3>2. view' = view
      BY <2>1 DEF TorrentsPage!Act, TorrentsPage!BulkAction, TorrentsPage!SaveLimits, TorrentsPage!SaveCategory
    <3> QED BY <3>1, <3>2
  <2>2. CASE TorrentsPage!DeleteTorrent
    <3>1. PICK on, to : asks("remove", on, to)
      BY <2>2 DEF TorrentsPage!DeleteTorrent, asks
    <3> QED BY <2>2, <3>1 DEF TorrentsPage!DeleteTorrent, Changes
  <2>3. CASE TorrentsPage!ConfirmDelete
    <3>1. PICK on, to : asks("deletions", on, to)
      BY <2>3 DEF TorrentsPage!ConfirmDelete, asks
    <3> QED BY <2>3, <3>1 DEF TorrentsPage!ConfirmDelete, Changes
  <2> QED BY <2>1, <2>2, <2>3
<1>3. /\ asked' = Add(asked, Request(op, list, on, to, Gone)) /\ sent < Sends.torrents /\ sent' = sent + 1
      /\ apart' = apart \/ apart' = DOMAIN shown
  BY <1>2 DEF TorrentsPage!Ask, TorrentsPage!AskSeeing, TorrentsPage!Add, TorrentsPage!Request, Add, Request
<1> HIDE DEF list, asks
<1>4. /\ \A r \in asked' :
           /\ Asks(r)
           /\ (\E p \in asked : Same(r, p)) \/ (r.op = op /\ r.to = to)
      /\ Carries(asked, asked') /\ \E r \in asked' : r.op = op
  <2>1. \A r \in asked : Asks(r)
    BY DEF ListInv, RowAsks
  <2> QED BY <1>3, <2>1, AskJoins
<1>5. \A r \in asked' : RowAsks(r)
  BY <1>2, <1>4 DEF ListInv, RowAsks, Same
<1>6. view \in RowViews /\ DOMAIN shown = {"torrents", "workers"} /\ sent \in 0..Sends.torrents
      /\ Sends.torrents \in Nat
  BY ClientAssumption DEF ListInv, ListTyped
<1>7. /\ view' \in RowViews /\ view'.loading = view.loading
      /\ view'.refreshing => view.refreshing \/ op = "deletions"
  BY <1>2, <1>6 DEF RowViews
<1>8. ListWaits'
  BY <1>4, <1>7 DEF ListInv, ListWaits, Carries, Twin
<1>9. ListTyped'
  BY <1>1, <1>3, <1>6, <1>7 DEF ListInv, ListTyped
<1> QED BY <1>5, <1>8, <1>9 DEF ListInv

LEMMA ListLand ==
  ASSUME ListInv,
         \/ TorrentsPage!WorkersLoaded \/ TorrentsPage!Acted \/ TorrentsPage!CategorySaved
         \/ TorrentsPage!LimitsSaved \/ TorrentsPage!TorrentDeleted \/ TorrentsPage!ConfirmedGone
         \/ TorrentsPage!Refused({"act", "bulk", "category", "limits", "remove"})
  PROVE  ListInv'
<1>1. /\ view \in RowViews /\ dialog \in Seq(RowDialogs) /\ shown \in [torrents : RowLists, workers : {"listed", Gone}]
      /\ server \in [torrents : RowLists, workers : {"listed"}] /\ \A r \in asked : RowAsks(r)
      /\ view.loading => \E r \in asked : r.op = "load"
      /\ view.refreshing => \E r \in asked : r.op = "deletions"
  BY DEF ListInv, ListTyped, ListWaits
<1>2. ASSUME NEW r \in asked, TorrentsPage!Land(r), UNCHANGED server,
             shown' \in [torrents : RowLists, workers : {"listed", Gone}], view' \in RowViews,
             dialog' \in Seq(RowDialogs), view'.loading => view.loading /\ r.op # "load",
             view'.refreshing => view.refreshing /\ r.op # "deletions"
      PROVE  ListInv'
  <2>1. asked' = asked \ {r} /\ sent' = sent /\ apart' \subseteq apart
    BY <1>2 DEF TorrentsPage!Land
  <2>2. ListWaits'
    BY <1>1, <1>2, <2>1 DEF ListWaits
  <2> QED BY <1>2, <2>1, <2>2 DEF ListInv, ListTyped
<1>3. \A kinds : TorrentsPage!Without(kinds) \in Seq(RowDialogs)
  <2>1. \A kinds : TorrentsPage!Without(kinds) = Without(kinds)
    BY DEF TorrentsPage!Without, TorrentsPage!Only, TorrentsPage!Cardinality, Without, Only, Cardinality
  <2> QED BY <1>1, <2>1, WithoutTakes
<1>4. \A ids : TorrentsPage!Removed(ids) \in RowLists
  BY <1>1 DEF TorrentsPage!Removed, RowLists
<1>5. ASSUME NEW torrents \in RowLists, shown' = [shown EXCEPT !.torrents = torrents]
      PROVE  shown' \in [torrents : RowLists, workers : {"listed", Gone}]
  BY <1>1, <1>5
<1>6. CASE TorrentsPage!WorkersLoaded
  <2>1. PICK r \in asked :
          /\ r.op = "load" /\ TorrentsPage!Land(r) /\ UNCHANGED <<server, dialog>>
          /\ shown' = IF r.state = "done" THEN [shown EXCEPT !["workers"] = r.saw] ELSE shown
          /\ view' = [view EXCEPT !["loading"] = FALSE]
    BY <1>6 DEF TorrentsPage!WorkersLoaded, TorrentsPage!Loaded, TorrentsPage!Answers
  <2>2. shown' \in [torrents : RowLists, workers : {"listed", Gone}]
    BY <1>1, <2>1 DEF RowAsks
  <2>3. view' \in RowViews /\ ~view'.loading /\ view'.refreshing = view.refreshing
    BY <1>1, <2>1 DEF RowViews
  <2> QED BY <1>1, <1>2, <2>1, <2>2, <2>3
<1>7. CASE TorrentsPage!CategorySaved
  <2>1. PICK r \in asked :
          /\ r.op = "category" /\ TorrentsPage!Land(r) /\ UNCHANGED <<server, dialog, view>>
          /\ shown' = shown \/ \E u \in Hosted : shown' = [shown EXCEPT !.torrents[u] = r.to]
    BY <1>7 DEF TorrentsPage!CategorySaved, TorrentsPage!Answers, TorrentsPage!Find, TorrentsPage!Rows
  <2>2. r.to \in TorrentsPage!States
    BY <1>1, <2>1 DEF RowAsks, Changes, TorrentsPage!States
  <2>3. \A u \in Hosted : [shown.torrents EXCEPT ![u] = r.to] \in RowLists
    BY <1>1, <2>2 DEF RowLists
  <2>4. shown' \in [torrents : RowLists, workers : {"listed", Gone}]
    BY <1>1, <2>1, <2>3
  <2> QED BY <1>1, <1>2, <2>1, <2>4
<1>8. CASE TorrentsPage!TorrentDeleted
  <2>1. PICK r \in asked :
          /\ r.op = "remove" /\ TorrentsPage!Land(r) /\ UNCHANGED <<server, view>>
          /\ shown' = [shown EXCEPT !.torrents = TorrentsPage!Removed({TorrentsPage!Id(t) : t \in r.on})]
    BY <1>8 DEF TorrentsPage!TorrentDeleted, TorrentsPage!Answers
  <2>2. dialog' = TorrentsPage!Without({"details"})
    BY <1>8 DEF TorrentsPage!TorrentDeleted
  <2>3. shown' \in [torrents : RowLists, workers : {"listed", Gone}]
    BY <1>4, <1>5, <2>1
  <2> QED BY <1>1, <1>2, <1>3, <2>1, <2>2, <2>3
<1>9. CASE TorrentsPage!ConfirmedGone
  <2>1. PICK r \in asked :
          /\ r.op = "deletions" /\ TorrentsPage!Land(r) /\ UNCHANGED server
          /\ shown' = [shown EXCEPT !.torrents = TorrentsPage!Removed(
                         IF r.state = "done" THEN {TorrentsPage!Id(t) : t \in r.on} ELSE {})]
          /\ \/ view' = [view EXCEPT !.refreshing = FALSE, !.selecting = FALSE, !.selected = {}]
             \/ view' = [view EXCEPT !.refreshing = FALSE]
    BY <1>9 DEF TorrentsPage!ConfirmedGone, TorrentsPage!Answers
  <2>2. dialog' = TorrentsPage!Without({"delete"})
    BY <1>9 DEF TorrentsPage!ConfirmedGone
  <2>3. shown' \in [torrents : RowLists, workers : {"listed", Gone}]
    BY <1>4, <1>5, <2>1
  <2>4. view' \in RowViews /\ view'.loading = view.loading /\ ~view'.refreshing
    BY <1>1, <2>1 DEF RowViews
  <2> QED BY <1>1, <1>2, <1>3, <2>1, <2>2, <2>3, <2>4
<1>10. CASE \/ TorrentsPage!Acted \/ TorrentsPage!LimitsSaved
            \/ TorrentsPage!Refused({"act", "bulk", "category", "limits", "remove"})
  <2>1. PICK r \in asked : TorrentsPage!Land(r) /\ r.op \notin {"load", "deletions"}
    BY <1>10 DEF TorrentsPage!Acted, TorrentsPage!LimitsSaved, TorrentsPage!Refused, TorrentsPage!Answers
  <2>2. UNCHANGED <<server, shown, view>> /\ (dialog' = dialog \/ dialog' = TorrentsPage!Without({"limits"}))
    BY <1>10 DEF TorrentsPage!Acted, TorrentsPage!LimitsSaved, TorrentsPage!Refused
  <2> QED BY <1>1, <1>2, <1>3, <2>1, <2>2
<1> QED BY <1>6, <1>7, <1>8, <1>9, <1>10

\* Of the torrents to delete some are gone: the request is about those now.
LEMMA DeletedAsks ==
  ASSUME NEW r, Asks(r), NEW gone
  PROVE  LET s == [r EXCEPT !.state = "done", !.on = gone] IN Asks(s) /\ s.op = r.op
<1> DEFINE done == "done"
           v == [r EXCEPT !.on = gone]
           s == [v EXCEPT !.state = done]
<1>1. r = Sent(r.op, r.list, r.on, r.to, r.state, r.alone, r.heard, r.saw)
  BY DEF Asks
<1>2. [r EXCEPT !.state = "done", !.on = gone] = s
  <2>1. PICK op, list, on, to, state, alone, heard, saw :
          r = [op |-> op, list |-> list, on |-> on, to |-> to, state |-> state,
               alone |-> alone, heard |-> heard, saw |-> saw]
    BY <1>1 DEF Sent
  <2> HIDE DEF done
  <2>2. [r EXCEPT !.state = done, !.on = gone] = s
    BY <2>1
  <2> QED BY <2>2 DEF done
<1> HIDE DEF done
<1>3. v = Sent(r.op, r.list, gone, r.to, r.state, r.alone, r.heard, r.saw)
  <2>1. PICK op, list, on, to, state, alone, heard, saw :
          r = [op |-> op, list |-> list, on |-> on, to |-> to, state |-> state,
               alone |-> alone, heard |-> heard, saw |-> saw]
    BY <1>1 DEF Sent
  <2>2. /\ r.op = op /\ r.list = list /\ r.to = to /\ r.state = state /\ r.alone = alone
        /\ r.heard = heard /\ r.saw = saw
    BY <2>1
  <2>3. v = [op |-> op, list |-> list, on |-> gone, to |-> to, state |-> state,
             alone |-> alone, heard |-> heard, saw |-> saw]
    BY <2>1
  <2> QED BY <2>2, <2>3 DEF Sent
<1>4. /\ v.op = r.op /\ v.state = r.state /\ v.alone = r.alone /\ v.heard = r.heard
      /\ v = Sent(v.op, v.list, v.on, v.to, v.state, v.alone, v.heard, v.saw)
  BY <1>3, SentFields
<1> HIDE DEF v
<1>5. s = Sent(v.op, v.list, v.on, v.to, done, v.alone, v.heard, v.saw)
  BY <1>4, SentEdits
<1> HIDE DEF s
<1>6. /\ s.op = v.op /\ s.state = done /\ s.alone = v.alone /\ s.heard = v.heard
      /\ s = Sent(s.op, s.list, s.on, s.to, s.state, s.alone, s.heard, s.saw)
  BY <1>5, SentFields
<1>7. done \in {"asked", "done", "refused"}
  BY DEF done
<1>8. Asks(s) /\ s.op = r.op
  BY <1>4, <1>6, <1>7 DEF Asks
<1> QED BY <1>2, <1>8

\* The backend reaches a request.
LEMMA ListServed ==
  ASSUME ListInv, ServedRows \/ TorrentsPage!ServeDelete PROVE ListInv'
<1>1. /\ server \in [torrents : RowLists, workers : {"listed"}] /\ \A r \in asked : RowAsks(r)
      /\ DOMAIN shown = {"torrents", "workers"}
      /\ view.loading => \E r \in asked : r.op = "load"
      /\ view.refreshing => \E r \in asked : r.op = "deletions"
  BY DEF ListInv, ListTyped, ListWaits
<1>2. UNCHANGED <<shown, dialog, view, sent>>
  BY DEF ServedRows, TorrentsPage!Serve, TorrentsPage!ServeDelete
<1>3. ASSUME NEW r \in asked, NEW s, asked' = (asked \ {r}) \cup {s}, s.op = r.op, RowAsks(s),
             server' \in [torrents : RowLists, workers : {"listed"}], apart' = apart \/ apart' = DOMAIN shown
      PROVE  ListInv'
  <2>1. ListWaits'
    BY <1>1, <1>2, <1>3 DEF ListWaits
  <2> QED BY <1>1, <1>2, <1>3, <2>1 DEF ListInv, ListTyped
<1>4. CASE ServedRows
  <2>1. PICK r \in asked :
          \/ /\ TorrentsPage!Accepts(r) /\ server' = TorrentsPage!Effect(r)
             /\ asked' = (asked \ {r}) \cup {Answer(r)} /\ apart' = apart
          \/ asked' = (asked \ {r}) \cup {Refusal(r)} /\ server' = server /\ apart' = apart
          \/ /\ TorrentsPage!Accepts(r) /\ server' = TorrentsPage!Effect(r)
             /\ asked' = (asked \ {r}) \cup {Refusal(r)} /\ apart' = DOMAIN shown
    BY <1>4 DEF ServedRows, TorrentsPage!Serve, TorrentsPage!Effect, TorrentsPage!Accepts, TorrentsPage!Answer,
                TorrentsPage!Refusal, TorrentsPage!Brings, Answer, Refusal, Brings
  <2>2. PICK s :
          /\ asked' = (asked \ {r}) \cup {s}
          /\ Asks(s) /\ Twin(s, r)
          /\ s.state = "done" => s.saw = IF r.op \in Brings THEN server'[r.list] ELSE r.saw
          /\ server' \in {server, TorrentsPage!Effect(r)} /\ (apart' = apart \/ apart' = DOMAIN shown)
    <3> DEFINE accepts == TorrentsPage!Accepts(r)
               effect == TorrentsPage!Effect(r)
    <3>1. \/ accepts /\ server' = effect /\ asked' = (asked \ {r}) \cup {Answer(r)} /\ apart' = apart
          \/ asked' = (asked \ {r}) \cup {Refusal(r)} /\ server' = server /\ apart' = apart
          \/ /\ accepts /\ server' = effect /\ asked' = (asked \ {r}) \cup {Refusal(r)}
             /\ apart' = DOMAIN shown
      BY <2>1
    <3>2. Asks(r)
      BY <1>1 DEF RowAsks
    <3> HIDE DEF accepts, effect
    <3>3. PICK s :
            /\ asked' = (asked \ {r}) \cup {s}
            /\ Asks(s) /\ Twin(s, r)
            /\ \/ /\ s.state = "done" /\ server' = effect /\ apart' = apart
                  /\ s.saw = IF r.op \in Brings THEN server'[r.list] ELSE r.saw
               \/ /\ s.state = "refused"
                  /\ \/ server' = server /\ apart' = apart
                     \/ server' = effect /\ apart' = DOMAIN shown
      BY <3>1, <3>2, Answering
    <3> QED BY <3>3 DEF effect
  <2>3. server' \in [torrents : RowLists, workers : {"listed"}]
    <3> DEFINE changed == [t \in Hosted |-> IF t \in r.on /\ server.torrents[t] # Gone
                                           THEN r.to ELSE server.torrents[t]]
               removed == [t \in Hosted |-> IF t \in r.on THEN Gone ELSE server.torrents[t]]
    <3>1. \/ r.op \in Changes /\ TorrentsPage!Effect(r) = [server EXCEPT !.torrents = changed]
          \/ TorrentsPage!Effect(r) = [server EXCEPT !.torrents = removed]
          \/ TorrentsPage!Effect(r) = server
      BY DEF TorrentsPage!Effect, Changes
    <3>2. (r.op \in Changes => changed \in RowLists) /\ removed \in RowLists
      BY <1>1 DEF RowAsks, RowLists, TorrentsPage!States
    <3> HIDE DEF changed, removed
    <3> QED BY <1>1, <2>2, <3>1, <3>2
  <2>4. RowAsks(s)
    <3>1. RowAsks(r) /\ server'.workers = "listed"
      BY <1>1, <2>3
    <3> QED BY <2>2, <3>1 DEF RowAsks, Twin, Brings
  <2> QED BY <1>3, <2>2, <2>3, <2>4 DEF Twin
<1>5. CASE TorrentsPage!ServeDelete
  <2>1. PICK r \in asked, gone \in SUBSET Hosted :
          /\ r.op = "deletions" /\ apart' = apart
          /\ server' = [server EXCEPT !.torrents = [t \in Hosted |-> IF t \in gone THEN Gone ELSE @[t]]]
          /\ asked' = (asked \ {r}) \cup {[r EXCEPT !.state = "done", !.on = gone]}
    BY <1>5 DEF TorrentsPage!ServeDelete
  <2> DEFINE s == [r EXCEPT !.state = "done", !.on = gone]
             left == [t \in Hosted |-> IF t \in gone THEN Gone ELSE server.torrents[t]]
  <2>2. server' = [server EXCEPT !.torrents = left] /\ left \in RowLists
    BY <1>1, <2>1 DEF RowLists
  <2>3. asked' = (asked \ {r}) \cup {s} /\ s.op = "deletions" /\ RowAsks(s)
    <3>1. Asks(r)
      BY <1>1 DEF RowAsks
    <3>2. Asks(s) /\ s.op = r.op
      BY <3>1, DeletedAsks
    <3> HIDE DEF s
    <3>3. RowAsks(s)
      BY <2>1, <3>2 DEF RowAsks, Changes
    <3> QED BY <2>1, <3>2, <3>3 DEF s
  <2> HIDE DEF s, left
  <2> QED BY <1>1, <1>3, <2>1, <2>2, <2>3
<1> QED BY <1>4, <1>5

LEMMA ListMounted == ASSUME TorrentsPage!Init PROVE ListInv
<1> DEFINE q == Request("load", "workers", Gone, Gone, Gone)
<1>1. /\ asked = {q} /\ dialog = <<>> /\ apart = DOMAIN shown /\ sent = 0
      /\ server = [torrents |-> [t \in Hosted |-> "plain"], workers |-> "listed"]
      /\ shown = [torrents |-> [t \in Hosted |-> Gone], workers |-> Gone]
      /\ view = [loading |-> TRUE, fed |-> FALSE, selecting |-> FALSE, selected |-> {}, refreshing |-> FALSE]
  BY DEF TorrentsPage!Init, TorrentsPage!Mounted, TorrentsPage!Request, TorrentsPage!Closed, Request
<1>2. Asks(q) /\ q.op = "load" /\ q.list = "workers" /\ q.state = "asked"
  BY RequestAsks DEF Request
<1> HIDE DEF q
<1>3. RowAsks(q)
  BY <1>2 DEF RowAsks, Changes
<1>4. [t \in Hosted |-> "plain"] \in RowLists /\ [t \in Hosted |-> Gone] \in RowLists /\ Sends.torrents \in Nat
  BY ClientAssumption DEF RowLists, TorrentsPage!States
<1>5. ListTyped
  BY <1>1, <1>4 DEF ListTyped, RowViews
<1> QED BY <1>1, <1>2, <1>3, <1>5 DEF ListInv, ListWaits

LEMMA ListStep == ASSUME ListInv, [TorrentsPage!Next]_pageVars PROVE ListInv'
<1>1. CASE UNCHANGED pageVars
  BY <1>1 DEF pageVars, ListInv, ListTyped, ListWaits
<1>2. CASE TorrentsPage!Next
  BY <1>2, ListLook, ListAsk, ListLand, ListServed DEF TorrentsPage!Next, ServedRows
<1> QED BY <1>1, <1>2

ListHolds == page = "torrents" => ListInv

LEMMA ListAlways == Spec => []ListHolds
<1>1. Init => ListHolds
  BY ListMounted DEF Init, ListHolds
<1>2. ASSUME ListHolds, [Next]_vars PROVE ListHolds'
  <2>1. page' = page /\ (page = "torrents" => [TorrentsPage!Next]_pageVars)
    BY <1>2 DEF Next, vars
  <2> QED BY <1>2, <2>1, ListStep DEF ListHolds
<1> QED BY <1>1, <1>2, PTL DEF Spec

LEMMA ListPromises ==
  ASSUME ListInv
  PROVE  TorrentsPage!PageOK /\ TorrentsPage!TypeOK /\ TorrentsPage!SpinnersHaveRequests
<1>1. TorrentsPage!RequestsOK
  BY DEF TorrentsPage!RequestsOK, ListInv, RowAsks, Asks
<1>2. \A i \in DOMAIN dialog : "is" \in DOMAIN dialog[i]
  <2>1. \A d \in RowDialogs : "is" \in DOMAIN d
    BY DEF RowDialogs
  <2>2. \A i \in DOMAIN dialog : dialog[i] \in RowDialogs
    BY DEF ListInv, ListTyped
  <2> QED BY <2>1, <2>2
<1>3. TorrentsPage!PageOK
  BY <1>1, <1>2 DEF TorrentsPage!PageOK, ListInv, ListTyped
<1>4. TorrentsPage!TypeOK
  BY DEF TorrentsPage!TypeOK, ListInv, ListTyped, RowLists, RowViews
<1>5. TorrentsPage!SpinnersHaveRequests
  BY DEF TorrentsPage!SpinnersHaveRequests, TorrentsPage!Waiting, ListInv, ListWaits
<1> QED BY <1>3, <1>4, <1>5

-----------------------------------------------------------------------------
(* The rest of the session: what it has in common with the other pages. *)

SessionRest == apart \subseteq {"user", "prefs"} /\ sent \in 0..Sends.session /\ dialog = <<>>

LEMMA SessionRestStep ==
  ASSUME SessionInv, SessionRest, [Session!Next]_pageVars PROVE SessionRest'
<1>1. DOMAIN shown = {"user", "prefs"} /\ sent \in 0..Sends.session /\ Sends.session \in Nat
  BY ClientAssumption DEF SessionInv, SessionRest, Shown
<1>2. ASSUME dialog' = dialog, sent' = sent \/ (sent < Sends.session /\ sent' = sent + 1),
             apart' \subseteq apart \/ apart' = DOMAIN shown
      PROVE  SessionRest'
  <2> DEFINE most == Sends.session
  <2>1. sent' \in 0..most
    <3> SUFFICES sent \in 0..most /\ most \in Nat /\ (sent' = sent \/ (sent < most /\ sent' = sent + 1))
      OBVIOUS
    <3> QED BY <1>1, <1>2
  <2>2. apart' \subseteq {"user", "prefs"}
    BY <1>1, <1>2 DEF SessionRest
  <2> QED BY <1>2, <2>1, <2>2 DEF SessionRest
<1>3. CASE UNCHANGED pageVars
  BY <1>2, <1>3 DEF pageVars
<1>4. CASE \/ Session!Reload \/ Session!ChunkArrives \/ Session!ChunkFails \/ Session!Deploy \/ Session!Expire
           \/ \E p \in Session!Paths : Session!Navigate(p)
  BY <1>2, <1>4 DEF Session!Reload, Session!ChunkArrives, Session!ChunkFails, Session!Deploy, Session!Expire,
                    Session!Navigate
<1>5. CASE \/ Session!WhoAnswered \/ Session!PreferencesAnswered \/ Session!SetupChecked
           \/ Session!LoggedIn \/ Session!LoginReturns \/ Session!LoggedOut
           \/ Session!Registered \/ Session!DelayIsOver \/ Session!Answered
  BY <1>2, <1>5 DEF Session!WhoAnswered, Session!PreferencesAnswered, Session!SetupChecked,
                    Session!LoggedIn, Session!LoginReturns, Session!LoggedOut,
                    Session!Registered, Session!DelayIsOver, Session!Answered
<1>6. CASE Session!LoginRefused
  <2>1. /\ dialog' = dialog /\ \E r : Session!Land(r)
    BY <1>6 DEF Session!LoginRefused
  <2> QED BY <1>2, <2>1 DEF Session!Land
<1>7. CASE Session!Logout \/ Session!Submit \/ \E a \in Accounts : Session!Login(a)
  <2>1. /\ dialog' = dialog /\ \E op, list, on, to : Session!Ask(op, list, on, to)
    BY <1>7 DEF Session!Logout, Session!Submit, Session!Login
  <2> QED BY <1>2, <2>1 DEF Session!Ask, Session!AskSeeing
<1> QED BY <1>3, <1>4, <1>5, <1>6, <1>7 DEF Session!Next

SessionRests == page = "session" => SessionRest

LEMMA SessionRestAlways == Spec => []SessionRests
<1>1. Init => SessionRests
  <2>1. Sends.session \in Nat
    BY ClientAssumption
  <2> QED BY <2>1 DEF Init, Session!Init, Session!Closed, SessionRest, SessionRests
<1>2. SessionRests /\ SessionHolds /\ [Next]_vars => SessionRests'
  <2> SUFFICES ASSUME SessionRests, SessionHolds, [Next]_vars, page' = "session" PROVE SessionRest'
    BY DEF SessionRests
  <2>1. page = "session" /\ [Session!Next]_pageVars
    BY DEF Next, vars
  <2> QED BY <2>1, SessionRestStep DEF SessionRests, SessionHolds
<1> QED BY <1>1, <1>2, SessionAlways, PTL DEF Spec

LEMMA SessionPromises ==
  ASSUME SessionInv, SessionRest
  PROVE  Session!PageOK /\ Session!TypeOK /\ Session!SpinnersHaveRequests
<1>1. Session!RequestsOK
  BY DEF Session!RequestsOK, SessionInv, InTab, Fits
<1>2. Session!PageOK
  BY <1>1 DEF Session!PageOK, SessionInv, SessionRest, Shown
<1>3. Session!TypeOK
  BY DEF SessionInv, Servers, Shown, Users, InTab, TabStates, Session!TypeOK
<1>4. Session!SpinnersHaveRequests
  BY DEF Session!SpinnersHaveRequests, SessionInv, InTab, Awaited, Attended
<1> QED BY <1>2, <1>3, <1>4

-----------------------------------------------------------------------------
(* The form that adds a torrent (AddTorrentModal.tsx), and what it has sent. *)

FormNames == Releases \cup {Mine, Nothing}
FormRecords == [name : FormNames, worker : Hosts]
FormTasks == [Releases -> FormRecords \cup {Gone}]
FormViews ==
  [mode : {"magnet", "file"}, release : Releases \cup {Nothing}, suggestion : Releases \cup {Nothing},
   edited : SUBSET Form!Fields, displayName : FormNames,
   category : Labels \cup {Nothing}, tags : SUBSET (Releases \cup Labels \cup {Mine}),
   directory : Labels \cup {Mine, Nothing}, worker : Hosts \cup {Nothing}, manual : BOOLEAN,
   workers : SUBSET Hosts, workersLoaded : BOOLEAN, categories : SUBSET Labels]
Naming == {"rename", "rename again"}

\* What a request asks for and brings: a torrent is renamed once it is there.
FormFits(op, list, on, to, state, saw, tasks) ==
  /\ op \in {"load", "parse", "create"} \cup Naming
  /\ op = "load" /\ list = "workers" /\ state = "done" => saw \in SUBSET Hosts
  /\ op # "load" => on \in Releases
  /\ op \in {"create"} \cup Naming => to \in FormRecords
  /\ op \in Naming \/ (op = "create" /\ state = "done") => tasks[on] \in FormRecords
FormAsks(r, tasks) == Asks(r) /\ FormFits(r.op, r.list, r.on, r.to, r.state, r.saw, tasks)
FormInv ==
  /\ server \in [tasks : FormTasks, workers : SUBSET Hosts] /\ shown \in [pending : SUBSET Releases]
  /\ view \in FormViews /\ dialog \in {<<>>, <<[is |-> "add"]>>} /\ apart = {} /\ sent \in 0..Sends.form
  /\ \A r \in asked : FormAsks(r, server.tasks)

LEMMA FormSends == Sends.form \in Nat
  BY ClientAssumption DEF ClientAssumption

LEMMA BlankForm == \A mode \in {"magnet", "file"} : Form!Blank(mode) \in FormViews
  BY DEF Form!Blank, FormViews, FormNames

\* A worker is proposed, or none.
LEMMA FormSettles ==
  ASSUME NEW v \in FormViews, NEW w \in Form!Settled(v) PROVE w \in FormViews
<1>1. w = v \/ \E x \in v.workers \cup {Nothing} : w = [v EXCEPT !.worker = x]
  <2> DEFINE preferred == IF v.category = Nothing THEN Nothing ELSE Prefers[v.category]
             first == CHOOSE x \in v.workers : TRUE
  <2>1. \/ w = v
        \/ w = [v EXCEPT !.worker = IF preferred \in v.workers THEN preferred ELSE Nothing]
        \/ w = [v EXCEPT !.worker = Nothing]
        \/ v.workers # {} /\ w = [v EXCEPT !.worker = first]
    BY DEF Form!Settled
  <2>2. v.workers # {} => first \in v.workers
    OBVIOUS
  <2> HIDE DEF preferred, first
  <2> QED BY <2>1, <2>2
<1>2. v.workers \subseteq Hosts
  BY DEF FormViews
<1> QED BY <1>1, <1>2 DEF FormViews

LEMMA RefilledForm ==
  ASSUME NEW v \in FormViews, NEW s \in Releases \cup {Nothing}, NEW name \in FormNames,
         NEW category \in Labels \cup {Nothing}, NEW tags \in SUBSET (Releases \cup Labels \cup {Mine}),
         NEW directory \in Labels \cup {Mine, Nothing}
  PROVE  Refilled(v, s, name, category, tags, directory) \in FormViews
<1> DEFINE a == [v EXCEPT !.suggestion = s, !.displayName = name, !.category = category]
<1>1. a \in FormViews
  BY DEF FormViews
<1>2. Refilled(v, s, name, category, tags, directory) = [a EXCEPT !.tags = tags, !.directory = directory]
  BY DEF Refilled
<1> HIDE DEF a
<1> QED BY <1>1, <1>2 DEF FormViews

LEMMA FormFields ==
  ASSUME NEW v \in FormViews
  PROVE  /\ v.release \in Releases \cup {Nothing} /\ v.suggestion \in Releases \cup {Nothing}
         /\ v.displayName \in FormNames /\ v.category \in Labels \cup {Nothing}
         /\ v.tags \in SUBSET (Releases \cup Labels \cup {Mine}) /\ v.directory \in Labels \cup {Mine, Nothing}
         /\ v.categories \in SUBSET Labels /\ v.edited \in SUBSET Form!Fields /\ v.worker \in Hosts \cup {Nothing}
         /\ v.manual \in BOOLEAN /\ v.workers \in SUBSET Hosts /\ v.workersLoaded \in BOOLEAN
  BY DEF FormViews

LEMMA FormCleared == ASSUME NEW v \in FormViews PROVE Form!ClearAutoFilledFields(v) \in FormViews
<1> DEFINE name == Form!Kept(v, "displayName", Nothing)
           category == Form!Kept(v, "category", Nothing)
           tags == Form!Kept(v, "tags", {})
           directory == Form!Kept(v, "directory", Nothing)
<1>1. /\ name \in FormNames /\ category \in Labels \cup {Nothing}
      /\ tags \in SUBSET (Releases \cup Labels \cup {Mine}) /\ directory \in Labels \cup {Mine, Nothing}
  BY FormFields DEF Form!Kept, FormNames
<1>2. Form!ClearAutoFilledFields(v) = Refilled(v, Nothing, name, category, tags, directory)
  BY DEF Form!ClearAutoFilledFields, Refilled
<1> HIDE DEF name, category, tags, directory
<1>3. Nothing \in Releases \cup {Nothing}
  OBVIOUS
<1> QED BY <1>1, <1>2, <1>3, RefilledForm

LEMMA FormSuggested ==
  ASSUME NEW v \in FormViews, NEW r \in Releases PROVE Form!ApplySuggestion(v, r) \in FormViews
<1>1. CASE r \in Vague
  BY <1>1, FormCleared DEF Form!ApplySuggestion
<1>2. CASE r \notin Vague
  <2> DEFINE match == "category" \notin v.edited /\ Guess[r] \in v.categories
             category == IF match THEN Guess[r] ELSE v.category
             name == Form!Kept(v, "displayName", r)
             tags == Form!Kept(v, "tags", Form!Known(v, category) \cup {r})
             directory == IF match THEN Form!Kept(v, "directory", Guess[r]) ELSE v.directory
  <2>1. category \in Labels \cup {Nothing} /\ (match => Guess[r] \in Labels)
    BY FormFields
  <2>2. name \in FormNames /\ directory \in Labels \cup {Mine, Nothing}
    <3> HIDE DEF match
    <3> QED BY <2>1, FormFields DEF Form!Kept, FormNames
  <2>3. tags \in SUBSET (Releases \cup Labels \cup {Mine})
    <3> HIDE DEF category
    <3>1. Form!Known(v, category) \subseteq Labels
      BY FormFields DEF Form!Known
    <3>2. Form!Known(v, category) \cup {r} \in SUBSET (Releases \cup Labels \cup {Mine})
      BY <3>1
    <3> QED BY <3>2, FormFields DEF Form!Kept
  <2>4. Form!ApplySuggestion(v, r)
          = [v EXCEPT !.suggestion = r, !.displayName = name, !.tags = tags,
                      !.category = category, !.directory = directory]
    BY <1>2 DEF Form!ApplySuggestion
  <2> HIDE DEF name, category, tags, directory, match
  <2>5. Form!ApplySuggestion(v, r) = Refilled(v, r, name, category, tags, directory)
    BY <2>4 DEF Refilled
  <2>6. r \in Releases \cup {Nothing}
    OBVIOUS
  <2> QED BY <2>1, <2>2, <2>3, <2>5, <2>6, RefilledForm
<1> QED BY <1>1, <1>2

\* A request goes on as another one.
LEMMA NextAsks ==
  ASSUME NEW r, Asks(r), NEW op
  PROVE  LET s == [r EXCEPT !.op = op, !.state = "asked"] IN
         /\ Asks(s) /\ s.op = op /\ s.list = r.list /\ s.on = r.on /\ s.to = r.to
         /\ s.state = "asked" /\ s.saw = r.saw
<1> DEFINE again == "asked"
           s == [r EXCEPT !.op = op, !.state = again]
<1>1. PICK what, list, on, to, state, alone, heard, saw :
        r = [op |-> what, list |-> list, on |-> on, to |-> to, state |-> state,
             alone |-> alone, heard |-> heard, saw |-> saw]
  BY DEF Asks, Sent
<1>2. r.list = list /\ r.on = on /\ r.to = to /\ r.saw = saw /\ r.alone = alone /\ r.heard = heard
  BY <1>1
<1>3. s = [op |-> op, list |-> list, on |-> on, to |-> to, state |-> again,
           alone |-> alone, heard |-> heard, saw |-> saw]
  <2> HIDE DEF again
  <2> DEFINE d == [op |-> op, list |-> list, on |-> on, to |-> to, state |-> state,
                   alone |-> alone, heard |-> heard, saw |-> saw]
  <2>1. [r EXCEPT !.op = op] = d
    BY <1>1
  <2>2. s = [[r EXCEPT !.op = op] EXCEPT !.state = again]
    BY <1>1
  <2>3. [d EXCEPT !.state = again] = [op |-> op, list |-> list, on |-> on, to |-> to, state |-> again,
                                      alone |-> alone, heard |-> heard, saw |-> saw]
    OBVIOUS
  <2> QED BY <2>1, <2>2, <2>3
<1> HIDE DEF s
<1>4. s = Sent(op, list, on, to, again, alone, heard, saw)
  BY <1>3 DEF Sent
<1> HIDE DEF again
<1>5. /\ s.op = op /\ s.list = list /\ s.on = on /\ s.to = to /\ s.state = again /\ s.alone = alone
      /\ s.heard = heard /\ s.saw = saw
      /\ s = Sent(s.op, s.list, s.on, s.to, s.state, s.alone, s.heard, s.saw)
  BY <1>4, SentFields
<1>6. again = "asked" /\ alone \in BOOLEAN /\ heard \in BOOLEAN
  BY <1>2 DEF Asks, again
<1>7. Asks(s)
  BY <1>5, <1>6 DEF Asks
<1>8. s = [r EXCEPT !.op = op, !.state = "asked"]
  BY DEF s, again
<1> QED BY <1>2, <1>5, <1>6, <1>7, <1>8

\* Only the form changes.
LEMMA FormBecomes ==
  ASSUME FormInv, NEW v \in FormViews, Form!Becomes(v) PROVE view' \in FormViews
  BY FormSettles DEF Form!Becomes

\* Requests are dropped, or new ones go out.
LEMMA FormAsksOn ==
  ASSUME FormInv, view' \in FormViews, NEW new, \A r \in new : FormAsks(r, server.tasks),
         asked' \subseteq asked \cup new, UNCHANGED <<server, apart>>, shown' \in [pending : SUBSET Releases],
         dialog' \in {<<>>, <<[is |-> "add"]>>}, sent' \in 0..Sends.form
  PROVE  FormInv'
<1>1. \A r \in asked' : FormAsks(r, server.tasks)
  BY DEF FormInv
<1> QED BY <1>1 DEF FormInv

LEMMA FormLands ==
  ASSUME FormInv, NEW r \in asked, Form!Land(r), view' \in FormViews, UNCHANGED <<server, dialog>>,
         shown' \in [pending : SUBSET Releases]
  PROVE  FormInv'
<1>1. asked' = asked \ {r} /\ sent' = sent /\ apart' = apart
  BY DEF Form!Land, FormInv
<1> DEFINE new == {}
<1>2. /\ \A q \in new : FormAsks(q, server.tasks)
      /\ asked' \subseteq asked \cup new
  BY <1>1
<1> HIDE DEF new
<1>3. dialog' \in {<<>>, <<[is |-> "add"]>>} /\ sent' \in 0..Sends.form
  BY <1>1 DEF FormInv
<1> QED BY <1>1, <1>2, <1>3, FormAsksOn

LEMMA FormOpens ==
  ASSUME FormInv, \/ \E mode \in {"magnet", "file"} : Form!OpenAddModal(mode) \/ Form!ChangeMode(mode)
                  \/ Form!CloseAddModal
  PROVE  FormInv'
<1>1. view \in FormViews /\ sent \in 0..Sends.form /\ Sends.form \in Nat
  BY FormSends DEF FormInv
<1>2. ASSUME NEW mode \in {"magnet", "file"}, Form!OpenAddModal(mode) PROVE FormInv'
  <2>1. view' \in FormViews
    BY <1>2, BlankForm DEF Form!OpenAddModal
  <2>2. dialog = <<>>
    BY <1>2 DEF Form!OpenAddModal, Form!Open, Form!Closed
  <2>3. dialog' = <<[is |-> "add"]>>
    BY <1>2, <2>2 DEF Form!OpenAddModal, Form!Over
  <2>4. \A r \in Form!Opening : FormAsks(r, server.tasks)
    <3> DEFINE a == Request("load", "workers", Gone, Gone, Gone)
               b == Request("load", "categories", Gone, Gone, Gone)
    <3>1. Form!Opening = {a, b}
      BY DEF Form!Opening, Form!Request, Request
    <3>2. Asks(a) /\ Asks(b)
      BY RequestAsks
    <3>3. a.op = "load" /\ b.op = "load" /\ a.state = "asked" /\ b.state = "asked"
      BY DEF Request
    <3> HIDE DEF a, b
    <3>4. FormAsks(a, server.tasks) /\ FormAsks(b, server.tasks)
      BY <3>2, <3>3 DEF FormAsks, FormFits, Naming
    <3> QED BY <3>1, <3>4
  <2>5. /\ asked' \subseteq asked \cup Form!Opening /\ UNCHANGED <<server, apart>> /\ shown' = shown
        /\ sent' = sent + 1 /\ sent < Sends.form
    BY <1>2 DEF Form!OpenAddModal
  <2>6. sent' \in 0..Sends.form
    BY <1>1, <2>5
  <2>7. shown' \in [pending : SUBSET Releases] /\ dialog' \in {<<>>, <<[is |-> "add"]>>}
    BY <2>3, <2>5 DEF FormInv
  <2> QED BY <2>1, <2>4, <2>5, <2>6, <2>7, FormAsksOn
<1>3. ASSUME view' \in FormViews, asked' \subseteq asked, UNCHANGED <<server, shown, apart, sent>>,
             dialog' = dialog \/ dialog' = <<>>
      PROVE  FormInv'
  <2>1. dialog' \in {<<>>, <<[is |-> "add"]>>} /\ shown' \in [pending : SUBSET Releases] /\ sent' \in 0..Sends.form
    BY <1>3 DEF FormInv
  <2> DEFINE new == {}
  <2>2. (\A q \in new : FormAsks(q, server.tasks)) /\ asked' \subseteq asked \cup new
    BY <1>3
  <2> HIDE DEF new
  <2> QED BY <1>3, <2>1, <2>2, FormAsksOn
<1>4. ASSUME NEW mode \in {"magnet", "file"}, Form!ChangeMode(mode) PROVE FormInv'
  <2> DEFINE blank == Form!Blank(mode)
             a == [blank EXCEPT !.worker = view.worker, !.manual = view.manual]
             b == [a EXCEPT !.workers = view.workers, !.workersLoaded = view.workersLoaded,
                            !.categories = view.categories]
  <2>1. blank \in FormViews
    BY BlankForm
  <2>2. Form!Becomes(b)
    <3>1. Form!Becomes([blank EXCEPT !.worker = view.worker, !.manual = view.manual, !.workers = view.workers,
                                     !.workersLoaded = view.workersLoaded, !.categories = view.categories])
      BY <1>4 DEF Form!ChangeMode
    <3> HIDE DEF blank
    <3> QED BY <3>1
  <2> HIDE DEF blank
  <2>3. a \in FormViews
    BY <1>1, <2>1, FormFields DEF FormViews
  <2> HIDE DEF a
  <2>4. b \in FormViews
    BY <1>1, <2>3, FormFields DEF FormViews
  <2> HIDE DEF b
  <2>5. view' \in FormViews
    BY <2>2, <2>4, FormBecomes
  <2> QED BY <1>3, <1>4, <2>5 DEF Form!ChangeMode
<1>5. CASE Form!CloseAddModal
  <2>1. "magnet" \in {"magnet", "file"}
    OBVIOUS
  <2>2. view' \in FormViews
    BY <1>5, <2>1, BlankForm DEF Form!CloseAddModal
  <2> QED BY <1>3, <1>5, <2>2 DEF Form!CloseAddModal, Form!Closed
<1> QED BY <1>2, <1>4, <1>5

\* The user fills the form in.
LEMMA FormFilled ==
  ASSUME FormInv, \/ \E f \in Form!Fields : Form!Edit(f)
                  \/ \E tags \in SUBSET (view.tags \cup {Mine}) : Form!EditTags(tags)
                  \/ \E c \in Labels : Form!ChangeCategory(c)
                  \/ \E w \in Hosts : Form!ChangeWorker(w)
  PROVE  FormInv'
<1>1. view \in FormViews
  BY DEF FormInv
<1>2. ASSUME NEW v \in FormViews, Form!Becomes(v), Form!Stays PROVE FormInv'
  <2>1. view' \in FormViews
    BY <1>2, FormBecomes
  <2> QED BY <1>2, <2>1 DEF FormInv, Form!Stays
<1>3. ASSUME NEW f \in Form!Fields, Form!Edit(f) PROVE FormInv'
  <2> DEFINE edited == view.edited \cup {f}
             v == [view EXCEPT !.edited = edited, ![f] = Mine]
  <2>1. f \in {"displayName", "directory"} /\ Form!Becomes(v) /\ Form!Stays
    BY <1>3 DEF Form!Edit
  <2>2. edited \in SUBSET Form!Fields
    BY <1>1, FormFields
  <2> HIDE DEF edited
  <2>3. v \in FormViews
    <3>1. CASE f = "displayName"
      BY <1>1, <2>2, <3>1 DEF FormViews, FormNames
    <3>2. CASE f = "directory"
      BY <1>1, <2>2, <3>2 DEF FormViews
    <3> QED BY <2>1, <3>1, <3>2
  <2> HIDE DEF v
  <2> QED BY <1>2, <2>1, <2>3
<1>4. ASSUME NEW tags \in SUBSET (view.tags \cup {Mine}), Form!EditTags(tags) PROVE FormInv'
  <2> DEFINE edited == view.edited \cup {"tags"}
             v == [view EXCEPT !.edited = edited, !.tags = tags]
  <2>1. Form!Becomes(v) /\ Form!Stays
    BY <1>4 DEF Form!EditTags
  <2>2. edited \in SUBSET Form!Fields /\ tags \in SUBSET (Releases \cup Labels \cup {Mine})
    BY <1>1, FormFields DEF Form!Fields
  <2> HIDE DEF edited
  <2>3. v \in FormViews
    BY <1>1, <2>2 DEF FormViews
  <2> HIDE DEF v
  <2> QED BY <1>2, <2>1, <2>3
<1>5. ASSUME NEW c \in Labels, Form!ChangeCategory(c) PROVE FormInv'
  <2> DEFINE edited == view.edited \cup {"category"}
             categories == view.categories \cup {c}
             tags == {c} \cup ({view.suggestion} \ {Nothing})
             a == [view EXCEPT !.edited = edited, !.category = c, !.categories = categories]
             v == [a EXCEPT !.tags = tags, !.directory = c]
  <2>1. /\ edited \in SUBSET Form!Fields /\ categories \in SUBSET Labels
        /\ tags \in SUBSET (Releases \cup Labels \cup {Mine})
    BY <1>1, FormFields DEF Form!Fields
  <2>2. Form!Becomes([view EXCEPT !.edited = edited, !.category = c, !.categories = categories,
                                  !.tags = tags, !.directory = c]) /\ Form!Stays
    BY <1>5 DEF Form!ChangeCategory
  <2> HIDE DEF edited, categories, tags
  <2>3. Form!Becomes(v)
    BY <2>2
  <2>4. a \in FormViews
    BY <1>1, <2>1 DEF FormViews
  <2> HIDE DEF a
  <2>5. v \in FormViews
    BY <2>1, <2>4 DEF FormViews
  <2> HIDE DEF v
  <2> QED BY <1>2, <2>2, <2>3, <2>5
<1>6. ASSUME NEW w \in Hosts, Form!ChangeWorker(w) PROVE FormInv'
  <2> DEFINE yes == TRUE
             v == [view EXCEPT !.manual = yes, !.worker = w]
  <2>1. Form!Becomes(v) /\ Form!Stays /\ yes \in BOOLEAN
    BY <1>6 DEF Form!ChangeWorker
  <2> HIDE DEF yes
  <2>2. v \in FormViews
    BY <1>1, <2>1 DEF FormViews
  <2> HIDE DEF v
  <2> QED BY <1>2, <2>1, <2>2
<1> QED BY <1>3, <1>4, <1>5, <1>6

\* A release is chosen, and the answers come in.
LEMMA FormChooses == ASSUME FormInv, NEW r \in Releases \cup {Nothing}, Form!ChooseRelease(r) PROVE FormInv'
<1>1. view \in FormViews /\ sent \in 0..Sends.form /\ Sends.form \in Nat
  BY FormSends DEF FormInv
<1> DEFINE w == [view EXCEPT !.release = r]
<1>2. w \in FormViews
  BY <1>1 DEF FormViews
<1>3. Form!Becomes(Form!ClearAutoFilledFields(w)) \/ Form!Becomes(w)
  BY DEF Form!ChooseRelease
<1> HIDE DEF w
<1>4. view' \in FormViews
  BY <1>2, <1>3, FormCleared, FormBecomes
<1> DEFINE q == Request("parse", "tasks", r, Gone, Gone)
           new == IF r = Nothing THEN {} ELSE {q}
<1>5. /\ asked' \subseteq asked \cup new /\ UNCHANGED <<server, shown, dialog, apart>>
      /\ sent' = sent \/ (sent' = sent + 1 /\ sent < Sends.form)
  BY DEF Form!ChooseRelease, Form!Request, Request
<1>6. ASSUME r # Nothing PROVE FormAsks(q, server.tasks)
  <2>1. q.op = "parse" /\ q.on = r
    BY DEF Request
  <2>2. Asks(q)
    BY RequestAsks
  <2> HIDE DEF q
  <2> QED BY <1>6, <2>1, <2>2 DEF FormAsks, FormFits, Naming
<1> HIDE DEF q
<1>7. \A s \in new : FormAsks(s, server.tasks)
  BY <1>6
<1> HIDE DEF new
<1>8. sent' \in 0..Sends.form
  BY <1>1, <1>5
<1>9. shown' \in [pending : SUBSET Releases] /\ dialog' \in {<<>>, <<[is |-> "add"]>>}
  BY <1>5 DEF FormInv
<1> QED BY <1>4, <1>5, <1>7, <1>8, <1>9, FormAsksOn

LEMMA FormHears ==
  ASSUME FormInv, \/ Form!Parsed \/ Form!WorkersLoaded \/ Form!CategoriesLoaded \/ Form!LoadRefused
                  \/ Form!ParseRefused \/ Form!CreateRefused \/ Form!Renamed
  PROVE  FormInv'
<1>1. view \in FormViews /\ shown \in [pending : SUBSET Releases] /\ \A r \in asked : FormAsks(r, server.tasks)
  BY DEF FormInv
<1>2. CASE Form!Parsed
  <2>1. PICK r \in asked : /\ r.op = "parse" /\ Form!Becomes(Form!ApplySuggestion(view, r.on)) /\ Form!Land(r)
                           /\ UNCHANGED <<server, shown, dialog>>
    BY <1>2 DEF Form!Parsed, Form!Answers
  <2>2. r.on \in Releases
    BY <1>1, <2>1 DEF FormAsks, FormFits
  <2>3. view' \in FormViews
    BY <1>1, <2>1, <2>2, FormSuggested, FormBecomes
  <2> QED BY <1>1, <2>1, <2>3, FormLands
<1>3. CASE Form!WorkersLoaded
  <2> DEFINE yes == TRUE
  <2>1. PICK r \in asked : /\ r.op = "load" /\ r.state = "done" /\ r.list = "workers" /\ Form!Land(r)
                           /\ Form!Becomes([view EXCEPT !.workers = r.saw, !.workersLoaded = yes])
                           /\ UNCHANGED <<server, shown, dialog>>
    BY <1>3 DEF Form!WorkersLoaded, Form!Answers
  <2> DEFINE v == [view EXCEPT !.workers = r.saw, !.workersLoaded = yes]
  <2>2. r.saw \in SUBSET Hosts
    BY <1>1, <2>1 DEF FormAsks, FormFits
  <2>3. yes \in BOOLEAN /\ Form!Becomes(v)
    BY <2>1
  <2> HIDE DEF yes
  <2>4. v \in FormViews
    BY <1>1, <2>2, <2>3 DEF FormViews
  <2> HIDE DEF v
  <2>5. view' \in FormViews
    BY <2>3, <2>4, FormBecomes
  <2> QED BY <1>1, <2>1, <2>5, FormLands
<1>4. CASE Form!CategoriesLoaded
  <2> DEFINE v == [view EXCEPT !.categories = Labels]
  <2>1. PICK r \in asked :
          /\ Form!Becomes(IF view.suggestion = Nothing THEN v ELSE Form!ApplySuggestion(v, view.suggestion))
          /\ Form!Land(r) /\ UNCHANGED <<server, shown, dialog>>
    BY <1>4 DEF Form!CategoriesLoaded, Form!Answers
  <2>2. v \in FormViews
    BY <1>1 DEF FormViews
  <2>3. view.suggestion \in Releases \cup {Nothing}
    BY <1>1, FormFields
  <2> HIDE DEF v
  <2>4. view' \in FormViews
    BY <2>1, <2>2, <2>3, FormSuggested, FormBecomes
  <2> QED BY <1>1, <2>1, <2>4, FormLands
<1>5. CASE Form!LoadRefused
  <2> DEFINE yes == TRUE
             none == {}
             v == [view EXCEPT !.workers = none, !.workersLoaded = yes]
  <2>1. PICK r \in asked : /\ view' = view \/ Form!Becomes(v)
                           /\ Form!Land(r) /\ UNCHANGED <<server, shown, dialog>>
    BY <1>5 DEF Form!LoadRefused, Form!Answers
  <2>2. yes \in BOOLEAN /\ none \in SUBSET Hosts
    OBVIOUS
  <2> HIDE DEF yes, none
  <2>3. v \in FormViews
    BY <1>1, <2>2 DEF FormViews
  <2> HIDE DEF v
  <2>4. view' \in FormViews
    BY <1>1, <2>1, <2>3, FormBecomes
  <2> QED BY <1>1, <2>1, <2>4, FormLands
<1>6. CASE Form!ParseRefused \/ Form!Renamed
  <2>1. PICK r \in asked : Form!Land(r) /\ UNCHANGED <<server, shown, dialog, view>>
    BY <1>6 DEF Form!ParseRefused, Form!Refused, Form!Renamed, Form!Answers
  <2> QED BY <1>1, <2>1, FormLands
<1>7. CASE Form!CreateRefused
  <2>1. PICK r \in asked : /\ shown' = [shown EXCEPT !.pending = @ \ {r.on}] /\ Form!Land(r)
                           /\ UNCHANGED <<server, dialog, view>>
    BY <1>7 DEF Form!CreateRefused, Form!Answers
  <2>2. shown' \in [pending : SUBSET Releases]
    BY <1>1, <2>1
  <2> QED BY <1>1, <2>1, <2>2, FormLands
<1> QED BY <1>2, <1>3, <1>4, <1>5, <1>6, <1>7

\* The form is sent.
LEMMA FormSubmits == ASSUME FormInv, Form!HandleSubmit PROVE FormInv'
<1>1. view \in FormViews /\ shown \in [pending : SUBSET Releases] /\ sent \in 0..Sends.form
  BY DEF FormInv
<1> DEFINE to == [name |-> view.displayName, worker |-> view.worker]
           q == Request("create", "tasks", view.release, to, Gone)
           new == {q}
<1>2. /\ asked' \subseteq asked \cup new /\ view' = Form!Blank("magnet") /\ dialog' = <<>>
      /\ shown' = IF view.mode = "magnet" THEN [shown EXCEPT !.pending = @ \cup {view.release}] ELSE shown
      /\ UNCHANGED <<server, apart, sent>>
  BY DEF Form!HandleSubmit, Form!Request, Request, Form!Closed
<1>3. view.release \in Releases /\ view.worker \in Hosts /\ view.displayName \in FormNames
  BY <1>1, FormFields DEF Form!HandleSubmit, Form!Valid
<1>4. to \in FormRecords
  BY <1>3 DEF FormRecords
<1> HIDE DEF to
<1>5. Asks(q) /\ q.op = "create" /\ q.on = view.release /\ q.to = to /\ q.state = "asked"
  BY RequestAsks DEF Request
<1> HIDE DEF q
<1>6. \A r \in new : FormAsks(r, server.tasks)
  BY <1>3, <1>4, <1>5 DEF FormAsks, FormFits, Naming
<1>7. shown' \in [pending : SUBSET Releases]
  BY <1>1, <1>2, <1>3
<1>8. view' \in FormViews
  <2>1. "magnet" \in {"magnet", "file"}
    OBVIOUS
  <2> QED BY <1>2, <2>1, BlankForm
<1> HIDE DEF new
<1> QED BY <1>1, <1>2, <1>6, <1>7, <1>8, FormAsksOn

\* The torrent that was created is renamed, at the second attempt if need be.
LEMMA FormRenames == ASSUME FormInv, Form!Created \/ Form!RenameFailed PROVE FormInv'
<1>1. PICK r \in asked, op \in Naming :
        /\ (r.op = "create" /\ r.state = "done") \/ r.op = "rename"
        /\ asked' \subseteq asked \cup {[r EXCEPT !.op = op, !.state = "asked"]}
        /\ UNCHANGED <<server, shown, dialog, view, apart, sent>>
  <2>1. "rename" \in Naming /\ "rename again" \in Naming
    BY DEF Naming
  <2>2. CASE Form!Created
    BY <2>1, <2>2 DEF Form!Created, Form!Answers
  <2>3. CASE Form!RenameFailed
    BY <2>1, <2>3 DEF Form!RenameFailed, Form!Answers
  <2> QED BY <2>2, <2>3
<1> DEFINE s == [r EXCEPT !.op = op, !.state = "asked"]
           new == {s}
<1>2. FormAsks(r, server.tasks)
  BY DEF FormInv
<1>3. /\ Asks(s) /\ s.op = op /\ s.list = r.list /\ s.on = r.on /\ s.to = r.to
      /\ s.state = "asked" /\ s.saw = r.saw
  BY <1>2, NextAsks DEF FormAsks
<1>4. asked' \subseteq asked \cup new
  BY <1>1
<1> HIDE DEF s
<1>5. FormAsks(s, server.tasks)
  BY <1>1, <1>2, <1>3 DEF FormAsks, FormFits, Naming
<1>6. \A q \in new : FormAsks(q, server.tasks)
  BY <1>5
<1> HIDE DEF new
<1>7. /\ view' \in FormViews /\ UNCHANGED <<server, apart>> /\ shown' \in [pending : SUBSET Releases]
      /\ dialog' \in {<<>>, <<[is |-> "add"]>>} /\ sent' \in 0..Sends.form
  BY <1>1 DEF FormInv
<1> QED BY <1>4, <1>6, <1>7, FormAsksOn

\* The backend answers: a torrent that is there stays there.
LEMMA FormStored ==
  ASSUME FormInv, NEW r \in asked, NEW tasks \in FormTasks, server' = [server EXCEPT !.tasks = tasks],
         \A t \in Releases : server.tasks[t] \in FormRecords => tasks[t] \in FormRecords,
         NEW s, Asks(s), Twin(s, r), asked' = (asked \ {r}) \cup {s},
         s.state = "refused" \/ s.state = "done",
         s.op = "load" /\ s.list = "workers" /\ s.state = "done" => s.saw \in SUBSET Hosts,
         s.op = "create" /\ s.state = "done" => tasks[r.on] \in FormRecords,
         UNCHANGED <<shown, dialog, view, apart, sent>>
  PROVE  FormInv'
<1>1. /\ server \in [tasks : FormTasks, workers : SUBSET Hosts] /\ FormAsks(r, server.tasks)
      /\ \A q \in asked : FormAsks(q, server.tasks)
  BY DEF FormInv
<1>2. server' \in [tasks : FormTasks, workers : SUBSET Hosts] /\ server'.tasks = tasks
  BY <1>1
<1>3. ASSUME NEW q \in asked PROVE FormAsks(q, tasks)
  BY <1>1 DEF FormAsks, FormFits, Naming
<1>4. FormAsks(s, tasks)
  BY <1>3 DEF FormAsks, FormFits, Naming, Twin
<1>5. \A q \in asked' : FormAsks(q, tasks)
  BY <1>3, <1>4
<1> QED BY <1>2, <1>5 DEF FormInv

LEMMA FormAnswered == ASSUME FormInv, Form!Answered PROVE FormInv'
<1> DEFINE saw(r) == CASE r.op = "load" /\ r.list = "workers" -> server.workers
                       [] r.op = "create" -> server.tasks[r.on]
                       [] OTHER -> r.saw
           created(r) == [server EXCEPT !.tasks[r.on] = [name |-> Nothing, worker |-> r.to.worker]]
<1>1. PICK r \in asked :
        /\ \/ /\ asked' = (asked \ {r}) \cup {Ended(r, "done", saw(r))}
              /\ server' = CASE r.op = "create" /\ server.tasks[r.on] = Gone -> created(r)
                             [] r.op \in {"rename", "rename again"} -> Form!Named(r)
                             [] OTHER -> server
           \/ /\ asked' = (asked \ {r}) \cup {Ended(r, "refused", Gone)}
              /\ server' = server
           \/ /\ r.op = "create"
              /\ asked' = (asked \ {r}) \cup {Ended(r, "refused", Gone)}
              /\ server' = created(r)
        /\ UNCHANGED <<shown, dialog, view, apart, sent>>
  BY DEF Form!Answered, Form!Refusal, Ended
<1>2. /\ server \in [tasks : FormTasks, workers : SUBSET Hosts] /\ FormAsks(r, server.tasks) /\ Asks(r)
      /\ server.tasks \in FormTasks /\ server.workers \in SUBSET Hosts
  BY DEF FormInv, FormAsks
<1>3. ASSUME NEW state \in {"done", "refused"}, NEW x
      PROVE  LET s == Ended(r, state, x) IN Asks(s) /\ Twin(s, r) /\ s.state = state /\ s.saw = x
  <2> DEFINE s == Ended(r, state, x)
  <2>1. s = Sent(r.op, r.list, r.on, r.to, state, r.alone, r.heard, x)
    BY <1>2, EndedSent DEF Asks
  <2> HIDE DEF s
  <2>2. /\ s.op = r.op /\ s.list = r.list /\ s.on = r.on /\ s.to = r.to /\ s.state = state /\ s.alone = r.alone
        /\ s.heard = r.heard /\ s.saw = x
        /\ s = Sent(s.op, s.list, s.on, s.to, s.state, s.alone, s.heard, s.saw)
    BY <2>1, SentFields
  <2>3. Asks(s) /\ Twin(s, r) /\ s.state = state /\ s.saw = x
    BY <1>2, <2>2 DEF Asks, Twin
  <2> QED BY <2>3 DEF s
<1>4. PICK s : /\ asked' = (asked \ {r}) \cup {s} /\ Asks(s) /\ Twin(s, r)
               /\ \/ /\ s.state = "done" /\ s.saw = saw(r)
                     /\ server' = CASE r.op = "create" /\ server.tasks[r.on] = Gone -> created(r)
                                    [] r.op \in {"rename", "rename again"} -> Form!Named(r)
                                    [] OTHER -> server
                  \/ s.state = "refused" /\ (server' = server \/ (r.op = "create" /\ server' = created(r)))
  <2> HIDE DEF saw, created
  <2>1. CASE /\ asked' = (asked \ {r}) \cup {Ended(r, "done", saw(r))}
             /\ server' = CASE r.op = "create" /\ server.tasks[r.on] = Gone -> created(r)
                            [] r.op \in {"rename", "rename again"} -> Form!Named(r)
                            [] OTHER -> server
    <3> DEFINE s == Ended(r, "done", saw(r))
    <3>1. Asks(s) /\ Twin(s, r) /\ s.state = "done" /\ s.saw = saw(r)
      BY <1>3
    <3> HIDE DEF s
    <3>2. asked' = (asked \ {r}) \cup {s}
      BY <2>1 DEF s
    <3> QED BY <2>1, <3>1, <3>2
  <2>2. CASE /\ asked' = (asked \ {r}) \cup {Ended(r, "refused", Gone)}
             /\ server' = server \/ (r.op = "create" /\ server' = created(r))
    <3> DEFINE s == Ended(r, "refused", Gone)
    <3>1. Asks(s) /\ Twin(s, r) /\ s.state = "refused"
      BY <1>3
    <3> HIDE DEF s
    <3>2. asked' = (asked \ {r}) \cup {s}
      BY <2>2 DEF s
    <3> QED BY <2>2, <3>1, <3>2
  <2> QED BY <1>1, <2>1, <2>2
<1>5. ASSUME NEW record \in FormRecords, r.on \in Releases
      PROVE  LET tasks == [server.tasks EXCEPT ![r.on] = record] IN
             /\ tasks \in FormTasks /\ tasks[r.on] = record
             /\ \A t \in Releases : server.tasks[t] \in FormRecords => tasks[t] \in FormRecords
  BY <1>2, <1>5 DEF FormTasks
<1>6. PICK tasks \in FormTasks :
        /\ server' = [server EXCEPT !.tasks = tasks]
        /\ \A t \in Releases : server.tasks[t] \in FormRecords => tasks[t] \in FormRecords
        /\ s.op = "create" /\ s.state = "done" => tasks[r.on] \in FormRecords
  <2>1. CASE r.op = "create" /\ server' = created(r)
    <3> DEFINE record == [name |-> Nothing, worker |-> r.to.worker]
               tasks == [server.tasks EXCEPT ![r.on] = record]
    <3>1. record \in FormRecords /\ r.on \in Releases
      BY <1>2, <2>1 DEF FormAsks, FormFits, FormRecords, FormNames
    <3>2. server' = [server EXCEPT !.tasks = tasks]
      BY <2>1
    <3> HIDE DEF record
    <3>3. /\ tasks \in FormTasks /\ tasks[r.on] \in FormRecords
          /\ \A t \in Releases : server.tasks[t] \in FormRecords => tasks[t] \in FormRecords
      BY <1>5, <3>1
    <3> HIDE DEF tasks
    <3> QED BY <3>2, <3>3
  <2>2. CASE r.op \in Naming /\ server' = Form!Named(r)
    <3> DEFINE record == [name |-> r.to.name, worker |-> server.tasks[r.on].worker]
               tasks == [server.tasks EXCEPT ![r.on] = record]
    <3>1. record \in FormRecords /\ r.on \in Releases
      BY <1>2, <2>2 DEF FormAsks, FormFits, FormRecords, Naming
    <3>2. server' = [server EXCEPT !.tasks = tasks]
      BY <2>2 DEF Form!Named
    <3> HIDE DEF record
    <3>3. /\ tasks \in FormTasks /\ tasks[r.on] \in FormRecords
          /\ \A t \in Releases : server.tasks[t] \in FormRecords => tasks[t] \in FormRecords
      BY <1>5, <3>1
    <3> HIDE DEF tasks
    <3> QED BY <3>2, <3>3
  <2>3. CASE server' = server /\ (s.op = "create" /\ s.state = "done" => server.tasks[r.on] # Gone)
    <3>1. server' = [server EXCEPT !.tasks = server.tasks]
      BY <1>2, <2>3
    <3>2. s.op = "create" /\ s.state = "done" => server.tasks[r.on] \in FormRecords
      BY <1>2, <1>4, <2>3 DEF FormAsks, FormFits, FormTasks, Twin
    <3> QED BY <1>2, <3>1, <3>2
  <2>4. \/ r.op = "create" /\ server' = created(r)
        \/ r.op \in Naming /\ server' = Form!Named(r)
        \/ server' = server /\ (s.op = "create" /\ s.state = "done" => server.tasks[r.on] # Gone)
    <3> HIDE DEF created
    <3> QED BY <1>4 DEF Naming, Twin
  <2> QED BY <2>1, <2>2, <2>3, <2>4
<1>7. s.op = "load" /\ s.list = "workers" /\ s.state = "done" => s.saw \in SUBSET Hosts
  BY <1>2, <1>4 DEF Twin
<1>8. s.state = "refused" \/ s.state = "done"
  BY <1>4
<1> HIDE DEF saw, created
<1> QED BY <1>1, <1>4, <1>6, <1>7, <1>8, FormStored

LEMMA FormGoes == ASSUME FormInv, [Form!Next]_pageVars PROVE FormInv'
<1>1. CASE UNCHANGED pageVars
  <2>1. UNCHANGED <<server, shown, asked, dialog, view, apart, sent>>
    BY <1>1 DEF pageVars
  <2> QED BY <2>1 DEF FormInv
<1>2. CASE \E tag \in view.tags \cup {Mine} : Form!EditTags(view.tags \cup {tag}) \/ Form!EditTags(view.tags \ {tag})
  <2>1. PICK tags \in SUBSET (view.tags \cup {Mine}) : Form!EditTags(tags)
    BY <1>2
  <2> QED BY <2>1, FormFilled
<1>3. CASE Form!Reconcile
  <2>1. PICK r \in shown.pending : shown' = [shown EXCEPT !.pending = @ \ {r}]
    BY <1>3 DEF Form!Reconcile
  <2>2. UNCHANGED <<server, asked, dialog, view, apart, sent>>
    BY <1>3 DEF Form!Reconcile
  <2>3. shown' \in [pending : SUBSET Releases]
    BY <2>1 DEF FormInv
  <2> QED BY <2>2, <2>3 DEF FormInv
<1>4. CASE \/ \E mode \in {"magnet", "file"} : Form!OpenAddModal(mode) \/ Form!ChangeMode(mode)
           \/ Form!CloseAddModal
  BY <1>4, FormOpens
<1>5. CASE \/ \E f \in Form!Fields : Form!Edit(f)
           \/ \E c \in Form!Offered : Form!ChangeCategory(c)
           \/ \E w \in Hosts : Form!ChangeWorker(w)
  BY <1>5, FormFilled DEF Form!Offered
<1>6. CASE \/ Form!Parsed \/ Form!WorkersLoaded \/ Form!CategoriesLoaded \/ Form!LoadRefused
           \/ Form!ParseRefused \/ Form!CreateRefused \/ Form!Renamed
  BY <1>6, FormHears
<1> QED BY <1>1, <1>2, <1>3, <1>4, <1>5, <1>6, FormChooses, FormSubmits, FormRenames, FormAnswered DEF Form!Next

FormsHold == page = "form" => FormInv

LEMMA FormsAlways == Spec => []FormsHold
<1>1. ASSUME Init, page = "form" PROVE FormInv
  <2>1. Form!Init
    BY <1>1 DEF Init
  <2>2. server \in [tasks : FormTasks, workers : SUBSET Hosts] /\ shown \in [pending : SUBSET Releases]
    BY <2>1 DEF Form!Init, FormTasks
  <2>3. "magnet" \in {"magnet", "file"}
    OBVIOUS
  <2>4. view \in FormViews
    BY <2>1, <2>3, BlankForm DEF Form!Init
  <2> QED BY <2>1, <2>2, <2>4, FormSends DEF Form!Init, Form!Closed, FormInv
<1>2. ASSUME FormsHold, [Next]_vars PROVE FormsHold'
  <2>1. page' = page /\ (page = "form" => [Form!Next]_pageVars)
    BY <1>2 DEF Next, vars
  <2> QED BY <1>2, <2>1, FormGoes DEF FormsHold
<1>3. Init => FormsHold
  BY <1>1 DEF FormsHold
<1> QED BY <1>2, <1>3, PTL DEF Spec

LEMMA FormPromises == ASSUME FormInv PROVE Form!PageOK /\ Form!TypeOK
<1>1. Form!RequestsOK
  BY AsksOK DEF FormInv, FormAsks, Form!RequestsOK
<1>2. \A i \in DOMAIN dialog : "is" \in DOMAIN dialog[i]
  BY DEF FormInv
<1>3. Form!PageOK
  BY <1>1, <1>2 DEF Form!PageOK, FormInv
<1> QED BY <1>3 DEF Form!TypeOK, FormInv, FormTasks, FormRecords, FormNames, FormViews

-----------------------------------------------------------------------------
(* The rows that grow as the list is scrolled (TorrentsView). *)

ViewHolds == page = "view" => ViewInv

LEMMA ViewAlways == Spec => []ViewHolds
<1>1. Init => ViewHolds
  BY ViewStart DEF Init, ViewHolds
<1>2. ASSUME ViewHolds, [Next]_vars PROVE ViewHolds'
  <2>1. page' = page /\ (page = "view" => [TorrentsView!Next]_pageVars)
    BY <1>2 DEF Next, vars
  <2> QED BY <1>2, <2>1, ViewStep DEF ViewHolds
<1> QED BY <1>1, <1>2, PTL DEF Spec

=============================================================================
