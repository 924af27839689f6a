---------------------------- MODULE TorrentsView ----------------------------
(***************************************************************************)
(* Which of its torrents Torrents.tsx puts in front of its user: the       *)
(* filters of the sidebar, the pages of the table, and the lists that grow *)
(* as their end scrolls into sight (useLazyLoadingObserver.ts, once for    *)
(* each of the two layouts in the document).  The five filters work alike, *)
(* and one stands for them; the order of the rows is left out.             *)
(*                                                                         *)
(* React runs an effect again only when one of its dependencies changed,   *)
(* so an observer keeps the total it was set up with.                      *)
(***************************************************************************)
EXTENDS WebPage

CONSTANTS Torrents, Statuses,
          Matching,     \* the torrents that match the term of the search
          First,        \* rows a growing list starts with
          PerLoad,      \* rows it grows by
          PageSizes

Layouts == {"desktop", "mobile"}
NoObserver == 0

\* view: [loaded, fed; mode: table or cards, narrow: is it a small screen?,
\* search, chosen: statuses, perPage, page, count: rows of the growing list,
\* observes: the total each layout's observer knows]
Init ==
  /\ server = Gone /\ asked = {} /\ dialog = Closed /\ apart = {} /\ sent = 0
  /\ shown = [torrents |-> [t \in Torrents |-> Gone]]
  /\ \E narrow \in BOOLEAN, mode \in {"table", "cards"}, n \in PageSizes :
       view = [loaded |-> FALSE, mode |-> mode, narrow |-> narrow, search |-> FALSE, chosen |-> {},
               perPage |-> n, page |-> 1, count |-> First, observes |-> [l \in Layouts |-> NoObserver]]

Rows(list) == {t \in Torrents : list[t] # Gone}

\* A filter with nothing chosen, or nothing to choose from, lets all pass.
Passing(v, list) == {t \in Rows(list) : /\ v.chosen = {} \/ list[t] \in v.chosen
                                        /\ v.search => t \in Matching}
Total(v, list) == Cardinality(Passing(v, list))

Grows(v) == v.mode = "cards" \/ v.narrow
Enabled(v, l) == IF l = "mobile" THEN v.narrow ELSE v.mode = "cards" /\ ~v.narrow
\* The sentinel at the end of a layout's list.
Sentinel(v, list, l) ==
  /\ v.loaded /\ Rows(list) # {}
  /\ l = "desktop" => v.mode = "cards"
  /\ v.count < Total(v, list)

-----------------------------------------------------------------------------
\* Mistake: the effect runs when its sentinel or what is enabled changes, only.
ObservingSentinel(v, list, old, before, l) ==
  IF /\ Enabled(v, l) = Enabled(old, l)
     /\ Sentinel(v, list, l) = Sentinel(old, before, l)
  THEN old.observes[l]
  ELSE IF Enabled(v, l) /\ Sentinel(v, list, l) THEN Total(v, list) ELSE NoObserver

\* A render and its effects: an observer is set up again if it was enabled or
\* disabled, if its sentinel came or went, or if the total changed.
Observing(v, list, old, before, l) ==
  IF /\ Enabled(v, l) = Enabled(old, l)
     /\ Sentinel(v, list, l) = Sentinel(old, before, l)
     /\ Total(v, list) = Total(old, before)
  THEN old.observes[l]
  ELSE IF Enabled(v, l) /\ Sentinel(v, list, l) THEN Total(v, list) ELSE NoObserver

Render(v, list) ==
  /\ view' = [v EXCEPT !.observes = [l \in Layouts |-> Observing(v, list, view, shown.torrents, l)]]
  /\ shown' = [torrents |-> list]
  /\ UNCHANGED <<server, asked, dialog, apart, sent>>
RenderView(v) == Render(v, shown.torrents)

\* What was searched for, the size of the pages, the order and the layout put
\* the view back to its start; a filter that is chosen does not.
FromTheStart(v) == [v EXCEPT !.page = 1, !.count = First]

Loads == ~view.loaded /\ RenderView([view EXCEPT !.loaded = TRUE])
Feed(t, s) == shown.torrents[t] # s /\ Render(view, [shown.torrents EXCEPT ![t] = s])

\* The controls are disabled until the first load is over.
Search == view.loaded /\ RenderView(FromTheStart([view EXCEPT !.search = ~@]))
Sort == view.loaded /\ RenderView(FromTheStart(view))
ChangeItemsPerPage(n) == view.loaded /\ n # view.perPage /\ RenderView(FromTheStart([view EXCEPT !.perPage = n]))
ChangeDisplayMode(m) == m # view.mode /\ RenderView(FromTheStart([view EXCEPT !.mode = m]))
Resize == RenderView(FromTheStart([view EXCEPT !.narrow = ~@]))

Toggle(s) ==
  view.loaded /\ RenderView([view EXCEPT !.chosen = IF s \in @ THEN @ \ {s} ELSE @ \cup {s}])
SetAll(checked) ==
  view.loaded /\ RenderView([view EXCEPT !.chosen = IF checked THEN {shown.torrents[t] : t \in Rows(shown.torrents)} ELSE {}])

\* The table's pages; past the last of them only "previous" does anything.
TotalPages == (Total(view, shown.torrents) + view.perPage - 1) \div view.perPage
Paged == view.loaded /\ Rows(shown.torrents) # {} /\ ~Grows(view) /\ TotalPages > 1
NextPage == Paged /\ view.page < TotalPages /\ RenderView([view EXCEPT !.page = @ + 1])
PreviousPage == Paged /\ view.page > 1 /\ RenderView([view EXCEPT !.page = @ - 1])

\* The observer, a scroll, or the timer that makes up for both.
LoadMore(l) ==
  /\ view.observes[l] # NoObserver
  /\ LET next == view.count + PerLoad IN
     RenderView([view EXCEPT !.count = IF next < view.observes[l] THEN next ELSE view.observes[l]])

Next ==
  \/ Loads \/ Search \/ Sort \/ Resize \/ NextPage \/ PreviousPage
  \/ \E t \in Torrents, s \in Statuses \cup {Gone} : Feed(t, s)
  \/ \E n \in PageSizes : ChangeItemsPerPage(n)
  \/ \E m \in {"table", "cards"} : ChangeDisplayMode(m)
  \/ \E s \in Statuses : Toggle(s)
  \/ \E checked \in BOOLEAN : SetAll(checked)
  \/ \E l \in Layouts : LoadMore(l)

\* The rows that are put on the screen, and whether the rest can be reached.
OnScreen ==
  LET total == Total(view, shown.torrents)
      least(a, b) == IF a < b THEN a ELSE b
      skipped == (view.page - 1) * view.perPage IN
  IF Grows(view) THEN least(view.count, total)
  ELSE IF skipped >= total THEN 0 ELSE least(view.perPage, total - skipped)

MoreCanBeLoaded ==
  (view.loaded /\ Grows(view) /\ OnScreen < Total(view, shown.torrents)) =>
    view.observes[IF view.narrow THEN "mobile" ELSE "desktop"] = Total(view, shown.torrents)

-----------------------------------------------------------------------------
TypeOK ==
  /\ shown.torrents \in [Torrents -> Statuses \cup {Gone}]
  /\ view \in [loaded : BOOLEAN, mode : {"table", "cards"}, narrow : BOOLEAN, search : BOOLEAN,
               chosen : SUBSET Statuses, perPage : PageSizes, page : Nat, count : Nat, observes : [Layouts -> Nat]]

=============================================================================
