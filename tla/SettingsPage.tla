---------------------------- MODULE SettingsPage ----------------------------
(***************************************************************************)
(* Settings.tsx: the language and the timezone of the whole system, and    *)
(* the images the backend keeps for each worker and for none.  The page    *)
(* asks for everything at once when it mounts, and for the settings again  *)
(* whenever the language of the client changes.                            *)
(***************************************************************************)
EXTENDS WebPage

CONSTANTS Workers

Settings == {"language", "timezone"}
Values == {"plain", "other"}
Owners == Workers \cup {"orphans"}

\* view: what is chosen but not saved (a timezone may be missing), the
\* language the client speaks, and the spinners.
SettingsLoads == {Request("setting", "settings", s, Gone, Gone) : s \in Settings}

Init ==
  /\ \E settings \in [Settings -> Values] :
       server = [settings |-> settings, images |-> [o \in Owners |-> "some"]]
  /\ shown = [settings |-> [language |-> "plain", timezone |-> Gone], images |-> Gone]
  /\ view = [chosen |-> shown.settings, speaks |-> "plain", loading |-> TRUE, saving |-> FALSE,
             statsLoading |-> TRUE, deleting |-> FALSE]
  /\ asked = SettingsLoads \cup {Request("load", "images", Gone, Gone, Gone)}
  /\ dialog = Closed /\ apart = DOMAIN shown /\ sent = 0

-----------------------------------------------------------------------------
\* The three answers are taken together; one that failed changes nothing.
\* A language that is news to the client asks for everything once more.
SettingsLoaded ==
  /\ \E loads \in SUBSET {r \in asked : r.op = "setting"} :
       /\ {r.on : r \in loads} = Settings /\ Cardinality(loads) = 2
       /\ \A r \in loads : r.state # "asked"
       /\ LET good == {r.on : r \in {q \in loads : q.state = "done"}}
              answer(s) == (CHOOSE r \in loads : r.on = s).saw[s]
              language == IF "language" \in good THEN answer("language") ELSE view.speaks
              again == language # view.speaks
          IN /\ shown' = [shown EXCEPT !.settings = [s \in Settings |-> IF s \in good THEN answer(s) ELSE @[s]]]
             /\ view' = [view EXCEPT !.loading = again, !.speaks = language,
                           !.chosen = [s \in Settings |-> IF s \in good THEN answer(s) ELSE @[s]]]
             /\ asked' = (asked \ loads) \cup (IF again THEN SettingsLoads ELSE {})
             /\ apart' = IF good = Settings /\ asked = loads THEN apart \ {"settings"} ELSE apart
  /\ UNCHANGED <<server, dialog, sent>>

Ready == ~view.loading

Choose(s) ==
  /\ Ready /\ dialog = Closed
  /\ \E value \in Values : view' = [view EXCEPT !.chosen[s] = value]
  /\ UNCHANGED <<server, shown, asked, dialog, apart, sent>>

\* handleSaveTimezone and handleSaveLanguage share a spinner and each other's
\* disabled buttons.
HandleSave(s) ==
  /\ Ready /\ dialog = Closed /\ ~view.saving
  /\ view.chosen[s] \notin {shown.settings[s], Gone}
  /\ Ask("save", "settings", s, view.chosen[s])
  /\ view' = [view EXCEPT !.saving = TRUE]
  /\ UNCHANGED <<server, shown, dialog>>

SettingSaved ==
  /\ \E r \in Answers("save", "done") :
       LET again == r.on = "language" /\ r.to # view.speaks IN
       /\ shown' = [shown EXCEPT !.settings[r.on] = r.to]
       /\ view' = [view EXCEPT !.saving = FALSE, !.loading = again,
                               !.speaks = IF r.on = "language" THEN r.to ELSE @]
       /\ asked' = (asked \ {r}) \cup (IF again THEN SettingsLoads ELSE {})
       /\ apart' = IF again THEN apart \cup {"settings"} ELSE apart
  /\ UNCHANGED <<server, dialog, sent>>

SaveRefused ==
  /\ \E r \in Answers("save", "refused") : Land(r)
  /\ view' = [view EXCEPT !.saving = FALSE]
  /\ UNCHANGED <<server, shown, dialog>>

-----------------------------------------------------------------------------
LoadImageStats == Ready /\ dialog = Closed /\ ~view.statsLoading /\ Load("images", "statsLoading")
StatsLoaded == Loaded("images", "statsLoading")

OpenDeleteDialog(owner) ==
  /\ Ready /\ dialog = Closed /\ ~view.deleting
  /\ shown.images # Gone /\ shown.images[owner] = "some"
  /\ dialog' = Over(Dialog("delete", owner))
  /\ UNCHANGED <<server, shown, asked, view, apart, sent>>

CloseDialog ==
  /\ Ready /\ Top.is = "delete" /\ ~view.deleting
  /\ dialog' = CloseTop
  /\ UNCHANGED <<server, shown, asked, view, apart, sent>>

HandleDeleteConfirm ==
  /\ Ready /\ Top.is = "delete" /\ ~view.deleting
  /\ Ask("delete", "images", Top.on, "none")
  /\ view' = [view EXCEPT !.deleting = TRUE]
  /\ UNCHANGED <<server, shown, dialog>>

ImagesDeleted ==
  /\ \E r \in Answers("delete", "done") :
       asked' = Add(asked \ {r}, Request("load", "images", Gone, Gone, Gone))
  /\ apart' = apart \cup {"images"}
  /\ view' = [view EXCEPT !.deleting = FALSE, !.statsLoading = TRUE]
  /\ dialog' = Closed
  /\ UNCHANGED <<server, shown, sent>>

DeleteRefused ==
  /\ \E r \in Answers("delete", "refused") : Land(r)
  /\ view' = [view EXCEPT !.deleting = FALSE]
  /\ UNCHANGED <<server, shown, dialog>>

-----------------------------------------------------------------------------
Effect(r) == IF r.op \in {"save", "delete"} THEN [server EXCEPT ![r.list][r.on] = r.to] ELSE server
Accepts(r) == TRUE

Next ==
  \/ SettingsLoaded \/ \E s \in Settings : Choose(s) \/ HandleSave(s)
  \/ SettingSaved \/ SaveRefused
  \/ LoadImageStats \/ StatsLoaded \/ \E owner \in Owners : OpenDeleteDialog(owner)
  \/ CloseDialog \/ HandleDeleteConfirm \/ ImagesDeleted \/ DeleteRefused
  \/ Serve(Effect, Accepts)

-----------------------------------------------------------------------------
TypeOK ==
  /\ server.settings \in [Settings -> Values] /\ server.images \in [Owners -> {"some", "none"}]
  /\ shown.settings \in [Settings -> Values \cup {Gone}]
  /\ shown.images \in [Owners -> {"some", "none"}] \cup {Gone}
  /\ view \in [chosen : [Settings -> Values \cup {Gone}], speaks : Values, loading : BOOLEAN, saving : BOOLEAN,
               statsLoading : BOOLEAN, deleting : BOOLEAN]

ListsShowServer == ShowsServer(DOMAIN shown)
SpinnersHaveRequests ==
  /\ view.loading => Waiting("setting")
  /\ view.saving => Waiting("save")
  /\ view.deleting => Waiting("delete")
  /\ view.statsLoading => Waiting("load")
Work == <<dialog, view.chosen>>

=============================================================================
