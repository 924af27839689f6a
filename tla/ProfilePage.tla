---------------------------- MODULE ProfilePage ----------------------------
(***************************************************************************)
(* Profile.tsx: the colours of the user's palettes, which are sent half a  *)
(* second after the last change of each and come back with every answer,   *)
(* the password, and the sessions.  The preferences cached by the browser  *)
(* fill the palettes until the backend answers.                            *)
(***************************************************************************)
EXTENDS WebPage

CONSTANTS Colors, Cached

Values == {"plain", "picked"}
Forms == {"blank", "short", "typed"}

Init ==
  /\ server = [palettes |-> [c \in Colors |-> "plain"], sessions |-> "some"]
  /\ shown = [palettes |-> Cached, sessions |-> Gone]
  /\ view = [isLoading |-> TRUE, saving |-> FALSE, timers |-> [c \in Colors |-> Gone],
             password |-> "blank", changing |-> FALSE, told |-> "nothing", leaving |-> FALSE]
  /\ asked = {Request("load", "palettes", Gone, Gone, Gone), Request("load", "sessions", Gone, Gone, Gone)}
  /\ dialog = Closed /\ apart = DOMAIN shown /\ sent = 0

-----------------------------------------------------------------------------
SessionsLoaded == Loaded("sessions", "isLoading")

PreferencesLoaded ==
  /\ \E r \in Answers("load", "done") \cup Answers("load", "refused") :
       /\ r.list = "palettes" /\ Land(r)
       /\ shown' = IF r.state = "done" THEN [shown EXCEPT !.palettes = r.saw] ELSE shown
  /\ UNCHANGED <<server, dialog, view>>

\* A colour shows at once and starts its timer again.
UpdateColorDebounced(c) ==
  /\ ~view.saving /\ \E value \in Values :
       /\ shown' = [shown EXCEPT !.palettes[c] = value]
       /\ view' = [view EXCEPT !.timers[c] = value]
  /\ apart' = apart \cup {"palettes"}
  /\ UNCHANGED <<server, asked, dialog, sent>>

\* The timer of a colour sends it, were another colour under way or not.
UpdatePreference(c) ==
  /\ view.timers[c] # Gone
  /\ Ask("preference", "palettes", c, view.timers[c])
  /\ view' = [view EXCEPT !.timers[c] = Gone, !.saving = TRUE]
  /\ UNCHANGED <<server, shown, dialog>>

\* The answer brings all colours; a refusal is not looked at.
PreferenceUpdated ==
  /\ \E r \in Answers("preference", "done") \cup Answers("preference", "refused") :
       /\ asked' = asked \ {r}
       /\ shown' = IF r.state = "done" THEN [shown EXCEPT !.palettes = r.saw] ELSE shown
       /\ apart' = IF r.state = "done" /\ r.alone THEN apart \ {"palettes"} ELSE apart
  /\ view' = [view EXCEPT !.saving = FALSE]
  /\ UNCHANGED <<server, dialog, sent>>

-----------------------------------------------------------------------------
TypePassword ==
  /\ \E form \in Forms : view' = [view EXCEPT !.password = form]
  /\ UNCHANGED <<server, shown, asked, dialog, apart, sent>>

\* Eight characters, twice the same: only a form that holds is sent.
HandlePasswordChange ==
  /\ ~view.changing /\ view.password # "blank"
  /\ IF view.password = "short"
     THEN view' = [view EXCEPT !.told = "error"] /\ UNCHANGED <<asked, apart, sent>>
     ELSE /\ Ask("password", "none", Gone, Gone)
          /\ view' = [view EXCEPT !.changing = TRUE, !.told = "nothing"]
  /\ UNCHANGED <<server, shown, dialog>>

\* request() does not throw, so a refused change says nothing at all.
PasswordChanged ==
  /\ \E r \in Answers("password", "done") \cup Answers("password", "refused") :
       /\ view' = IF r.state = "done" THEN [view EXCEPT !.changing = FALSE, !.told = "success", !.password = "blank"]
                  ELSE [view EXCEPT !.changing = FALSE]
       /\ Land(r)
  /\ UNCHANGED <<server, shown, dialog>>

\* Every session is ended and then, whatever came of it, this one.
HandleLogoutAll ==
  /\ Ask("logout", "sessions", Gone, Gone)
  /\ UNCHANGED <<server, shown, dialog, view>>

LoggedOutAll ==
  /\ \E r \in Answers("logout", "done") \cup Answers("logout", "refused") : Land(r)
  /\ view' = [view EXCEPT !.leaving = TRUE]
  /\ UNCHANGED <<server, shown, dialog>>

Effect(r) == CASE r.op = "preference" -> [server EXCEPT !.palettes[r.on] = r.to]
               [] r.op = "logout" -> [server EXCEPT !.sessions = "none"]
               [] OTHER -> server
Accepts(r) == TRUE

Next ==
  \/ Serve(Effect, Accepts)
  \/ ~view.leaving /\
     \/ SessionsLoaded \/ PreferencesLoaded
     \/ \E c \in Colors : UpdateColorDebounced(c) \/ UpdatePreference(c)
     \/ PreferenceUpdated \/ TypePassword \/ HandlePasswordChange \/ PasswordChanged
     \/ HandleLogoutAll \/ LoggedOutAll

-----------------------------------------------------------------------------
TypeOK ==
  /\ server.palettes \in [Colors -> Values] /\ shown.palettes \in [Colors -> Values]
  /\ view \in [isLoading : BOOLEAN, saving : BOOLEAN, timers : [Colors -> Values \cup {Gone}],
               password : Forms, changing : BOOLEAN, told : {"nothing", "error", "success"}, leaving : BOOLEAN]

ListsShowServer == (\A c \in Colors : view.timers[c] = Gone) => ShowsServer({"palettes"})
SpinnersHaveRequests ==
  /\ view.isLoading => Waiting("load")
  /\ view.saving => Waiting("preference")
  /\ view.changing => Waiting("password")
Work == <<dialog, view.password, view.timers>>

=============================================================================
