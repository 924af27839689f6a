----------------------------- MODULE AppSession -----------------------------
(***************************************************************************)
(* Who the web client takes its user for, and which page it puts up: the   *)
(* contexts of the session and of the set-up (AuthContext, SetupContext),  *)
(* the pages outside of the session (Login, InitialSetup, Signup,          *)
(* InviteAccept, ResetPassword), the guard of the others (ProtectedRoute), *)
(* and the chunks their code arrives in (App.tsx).  A reload of the tab,   *)
(* the user's or the service worker's, forgets everything but what is in   *)
(* the browser's storage: the preferences and the mark of a chunk reload.  *)
(***************************************************************************)
EXTENDS WebPage

CONSTANTS Accounts, Admins, Nobody

Guarded == {"home", "settings"}
Forms == {"setup", "signup"}     \* signup stands for an invitation and a password reset too
Paths == Guarded \cup Forms \cup {"login"}

\* server: [session: whose cookie it is, ready: is there an account?]
\* view: [path, loading: who is it?, form: "checking" whether there is an account,
\* "open" or "closed", busy: the form is sent, chunk: of each guarded page, stale: was a build deployed since
\* the tab was loaded?, marked: in sessionStorage, forced: reloads since a chunk
\* arrived (history)]
NoChunks == [p \in Guarded |-> "none"]
WhoAmI == Request("load", "session", Gone, "me", Gone)
\* A request belongs to the page that is in "to", until that page is left.
NeedsSetup(p) == Request("load", "ready", p, p, Gone)
Checks(p) == IF p \in {"login", "setup", "signup"} THEN {NeedsSetup(p)} ELSE {}

FormOf(p) == IF p \in {"login", "setup"} THEN "checking" ELSE "open"

Init ==
  /\ \E who \in Accounts \cup {Nobody}, ready \in BOOLEAN, p \in Paths :
       /\ who # Nobody => ready
       /\ server = [session |-> who, ready |-> ready]
       /\ asked = {WhoAmI} \cup Checks(p)
       /\ view = [path |-> p, loading |-> TRUE, form |-> FormOf(p), busy |-> FALSE,
                  chunk |-> NoChunks, stale |-> FALSE, marked |-> FALSE, forced |-> 0]
  /\ shown = [user |-> Nobody, prefs |-> Nobody]
  /\ dialog = Closed /\ sent = 0 /\ apart = {}

-----------------------------------------------------------------------------
\* A page is left and another one mounted: answers to the one that was left find
\* no state to change, and may still navigate.
Mount(v, p) == [v EXCEPT !.path = p, !.form = FormOf(p), !.busy = FALSE]
Mounting(others, p) ==
  {[r EXCEPT !.to = IF r.list = "ready" \/ r.op = "login" THEN Gone ELSE @] : r \in others} \cup Checks(p)

\* The redirects that follow from who the user is: ProtectedRoute, Login.
Where(p, user, loading) ==
  CASE p \in Guarded /\ ~loading /\ user = Nobody -> "login"
    [] p = "settings" /\ ~loading /\ user \notin Admins -> "home"
    [] p = "login" /\ user # Nobody -> "home"
    [] OTHER -> p

Go(v, user, others) ==
  LET p == Where(v.path, user, v.loading) IN
  IF p = v.path THEN view' = v /\ asked' = others
  ELSE view' = Mount(v, p) /\ asked' = Mounting(others, p)

Navigate(p) ==
  /\ p # view.path /\ sent < MaxSent
  /\ Where(p, shown.user, view.loading) = p
  /\ view' = Mount(view, p)
  /\ asked' = Mounting(asked, p)
  /\ sent' = sent + 1
  /\ UNCHANGED <<server, shown, dialog, apart>>

\* The tab is loaded again; the answers under way have nobody to go to.
Fresh(v) ==
  [v EXCEPT !.loading = TRUE, !.form = FormOf(v.path), !.busy = FALSE,
            !.chunk = NoChunks, !.stale = FALSE]
Reload ==
  /\ sent < MaxSent
  /\ view' = Fresh(view)
  /\ shown' = [shown EXCEPT !.user = Nobody]
  /\ asked' = {WhoAmI} \cup Checks(view.path)
  /\ sent' = sent + 1
  /\ UNCHANGED <<server, dialog, apart>>

-----------------------------------------------------------------------------
\* A guarded page that is shown needs its chunk: it comes at the first attempt,
\* at the second, or not at all.
Needed == view.path \in Guarded /\ ~view.loading /\ view.chunk[view.path] = "none"

ChunkArrives ==
  /\ Needed /\ ~view.stale
  /\ \E second \in BOOLEAN :
       view' = [view EXCEPT !.chunk[view.path] = "here", !.forced = 0,
                            !.marked = IF second THEN @ ELSE FALSE]
  /\ UNCHANGED <<server, shown, asked, dialog, apart, sent>>

\* Mistake: nothing keeps the mark.
ChunkFailsUnmarked ==
  /\ Needed
  /\ view.forced < 3
  /\ view' = [Fresh(view) EXCEPT !.forced = @ + 1]
  /\ shown' = [shown EXCEPT !.user = Nobody]
  /\ asked' = {WhoAmI} \cup Checks(view.path)
  /\ UNCHANGED <<server, dialog, apart, sent>>

ChunkFails ==
  /\ Needed
  /\ IF view.marked
     THEN /\ view' = [view EXCEPT !.chunk[view.path] = "failed"]
          /\ UNCHANGED <<shown, asked>>
     ELSE /\ view' = [Fresh(view) EXCEPT !.marked = TRUE, !.forced = @ + 1]
          /\ shown' = [shown EXCEPT !.user = Nobody]
          /\ asked' = {WhoAmI} \cup Checks(view.path)
  /\ UNCHANGED <<server, dialog, apart, sent>>

Deploy ==
  /\ ~view.stale
  /\ view' = [view EXCEPT !.stale = TRUE]
  /\ UNCHANGED <<server, shown, asked, dialog, apart, sent>>

-----------------------------------------------------------------------------
\* checkAuth: who the cookie stands for, then that user's preferences.
Preferences(of) == Request("load", "session", Gone, of, Gone)

WhoAnswered ==
  /\ \E r \in asked :
       /\ r.to = "me" /\ r.state # "asked"
       /\ IF r.state = "done"
          THEN /\ shown' = [shown EXCEPT !.user = r.saw.session]
               /\ Go(view, r.saw.session, (asked \ {r}) \cup {Preferences("mine")})
          ELSE /\ shown' = [user |-> Nobody, prefs |-> Nobody]
               /\ Go([view EXCEPT !.loading = FALSE], Nobody, asked \ {r})
  /\ UNCHANGED <<server, dialog, apart, sent>>

PreferencesAnswered ==
  /\ \E r \in asked :
       /\ r.to = "mine" /\ r.state # "asked"
       /\ shown' = IF r.state = "done" THEN [shown EXCEPT !.prefs = r.saw.session] ELSE shown
       /\ Go([view EXCEPT !.loading = FALSE], shown.user, asked \ {r})
  /\ UNCHANGED <<server, dialog, apart, sent>>

\* Is there an account?  Without one, everybody goes to /setup; with one, who is
\* there goes to the login, after a delay that nothing cancels.
Delay == [Request("leave", "ready", Gone, Gone, Gone) EXCEPT !.state = "done"]

SetupChecked ==
  /\ \E r \in asked :
       LET mine == r.to = view.path
           others == asked \ {r} IN
       /\ r.op = "load" /\ r.list = "ready" /\ r.state # "asked"
       /\ IF r.state = "done" /\ ~r.saw.ready /\ r.on # "setup" /\ view.path # "setup"
          THEN /\ view' = Mount(view, "setup")
               /\ asked' = Mounting(others, "setup")
          ELSE /\ view' = CASE mine /\ r.on = "setup" ->
                                [view EXCEPT !.form = IF r.state = "done" /\ ~r.saw.ready THEN "open" ELSE "closed"]
                           [] mine /\ r.on # "setup" -> [view EXCEPT !.form = "open"]
                           [] OTHER -> view
               /\ asked' = IF r.on = "setup" /\ r.state = "done" /\ r.saw.ready THEN others \cup {Delay} ELSE others
  /\ UNCHANGED <<server, shown, dialog, apart, sent>>

-----------------------------------------------------------------------------
\* The form of Login: its button is disabled while an answer is awaited.
Login(a) ==
  /\ view.path = "login" /\ view.form = "open" /\ ~view.busy
  /\ Ask("login", "session", a, "login")
  /\ view' = [view EXCEPT !.busy = TRUE]
  /\ UNCHANGED <<server, shown, dialog>>

LoggedIn ==
  /\ \E r \in Answers("login", "done") :
       /\ shown' = [shown EXCEPT !.user = r.on]
       /\ Go(view, r.on, (asked \ {r}) \cup {Preferences("theirs")})
  /\ UNCHANGED <<server, dialog, apart, sent>>

LoginRefused ==
  /\ \E r \in Answers("login", "refused") :
       /\ view' = IF r.to = view.path THEN [view EXCEPT !.busy = FALSE] ELSE view
       /\ Land(r)
  /\ UNCHANGED <<server, shown, dialog>>

\* The preferences are awaited before login() returns, and then its form, long
\* gone, sends the user home.
LoginReturns ==
  /\ \E r \in asked :
       /\ r.to = "theirs" /\ r.state # "asked"
       /\ shown' = IF r.state = "done" THEN [shown EXCEPT !.prefs = r.saw.session] ELSE shown
       /\ IF view.path = "home" THEN Go(view, shown.user, asked \ {r})
          ELSE Go(Mount(view, "home"), shown.user, Mounting(asked \ {r}, "home"))
  /\ UNCHANGED <<server, dialog, apart, sent>>

\* Whatever the backend answers, the page forgets its user.
Logout ==
  /\ shown.user # Nobody /\ view.path \in Guarded /\ ~view.loading
  /\ Ask("logout", "session", Gone, Gone)
  /\ UNCHANGED <<server, shown, dialog, view>>

LoggedOut ==
  /\ \E r \in Answers("logout", "done") \cup Answers("logout", "refused") :
       /\ shown' = [user |-> Nobody, prefs |-> Nobody]
       /\ Go(view, Nobody, asked \ {r})
  /\ UNCHANGED <<server, dialog, apart, sent>>

-----------------------------------------------------------------------------
\* The first account, or one more: a good answer leads, after a delay that
\* nothing cancels, to the login.
Submit ==
  /\ view.path \in Forms /\ view.form = "open" /\ ~view.busy
  /\ Ask("register", "ready", view.path, view.path)
  /\ view' = [view EXCEPT !.busy = TRUE]
  /\ UNCHANGED <<server, shown, dialog>>

Registered ==
  /\ \E r \in Answers("register", "done") \cup Answers("register", "refused") :
       /\ asked' = (asked \ {r}) \cup (IF r.state = "done" THEN {Delay} ELSE {})
       /\ view' = IF r.to = view.path THEN [view EXCEPT !.busy = FALSE] ELSE view
  /\ UNCHANGED <<server, shown, dialog, apart, sent>>

DelayIsOver ==
  /\ \E r \in Answers("leave", "done") :
       IF view.path = "login" THEN Go(view, shown.user, asked \ {r})
       ELSE Go(Mount(view, "login"), shown.user, Mounting(asked \ {r}, "login"))
  /\ UNCHANGED <<server, shown, dialog, apart, sent>>

-----------------------------------------------------------------------------
Expire ==
  /\ server.session # Nobody
  /\ server' = [server EXCEPT !.session = Nobody]
  /\ UNCHANGED <<shown, asked, dialog, view, apart, sent>>

Effect(r) ==
  CASE r.op = "login" -> [server EXCEPT !.session = r.on]
    [] r.op = "logout" -> [server EXCEPT !.session = Nobody]
    [] r.op = "register" -> [server EXCEPT !.ready = TRUE]
    [] OTHER -> server
Accepts(r) ==
  CASE r.list = "session" /\ r.op # "login" -> server.session # Nobody
    [] r.op = "login" -> server.ready
    [] r.op = "register" -> server.ready = (r.on = "signup")
    [] OTHER -> TRUE

\* A load answers with all of server; which part matters its handler knows.
Told(r) == [Answer(r) EXCEPT !.saw = IF r.op = "load" THEN server ELSE @]
Answered ==
  /\ \E r \in asked :
       /\ r.state = "asked"
       /\ \/ Accepts(r) /\ server' = Effect(r) /\ asked' = (asked \ {r}) \cup {Told(r)}
          \/ asked' = (asked \ {r}) \cup {Refusal(r)} /\ UNCHANGED server
          \/ /\ Accepts(r) /\ Effect(r) # server
             /\ server' = Effect(r)
             /\ asked' = (asked \ {r}) \cup {Refusal(r)}
  /\ UNCHANGED <<shown, dialog, view, apart, sent>>

Next ==
  \/ Reload \/ ChunkArrives \/ ChunkFails \/ Deploy \/ Expire
  \/ \E p \in Paths : Navigate(p)
  \/ WhoAnswered \/ PreferencesAnswered \/ SetupChecked
  \/ \E a \in Accounts : Login(a)
  \/ LoggedIn \/ LoginRefused \/ LoginReturns \/ Logout \/ LoggedOut
  \/ Submit \/ Registered \/ DelayIsOver
  \/ Answered

-----------------------------------------------------------------------------
TypeOK ==
  /\ server \in [session : Accounts \cup {Nobody}, ready : BOOLEAN]
  /\ shown \in [user : Accounts \cup {Nobody}, prefs : Accounts \cup {Nobody}]
  /\ view \in [path : Paths, loading : BOOLEAN, form : {"checking", "open", "closed"}, busy : BOOLEAN,
               chunk : [Guarded -> {"none", "here", "failed"}], stale : BOOLEAN, marked : BOOLEAN, forced : Nat]

SpinnersHaveRequests ==
  /\ view.loading => \E r \in asked : r.to \in {"me", "mine"}
  /\ view.form = "checking" => \E r \in asked : r.list = "ready" /\ r.to = view.path
  /\ view.busy => \E r \in asked : r.op \in {"login", "register"} /\ r.to = view.path

\* One forced reload for one missing chunk.
NoReloadLoop == view.forced <= 1

=============================================================================
