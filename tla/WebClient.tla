----------------------------- MODULE WebClient ------------------------------
(***************************************************************************)
(* The pages of the web client, each on its own: a behaviour is that of    *)
(* the one page it starts with.  Each page has lists of its own and a      *)
(* bound of its own on the requests it sends.                              *)
(***************************************************************************)
EXTENDS WebPage

CONSTANTS ManyAsked,                         \* MaxAsked of the pages that mount with several requests
          Sends,                             \* MaxSent of each page
          Nobody, Nothing, Mine,
          Accounts, Admins, Links,           \* UsersPage, AppSession
          Tags, Alike,                       \* TagsPage
          Categories, Workers,               \* CategoriesPage, WorkersPage
          Hosted,                            \* TorrentsPage: torrents on their workers
          Torrents, Statuses, Matching,      \* TorrentsView
          FirstRows, PerLoad, PageSizes,
          Releases, Guess, Vague, Prefers,   \* AddTorrentForm
          Files, Urls, Peers,                \* TorrentTabs
          Labels, Hosts,                     \* categories and workers that a form offers
          Selected, MaxLimit,                \* TorrentLimits
          Schedules, MaxSchedules, MaxLogs,  \* WorkerTabs
          Watched, Lanes,                    \* WorkerOverviews
          Swatches, Cached                   \* ProfilePage

VARIABLE page

UsersPage == INSTANCE UsersPage WITH MaxSent <- Sends.users, Users <- Accounts, Founders <- Admins
TagsPage == INSTANCE TagsPage WITH MaxSent <- Sends.tags
CategoriesPage == INSTANCE CategoriesPage WITH MaxSent <- Sends.categories, Workers <- Hosts, NoWorker <- Nobody
WorkersPage == INSTANCE WorkersPage WITH MaxSent <- Sends.workers
TorrentsPage == INSTANCE TorrentsPage WITH MaxSent <- Sends.torrents, Torrents <- Hosted
TorrentsView == INSTANCE TorrentsView WITH First <- FirstRows
Session == INSTANCE AppSession WITH MaxAsked <- ManyAsked, MaxSent <- Sends.session
Form == INSTANCE AddTorrentForm WITH MaxSent <- Sends.form, Categories <- Labels, Workers <- Hosts, Fits <- Guess
Tabs == INSTANCE TorrentTabs WITH MaxSent <- Sends.tabs
Editing == INSTANCE TorrentEditing WITH MaxSent <- Sends.editing, Categories <- Labels
Limits == INSTANCE TorrentLimits WITH MaxSent <- Sends.limits, Torrents <- Selected
Worker == INSTANCE WorkerTabs WITH MaxSent <- Sends.worker
Overviews == INSTANCE WorkerOverviews WITH MaxSent <- Sends.overviews, Workers <- Watched
SettingsPage == INSTANCE SettingsPage WITH MaxAsked <- ManyAsked, MaxSent <- Sends.settings, Workers <- Hosts
Profile == INSTANCE ProfilePage WITH MaxAsked <- ManyAsked, MaxSent <- Sends.profile, Colors <- Swatches

\* Nobody has no account; Gone is nothing a user could name; there are finitely
\* many torrents and workers, and a growing list starts with, and grows by, so many rows;
\* at least one request for an overview runs at a time; the browser caches colours;
\* a worker starts with all schedules but one, which it can hold, and a line of log.
ASSUME ClientAssumption ==
  /\ Nobody \notin Accounts
  /\ Gone \notin Session!Paths \cup {"me", "mine", "theirs"} \cup Tabs!Priorities \cup TorrentsPage!States
           \cup WorkersPage!Forms
  /\ IsFiniteSet(Torrents) /\ FirstRows \in Nat /\ PerLoad \in Nat
  /\ IsFiniteSet(Watched) /\ Lanes \in Nat \ {0} /\ Cached \in [Swatches -> Profile!Values]
  /\ Gone \notin [Worker!Forms -> Worker!Rests]
  /\ IsFiniteSet(Schedules) /\ MaxSchedules \in Nat /\ Cardinality(Schedules) \in 1..(MaxSchedules + 1)
  /\ MaxLogs \in Nat \ {0} /\ MaxLimit \in Nat \ {0}
  /\ Sends \in [{"users", "tags", "categories", "workers", "torrents", "session", "form", "tabs",
                "editing", "limits", "worker", "overviews", "settings", "profile"} -> Nat]

-----------------------------------------------------------------------------
vars == <<pageVars, page>>

Init ==
  \/ page = "users" /\ UsersPage!Init
  \/ page = "tags" /\ TagsPage!Init
  \/ page = "categories" /\ CategoriesPage!Init
  \/ page = "workers" /\ WorkersPage!Init
  \/ page = "torrents" /\ TorrentsPage!Init
  \/ page = "view" /\ TorrentsView!Init
  \/ page = "session" /\ Session!Init
  \/ page = "form" /\ Form!Init
  \/ page = "tabs" /\ Tabs!Init
  \/ page = "editing" /\ Editing!Init
  \/ page = "limits" /\ Limits!Init
  \/ page = "worker" /\ Worker!Init
  \/ page = "overviews" /\ Overviews!Init
  \/ page = "settings" /\ SettingsPage!Init
  \/ page = "profile" /\ Profile!Init

Next ==
  \/ page = "users" /\ UsersPage!Next /\ UNCHANGED page
  \/ page = "tags" /\ TagsPage!Next /\ UNCHANGED page
  \/ page = "categories" /\ CategoriesPage!Next /\ UNCHANGED page
  \/ page = "workers" /\ WorkersPage!Next /\ UNCHANGED page
  \/ page = "torrents" /\ TorrentsPage!Next /\ UNCHANGED page
  \/ page = "view" /\ TorrentsView!Next /\ UNCHANGED page
  \/ page = "session" /\ Session!Next /\ UNCHANGED page
  \/ page = "form" /\ Form!Next /\ UNCHANGED page
  \/ page = "tabs" /\ Tabs!Next /\ UNCHANGED page
  \/ page = "editing" /\ Editing!Next /\ UNCHANGED page
  \/ page = "limits" /\ Limits!Next /\ UNCHANGED page
  \/ page = "worker" /\ Worker!Next /\ UNCHANGED page
  \/ page = "overviews" /\ Overviews!Next /\ UNCHANGED page
  \/ page = "settings" /\ SettingsPage!Next /\ UNCHANGED page
  \/ page = "profile" /\ Profile!Next /\ UNCHANGED page

Spec == Init /\ [][Next]_vars

-----------------------------------------------------------------------------
\* Every page keeps its lists, its forms and its requests in order: what a
\* handler takes from an answer is what the answer can hold (lib/api.ts: a
\* refused request brings no data).
TypeOK ==
  CASE page = "users" -> UsersPage!PageOK /\ UsersPage!TypeOK
    [] page = "tags" -> TagsPage!RequestsOK /\ TagsPage!TypeOK
    [] page = "categories" -> CategoriesPage!PageOK /\ CategoriesPage!TypeOK
    [] page = "workers" -> WorkersPage!PageOK /\ WorkersPage!TypeOK
    [] page = "torrents" -> TorrentsPage!PageOK /\ TorrentsPage!TypeOK
    [] page = "view" -> TorrentsView!TypeOK
    [] page = "session" -> Session!PageOK /\ Session!TypeOK
    [] page = "form" -> Form!PageOK /\ Form!TypeOK
    [] page = "tabs" -> Tabs!PageOK /\ Tabs!TypeOK
    [] page = "editing" -> Editing!PageOK /\ Editing!TypeOK
    [] page = "limits" -> Limits!PageOK /\ Limits!TypeOK
    [] page = "worker" -> Worker!PageOK /\ Worker!TypeOK
    [] page = "overviews" -> Overviews!PageOK /\ Overviews!TypeOK
    [] page = "settings" -> SettingsPage!PageOK /\ SettingsPage!TypeOK
    [] page = "profile" -> Profile!PageOK /\ Profile!TypeOK

\* When nothing is under way, a list shows what the backend holds, unless
\* requests overlapped or the page gave up on an answer: the patches that the
\* handlers apply instead of loading the list again are what the backend did.
ListsShowServer ==
  CASE page = "users" -> UsersPage!ListsShowServer
    [] page = "tags" -> TagsPage!ListsShowServer
    [] page = "categories" -> CategoriesPage!ListsShowServer
    [] page = "workers" -> WorkersPage!ListsShowServer
    [] page = "tabs" -> Tabs!ListsShowServer
    [] page = "worker" -> Worker!ListsShowServer
    [] page = "settings" -> SettingsPage!ListsShowServer
    [] page = "profile" -> Profile!ListsShowServer
    [] OTHER -> TRUE

\* No spinner turns, and no button stays disabled, without a request that will
\* end it: whatever order the answers come in, whichever of them are refused,
\* aborted or belong to a dialog or a tab that is gone.
SpinnersHaveRequests ==
  CASE page = "users" -> UsersPage!SpinnersHaveRequests
    [] page = "tags" -> TagsPage!SpinnersHaveRequests
    [] page = "categories" -> CategoriesPage!SpinnersHaveRequests
    [] page = "workers" -> WorkersPage!SpinnersHaveRequests
    [] page = "torrents" -> TorrentsPage!SpinnersHaveRequests
    [] page = "session" -> Session!SpinnersHaveRequests
    [] page = "tabs" -> Tabs!SpinnersHaveRequests
    [] page = "editing" -> Editing!SpinnersHaveRequests
    [] page = "limits" -> Limits!SpinnersHaveRequests
    [] page = "worker" -> Worker!SpinnersHaveRequests
    [] page = "overviews" -> Overviews!SpinnersHaveRequests
    [] page = "settings" -> SettingsPage!SpinnersHaveRequests
    [] page = "profile" -> Profile!SpinnersHaveRequests
    [] OTHER -> TRUE

\* A refused request costs the user nothing: the dialogs that stand open and
\* what was typed, chosen or gathered so far stay as they are.
FailuresKeepWork ==
  [][/\ page = "users" => Keeps(UsersPage!Work, UsersPage!Work')
     /\ page = "tags" => Keeps(TagsPage!Work, TagsPage!Work')
     /\ page = "categories" => Keeps(CategoriesPage!Work, CategoriesPage!Work')
     /\ page = "workers" => Keeps(WorkersPage!Work, WorkersPage!Work')
     /\ page = "torrents" => TorrentsPage!FailuresKeepWork
     /\ page = "form" => Form!FailuresKeepWork
     /\ page = "tabs" => Keeps(Tabs!Work, Tabs!Work')
     /\ page = "editing" => Editing!FailuresKeepWork
     /\ page = "limits" => Keeps(Limits!Work, Limits!Work')
     /\ page = "worker" => Keeps(Worker!Work, Worker!Work')
     /\ page = "settings" => Keeps(SettingsPage!Work, SettingsPage!Work')
     /\ page = "profile" => Keeps(Profile!Work, Profile!Work')]_vars

\* A torrent leaves the list (removeTasksLocally) only when the backend has
\* dropped it, however many of a bulk deletion's workers failed.
RowsLeaveForAReason == [][page = "torrents" => TorrentsPage!RowLeavesForAReason]_vars

\* While a growing list shows less than it could, the observer of the layout
\* on screen is there and knows the current total: scrolling shows the rest.
MoreCanBeLoaded == page = "view" => TorrentsView!MoreCanBeLoaded

\* A chunk that is missing after a deployment reloads the tab once, then fails
\* (App.tsx): never one reload after the other.
NoReloadLoop == page = "session" => Session!NoReloadLoop

\* Setting the priorities of files one group after the other never takes a
\* torrent through a state in which nothing is selected, if the batch leaves
\* something selected and nobody else changes the files.
BatchKeepsASelection == [][page = "tabs" => Tabs!BatchKeepsASelection]_vars

\* Suggestions, categories and workers that come in late fill the form around
\* what the user has edited, never over it.
AnswersKeepEdits == [][page = "form" => Form!AnswersKeepEdits]_vars

=============================================================================
