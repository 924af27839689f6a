# Verification of gardarr

Gardarr is a self-hosted manager of several qBittorrent servers ("workers"): a
Go backend with a database, background loops and one React frontend. This
directory holds TLA+ models of the backend's concurrent and stateful parts and
of the pages of the frontend, the TLC runs that check them on small instances,
and TLAPS proofs of the properties that matter most. Paths are relative to
`backend/internal/`, those of pages and components to `frontend/src/`, unless
they start with another directory.

Contents: [inventory](#inventory), [plan](#plan), [modules](#modules) with the
runs of each, [fairness](#fairness), [proofs](#proofs),
[findings](#findings), [what is not modelled](#not-modelled).

## Inventory

### Components

| Component | State | Operations | What is hard | What makes it correct |
|---|---|---|---|---|
| Worker health (`services/workerhealth`) | a cache entry per worker under one lock, one singleflight flight per worker | `probeAll` on a tick, `Refresh`, `Seed`, `Get`, `Delete` | probes racing updates and deletes; events recorded after the lock is released | events fit the status shown; probes of an old configuration do not undo an update; the cache converges; nobody waits for ever |
| Worker registry (`services/workermanager`, `repository/worker`) | worker rows | create, update, delete, list | rows are read, then acted on | as above |
| Client cache (`repository/worker`) | a qBittorrent client per worker, keyed by its configuration | `getClientEntry`, `evictClient` | stale rows bringing clients back | one client per worker, of its current configuration, none for a deleted one |
| Webhook bus (`services/integration`) | a queue and a goroutine per webhook, replaced as a whole | `ReloadWebhooks`, `processEvent`, delivery with retries, drain | reload against reload and delivery, full queues, the context the goroutines run on | order per goroutine, one history row, no event to two goroutines, no stall, a goroutine per loaded webhook |
| Discord (`services/discord`) | the same, plus a delivery history | `Reload`, `dispatch`, `deliverNow` | the same, plus rate limits | the same |
| Torrent events (`services/events`, `services/eventpoller`) | tracked state per torrent in memory and in the database; subscribers | `TrackTasks`, `DetectRemovedTasks`, `Record`, `RecordIfNew`, retention | crashes between memory, row and event; failed listings | the events of a torrent tell one story; an outage removes nothing; one completion; tracking converges |
| Bandwidth scheduler (`services/bandwidthscheduler`) | rules and default limits in the database, the configuration applied last in memory and database, limits on the server | `ReconcileWorker`, create, update, delete, `Reorder`, `ApplyManualDefault` | crashes between applying and remembering; windows past midnight; priorities | one winner of an overlap; writes only for a change; the rule in force is applied and a closed one is not |
| Transfer reports (`services/transferreport`) | settings, snapshot runs, latest reports | `reconcile`, `CaptureNow`, retention | once-only generation over crashes and changed settings; counters that go back | one snapshot per slot, one event per period, no negative transfer |
| Websocket hub (`services/websocket`, `routes/api/v1/ws`) | registered clients, a buffer per client | register, broadcast, drop a session, shut down | closing while sending, dropping while registering | no client outlives its session for long; pumps end; a client's picture converges |
| Tags and bulk actions (`services/tag`, `services/workermanager`) | tag rows, tags on every server | create, delete, merge, bulk actions over all workers | some workers fail | a retry completes what failed; results are reported per worker |
| Accounts, sessions, login limiter (`services/auth`, `session`, `ratelimit`, `setup`) | users, tokens, sessions, attempt counters | sign-up, reset, login, logout | check, then act on the database | a token creates one account; a blocked identifier is unblocked again |
| Web client: session and routing (`App.tsx`, `contexts/`, `Login.tsx`, ...) | account, set-up state, preferences in the browser's storage, chunks | log-in, log-out, set-up, invitation, reset, guard, reload | answers that land after a log-out; chunks gone after a deployment | never one reload after the other; no page waits for nothing |
| Web client: lists (`Users`, `Tags`, `Categories`, `Workers`, `Settings`, `Profile`) | copies of backend lists, dialogs, forms, spinners | load, create, edit, delete, reorder | answers in any order, refused, aborted, or for a dialog that is gone; handlers that closed over an older list | lists agree with the backend; spinners end; a refusal costs no work |
| Web client: torrents (`Torrents.tsx`, `hooks/useTorrentsWS.ts`, `components/torrents/`) | rows fed by the websocket, selection, dialogs, filters, drafts | actions on one or many torrents, editing in place, limits, files, trackers, peers | the id of a torrent is its hash, which two workers may share; fan-out with partial failure; optimistic values | actions reach the torrents meant; rows go only for torrents that are gone; a field says saved only if it is |
| Web client: adding torrents (`AddTorrentModal.tsx`) | form, suggestions, what the user edited | parse, suggest, choose, submit | suggestions, categories and preferences arrive during editing | answers fill the form around the user's edits |
| Categories, RSS, settings, metrics, look-ups, parsers | see `PROJECT.json` | | stateless forwarding, parsing, I/O | |

### Interactions

- Calls: `routes` -> `services` -> `repository`; the background loops (health
  monitor, event poller, bandwidth ticker, transfer reports) call the same
  services as the request handlers, on other goroutines.
- Events: `events.Service` stores an event and then offers it to every
  subscriber's channel (websocket hub, webhook service, discord service),
  dropping it for a subscriber whose channel is full.
- The database is shared by all; there are few transactions and no row
  versions, so a handler that reads, computes and writes back races others.
- Each qBittorrent server is state of its own that changes without gardarr.
- The web client keeps copies of all of this: lists of torrents fed by the
  websocket, every other list loaded over HTTP and then patched by the handlers
  that change something.

### Hard behaviours

`PROJECT.json` lists them with their lines under `hazards`, each with the
properties that cover it or the module of the plan that will. The main kinds:
an event recorded after the lock under which it was decided; rows read before a
lock, a probe or an HTTP call and used after it; memory, database and remote
server changed one after the other with a crash in between; goroutines that
live on a request's context; lists that are empty because a server did not
answer; and in the web client answers that come late, out of order, refused, or
for a dialog, a tab or a session that is gone.

Known and not in that list, because they are of the same kinds and no module
covers them yet: the client map of the hub while a channel is being closed
(`services/websocket/hub.go:95`); the slots, periods and counters of transfer
reports (`services/transferreport/service.go:211`, 271, 419); file priorities
set by two requests at once (`services/workermanager/service.go:618`); deletions
and merges of tags that succeed on some workers only
(`services/tag/service.go:238`).

## Plan

Done, in this order: the components of the backend whose state is the most
entangled, the path from a change of a torrent to the row on the screen, and
the pages of the web client, which keep copies of all of it.

1. `WorkerHealth`: the registry and the health cache (runs `health_*`).
2. `WebhookDelivery`: event bus to endpoint (runs `webhook_*`).
3. `ScheduleWindow`, `BandwidthScheduler`: rules to limits (runs `bandwidth_*`).
4. `TaskEvents`: server to stored events (run `events_story`).
5. `FeedView`, `TorrentsFeed`: the websocket hub, its pumps and the page at the
   other end, shown to implement an abstract view (run `live_list`).
6. `WebPage` and fifteen modules on it, composed by `WebClient` (runs
   `web_pages`, `refused_saved`, `wrong_worker`).

Next:

7. `TransferReport`: slots, periods, one event per period over crashes and
   setting changes, counters that go back. Abstract specification: a period is
   announced at most once, and in the end exactly once.
8. `ClientCache`, composed with the registry of `WorkerHealth`: a caller that
   read a worker before it was changed may bring an old client back.
9. `TagFanOut`: fan-out with partial failure (a deletion of a tag succeeds on
   some workers only), and bulk actions (files are listed and their priority is
   set in two calls; two requests may deselect all of them together).
10. `DiscordDelivery`: shares the reload pattern of `WebhookDelivery`; the
    common part becomes an abstract specification both implement.
11. `RateLimit`, `Accounts`: check-then-act on tokens and the first user.
12. The shutdown of the hub in `TorrentsFeed`.

Every invariant and every step property that a passing run checks is proved, so
the theorems worth proving next are those of the modules above; of the modules
that exist, that `OneHistoryRow` and `OneLoadPerEvent` follow from an abstract
specification which `DiscordDelivery` can share.

## Modules

Every action is one atomic step of the code: what a goroutine does between two
points where others can observe it (a lock, a database call, a call to a
server, a channel operation). History variables, named as such in the modules,
are read by properties only. The `MC*` modules give the constants values;
their symmetry is not used. The operators marked "Mistake:" are plausible
errors of one definition, each of which breaks a property; no specification
uses them.

### WorkerHealth

| Model | Code |
|---|---|
| `rows`, `cfg` | worker rows; address and credentials as a version number |
| `health[w]` | `Service.health`: status and consecutive failures; `evidence` and `base` are history |
| `flight[w]` | the `singleflight` call of a worker: snapshot of the row, then the event it has still to record |
| `call[c][w]` | the goroutines of `probeAll` (caller `"monitor"`), `ListWorkers` and `GetWorker` (readers) |
| `op[q]` | a create, update or delete request of `workermanager` |
| `Tick`, `ReadRows`, `Lookup`, `Refresh` | `Start`/`probeAll`, `ListWorkers`, `GetWorker`, `Refresh`: join the flight or start one |
| `ProbeReturns` | `probeWithTimeout` and `record`, with dampening (`consecutiveFailThreshold`) |
| `NotifyFlight`, `NotifyRequest` | `notifyTransition`, after the lock was released; storing may fail |
| `CreateWorker`, `UpdateWorker`, `UpdateCheck`, `Seed`, `DeleteWorker`, `EvictHealth` | the handlers of `workermanager`, cut at their database and server calls |
| `Restart` | an empty cache, nothing under way |

Error texts, latencies and instance data are left out; what a probe returns is
the outcome of `classifyProbeError`.

| Run | Bounds | States | Shows |
|---|---|---|---|
| `health_registry` | 1 worker, 1 request, 1 reader and the monitor, threshold 3, 2 configurations, 1 change of the server, 1 restart | 237,647 | `TypeOK`, `EventsFollowStatus`, `ConfirmedOutageIsCurrent`, `CacheConverges`, `CallersReturn` |
| `health_recovery` | no request, 3 changes of the server | ~1,600 | violates `RecoveryAnnounced` |

One worker is enough for the runs because entries, flights and events of
different workers share nothing but the lock, which a step holds for its whole
length; the proofs are for any number. The monitor and a reader are two callers, one
fewer than the threshold, the largest number for which
`ConfirmedOutageIsCurrent` claims something. A request may be a create, an
update or a delete, one after the other, so two configurations give an update
of the worker under probes of the old one and a re-creation after a deletion.

`EventsFollowStatus` has three exceptions, all of them behaviours of the code:
an event still pending, an event whose storing failed (`missed`), and an event
that was built while another one was pending (`crossed`): a Seed and a
background probe record after releasing the lock, so "offline" and "recovered"
may be stored in the opposite order of the changes they report.

### WebhookDelivery

| Model | Code |
|---|---|
| `rows`, `request` | the webhooks table; the integration routes, cut at their database calls |
| `current`, `loaded`, `cancelled` | `webhookWorkers` after the latest load, the webhooks each load listed, loads whose context is done |
| `hook[n][h]`, `queue[n][h]` | the goroutine and `jobs` channel of webhook `h` of load `n` |
| `bus`, `consumer` | the subscriber channel; `processEvent` with its snapshot of targets |
| `arrived`, `history` | what an endpoint received; rows of `webhook_history` |
| `Publish`, `Receive`, `Enqueue` | `broadcastEvent`, `getWebhookTargets`, the non-blocking send (a full queue drops) |
| `TakeJob`, `SeeStop`, `Exit` | the `select` of `runWebhookWorker`, the drain, the end of the context |
| `Attempt`, `Backoff`, `SaveHistory`, `Finished` | `SendEventWithRetry` and `deliver`: delivered, rejected, failed, or the answer is lost |
| `CreateWebhook`, `ReadWebhook`, `UpdateWebhook`, `DeleteWebhook`, `ListEnabledWebhooks`, `Install`, `Respond` | the routes, `loadWebhooks`, and the end of the handler that cancels its context |

| Run | Bounds | States | Shows |
|---|---|---|---|
| `webhook_reload` | 1 webhook, 1 request, queue 2, bus 1, 2 attempts, 3 events, 1 reload | 1,912,626 | `TypeOK`, `OrderPerLoad`, `OneHistoryRow`, `OneLoadPerEvent`, `DrainLeavesAtMostOne` |
| `webhook_live` | queue 1, 2 events, with fairness | 145,107 | `ConsumerNeverStalls`, `QueuedIsDelivered` |
| `webhook_dead` | 1 event, 1 reload | ~250 | violates `LoadedHooksRun` |

Three events fill a queue of two and leave one that must wait or be dropped;
two attempts give a retry; one reload gives an old and a new goroutine of the
webhook at the same time. Webhooks share only the consumer, which never blocks
on any of them (`ConsumerNeverStalls`). Deadlock checking is off in these
runs: once the bounded events are delivered and the bounded requests are
answered the system may rest.

Order holds per goroutine only. Across a reload the old goroutine, which
drains its queue, may deliver an older event after the new goroutine delivered
a newer one. A drain discards nothing except at most one event: the one the
consumer had already chosen its target for. Two reloads at once may install in
the opposite order of the lists they read (the list is read before the lock);
the next reload corrects it.

### ScheduleWindow and BandwidthScheduler

`ScheduleWindow` holds the pure part: `ScheduleMatches`, and `DayRanges` and
`WindowsOverlap`, which cut windows at midnight. The numbers of days and of minutes
are constants.

| Model | Code |
|---|---|
| `rows`, `defaults`, `marker` | rules, default limits and the `last_applied` columns of a worker |
| `memory`, `lock` | `lastApplied`, `lockFor` |
| `qbt`, `writer`, `torn` | limits on the server; history: who wrote them last, whether a write of the marker failed since |
| `job[p]` | a `ReconcileWorker` of the ticker or of a request |
| `Tick`, `Lock`, `Preview`, `Load`, `Inspect`, `SetDown`, `SetUp`, `Persist` | `ReconcileWorker`, cut at every call; each may fail |
| `Create`, `Insert`, `Update`, `Delete`, `Reorder`, `ApplyManual`, `ManualUp`, `ManualStore`, `Respond` | the request handlers, then the reconciliation they start on the request's context |
| `Minute`, `Meddle`, `Restart` | the clock, a change made in qBittorrent itself, a restart |

| Run | Bounds | States | Shows |
|---|---|---|---|
| `bandwidth_rules` | a week of 2 days of 3 minutes, 2 rules, a window past midnight and one in the morning, 1 request besides the ticker, 2 requests in all, 1 failure or restart, 3 minutes | 299,784 | `TypeOK`, `PrioritiesDistinct`, `OpenRulesOverlap`, `BaselineCaptured`, `MemoryIsMarker`, `WritesAreDue`, `ImposedIsMarked`, `LimitsFollowRules` |
| `bandwidth_restored` | 1 rule, 1 request | 6,998 | violates `DefaultsRestored` |

Three minutes pass over midnight and open and close both windows; two rules
make an overlap and a reordering; a single mishap can fall between any two
calls of either job. Proofs cover the other sizes of the safety
properties that are proved.

`LimitsFollowRules` speaks of the marker, which is what the code can know:
`Meddle` changes the limits behind its back and it does not look again.

### TaskEvents

One worker, whose poller is one goroutine (`eventpoller` polls the workers of a
round in parallel, the tracked states of different workers are disjoint).

| Model | Code |
|---|---|
| `world` | the torrents of the server: state, progress, metadata (name, category, size) |
| `memory`, `rows` | `taskStates`, the `task_states` table |
| `pc`, `listing`, `batch`, `pending`, `checks` | the progress of `pollWorker` through `TrackTasks` and `DetectRemovedTasks` |
| `completed`, `told` | stored completion events; history: the latest event stored per torrent |
| `lost`, `behind` | history: torrents of which an event was lost, or a save failed |
| `Poll` | `ListTasks`, and the comparison of `TrackTasks` (which changes memory as it goes) |
| `Save` | `SaveTaskStates`: one batch; metadata is committed to memory only with it |
| `Store`, `Complete` | `processEvents`, `processCompletionEvents`: drop the event if the database fails |
| `Detect`, `DeleteRows` | `DetectRemovedTasks`: memory first, then the events, then the rows |
| `Purge`, `Restart` | `PurgeOldEvents`; `LoadStates` after a crash at any point |

| Run | Bounds | States | Shows |
|---|---|---|---|
| `events_story` | 2 torrents, 5 appearances of a torrent (two download states, a changed name, an error when complete, uploading), 3 changes, 2 failing writes or restarts, 1 purge | 179,189 | `TypeOK`, `StoryContinues`, `StoryIsCurrent`, `RemovalsConfirmed`, `SavedIsTracked`, `OneCompletion`, `TrackingConverges` |

Three changes add, remove and re-add a torrent, or add it, complete it and add
another; two mishaps give a failed write followed by a crash. The poll is
modelled with a listing that may fail at any time; the code skips such a
worker, so no torrent is taken for removed.

`lost` marks a torrent when the code gives up an event: its storing fails, the
process dies after `SaveTaskStates` and before the event is stored, or it dies
after a removal was announced and before the row was deleted (the removal is
then announced again). The properties say that nothing else ever breaks a
torrent's story.

### FeedView and TorrentsFeed

One page with the list of torrents, its sockets, and the hub. `FeedView` is what
the list promises whatever stands behind it: a row shows only what its torrent
really was, and a list that is watched catches up. `TorrentsFeed` is shown to
implement it (`ImplementsView`). `watching` is "mounted, the session valid, and
not `Starved`": a page whose first snapshot was given up, because its channel was
full for five seconds (`hub.go:245-251`), never asks for another
(`Torrents.tsx:367`), so its list does not catch up before the connection breaks
(see the findings). `Starved` says just that: not loaded, the connection alive at
both ends, and no snapshot being read or on its way.

| Model | Code |
|---|---|
| `torrents`, `had`, `events` | the torrents of the workers; history; the events the hub has not yet taken from its subscription |
| `mounted`, `sock`, `attached`, `current`, `timer`, `rows`, `loaded` | the page and `useTorrentsWS`: its sockets, which of them still have handlers, `wsRef`, the retry timer, the list |
| `peer`, `wire`, `fetch` | the hub's clients, their `Send` channel together with the connection, the `SendInitialState` goroutines and what each has read |
| `Mount`, `Connect`, `Reconnect`, `Closed`, `Unmount`, `Receive`, `RequestSync` | the hook and the page |
| `Accept`, `Register`, `Broadcast`, `ReadTasks`, `SendSnapshot`, `PumpEnds`, `Unregister` | `serveWs`, the loop of the hub, `SendInitialState`, `readPump`/`writePump` |
| `EndSession`, `DropSession`, `MonitorSession` | a log-out, and the two ways the hub notices |
| `Change`, `Break`, `Refuse` | the world: torrents that change, connections that break or are refused |

| Run | Bounds | States | Shows |
|---|---|---|---|
| `live_list` | 2 torrents, 1 state besides gone, 2 sockets, channel of 1, 1 change, 1 fault | 422,768 | `TypeOK`, `SocketDiscipline`, `SessionEndsSockets`, `ImplementsView` |

A channel of one is full whenever something is on its way, so messages are
dropped; two sockets give a new connection beside one that is still being torn
down; one change is enough for an event that is newer than the snapshot read
before it; with two torrents an event about one does not make up for a snapshot
that was given up, so that the list stays partial (with `watching` as "mounted
and the session valid" TLC finds just that). The pause between two requests for a snapshot is a request that is
not made; messages with statistics and health, and the pages of other users,
are left out; so is the shutdown of the hub.

### WebPage and the pages

`WebPage` gives the parts every page is made of: `server` (the lists the
backend holds), `shown` (the page's copies), `asked` (the requests under way,
each with the copy of the list its handler closed over and with what the answer
carries), `dialog` (the open dialogs), `view` (spinners, forms, filters), and two
history variables. A request is served, refused, or served while the page gives
up on it; answers are taken in any order. `lib/api.ts` never throws, so every
handler meets a refusal as an answer. A component that is unmounted no longer
hears of its requests, but the backend still serves them.

| Module | Code | What its state and actions are about |
|---|---|---|
| `AppSession` | `App.tsx`, `contexts/AuthContext.tsx`, `contexts/SetupContext.tsx`, `ProtectedRoute`, `Login`, `InitialSetup`, `InviteAccept`, `ResetPassword` | who is logged in, set-up, preferences in storage, chunks that are missing after a deployment, reloads of the tab |
| `UsersPage` | `Users.tsx` | accounts, magic links, handlers that patch the lists they closed over |
| `TagsPage` | `Tags.tsx`, its modals | lists that are loaded again after every operation, merging tags that differ in case |
| `CategoriesPage` | `Categories.tsx`, `AddCategoryModal.tsx` | patched lists, a form that loads workers for each opening |
| `WorkersPage` | `Workers.tsx`, `AddWorkerModal.tsx` | patches of the current list, loads that changes abort |
| `WorkerTabs` | `WorkerLimits`, `BandwidthSchedules`, `WorkerLogsTab` | limits, an optimistic reordering, a log fetched in pieces |
| `WorkerOverviews` | `hooks/useWorkerOverviews.ts` | a queue per roster, several consumers, a roster that changes under them |
| `TorrentsPage` | `Torrents.tsx`, its menus and delete dialog | selection, actions on one or many, deletion with partial failure, rows removed locally |
| `TorrentsView` | filters, pages, `useLazyLoadingObserver.ts` | what of the list is in front of the user, and whether the rest can be reached |
| `TorrentTabs` | `TorrentFilesList`, `TrackersTab`, `PeersTab` | tabs that mount and unmount, batches of priorities in groups |
| `TorrentEditing` | `AutoSaveField`, `TorrentHeroHeader`, `TorrentPathField`, `CategoryTagsCard`, `TorrentImageEditor` | drafts that save themselves, optimistic values with rollback |
| `TorrentLimits` | `TorrentLimitModal`, its controls | limits of one or several torrents, sent in phases |
| `AddTorrentForm` | `AddTorrentModal`, `SelectCategory`, `SelectTags`, `contexts/AddTorrentContext.tsx` | suggestions around edits, placeholders |
| `SettingsPage`, `ProfilePage` | `Settings.tsx`, `Profile.tsx` | settings and images; palettes with delayed saves, password, sessions |

`WebClient` composes them: a behaviour is that of the one page it begins with,
and its constants are those of all pages (`MCWebPages` gives them values).
Pages share no state in the client besides the session (a page is unmounted
when another one is opened), so nothing is lost by taking one at a time.

| Run | Bounds | States | Shows |
|---|---|---|---|
| `web_pages` | each page over one to three rows; 2 requests under way at once (3 where a page mounts with several); 1 to 3 requests after mounting, page by page in `SomeSends` of `MCWebPages` | 1,313,204 | `TypeOK`, `ListsShowServer`, `SpinnersHaveRequests`, `MoreCanBeLoaded`, `NoReloadLoop`, `FailuresKeepWork`, `RowsLeaveForAReason`, `BatchKeepsASelection`, `AnswersKeepEdits` |
| `refused_saved` | `TorrentEditing` alone | ~3,500 | violates `SavedIsStored` |
| `wrong_worker` | `TorrentsPage` with one torrent on two workers | ~50 | violates `DeletesWhatWasMeant` |

Two requests at once are what it takes for answers out of order and for a
handler to undo another's patch; the third of a page is the reload after it.
Of rows there are as many as the operations relate: two tags to merge, three
schedules to reorder two of, three torrents for a list that grows twice, two
torrents for a bulk action that half fails, three workers for two consumers.
Deadlock checking is off: a page whose bounded requests are answered and whose
dialogs are closed may rest.

`ListsShowServer` excepts lists that overlapping requests, or an answer that
was given up, have set apart (`apart`): what the handlers do then is a fact of
the code, listed under the findings. On the page of workers, whose handlers patch
the current list, only two updates of one worker set the list apart; everything
else may overlap. The list there has rows (`shown.workers[w]` is the sequence of
the rows of `w`), because `Workers.tsx:125` appends the created worker whatever
the list has: a load that was sent before the creation and served after it
brings the worker, and the answer to the creation brings it again. So
`ListsShowServer` says of that page that the rows of a worker, however many, show
what the backend has, and that there is at most one unless a creation was sent
beside a load (`view.twice`). `FailuresKeepWork` takes a step in which a
refusal is consumed and compares dialogs, drafts and forms before and after.

## Fairness

Weak fairness on the steps of goroutines: the Go scheduler runs a goroutine
that can run, tickers tick, and every call to a server or the database ends,
since the probe has its own timeout, the HTTP clients have theirs, and the
database is local. Nothing is assumed of users (no fairness on requests
arriving, torrents changing, time passing, or `Meddle`) and nothing of
failures, except that they are bounded: mishaps, server changes and restarts
have a maximum per run, so every behaviour eventually has a quiet suffix, and
the liveness properties say what holds then. In `TaskEvents` fairness of the
poll includes that a worker that is polled again and again is eventually
listed. In `TorrentsFeed` the loop of the hub, the goroutines and pumps of a
connection, the minute check of its session and the timers of the page are
fair, and the browser delivers what arrives; mounting, changes, breaks,
refusals, log-outs and the immediate `DropSession` are not. The modules of the
pages state safety only.

## Proofs

Checked by TLAPS for every value of the constants, under the assumptions on
constants that the modules name (`HealthAssumption`, `WebhookAssumption`,
`ClientAssumption`, ...), which say that bounds are numbers, that special values
are distinct (in `ClientAssumption`: nobody has an account, and what is gone is
no page, priority, state or preferences of a worker), that bounds leave room for
something (a schedule, a log, one lane of requests; every palette has a cached
value), and, where a proof counts, that a set is finite (the readers of
`WorkerHealth`, the rows of a list, the watched workers, the schedules, of which
there are at most one more than fit). One theorem has a hypothesis of its own,
named in its row.

The proofs about the pages are in three modules, each of which extends the one
before. `WebPagesProofs`: the growing lists, the step properties, what holds of
requests on every page, and the pages of users, torrents, session and form.
`WebAdminProofs`: tags, categories, workers, settings, profile and the tabs of a
torrent. `WebDetailsProofs`: the tabs of a worker, the overviews, limits and
edits, and then the theorems about the client whatever page is on screen.

| Theorem | Says | Argument |
|---|---|---|
| `TypeCorrect` (`WorkerHealthProofs`) | `[]TypeOK` | inductive, with lemmas for the entry a probe or a Seed produces |
| `EventsFollowStatusCorrect` | `[]EventsFollowStatus` | `EventInv`: for each worker, if its status is `ERRORED` the stored event is "offline", or an "offline" is on its way (in the flight or in a request), or it was missed or crossed. The property alone is not inductive: it says nothing while an event is pending |
| `ConfirmedOutageIsCurrentCorrect` | `[]ConfirmedOutageIsCurrent` | `OutageInv`: unless a failed probe of the seeded configuration or a newer one is on record, the failures counted plus the callers whose copy of the worker is older than the latest Seed are at most the callers there are; a flight that probes was started by a caller that still waits for it. A failure of an old copy moves its caller from the second number to the first. The property says nothing of callers, so it cannot tell how many old answers are still to come |
| `OrderPerLoadCorrect` (`WebhookDeliveryProofs`) | `[]OrderPerLoad` | `OrderInv` chains the orders: what arrived from a goroutine <= what it is sending < what is in its queue < what the consumer holds < what is on the bus <= what was published |
| `TypeCorrect` | `[]TypeOK` | inductive with `Busy`: a goroutine that is delivering has an event |
| `DrainLeavesAtMostOneCorrect` | `[]DrainLeavesAtMostOne` | `DrainInv`: only replaced loads drain; a goroutine that has left its drain left the queue empty, or with one event, put there by a consumer that still held its channel and has now done with it |
| `OneLoadPerEventCorrect` | `[]OneLoadPerEvent` | `OwnInv`: at most one load has, had or is to have an event (`Claims`: in hand, on the queue, arrived), and none yet while the consumer has still to hand it out. That an event is handed out once needs `OrderInv` |
| `OneHistoryRowCorrect` | `[]OneHistoryRow` | `HistoryInv`: an event that is queued, being sent or waiting for its retry has no row; what has one was handed out before |
| `OverlapComplete` (`BandwidthSchedulerProofs`) | two windows that match at one time overlap | a matching time lies in one of the day ranges of the window |
| `PrioritiesDistinctCorrect`, `OpenRulesOverlapCorrect` | `[]PrioritiesDistinct`, `[]OpenRulesOverlap` | `RowsInv`: rows are well-typed and priorities distinct; `Create` takes one below the lowest, `Reorder` is a bijection onto a range |
| `MemoryIsMarkerCorrect`, `WritesAreDueCorrect` | `[]MemoryIsMarker`, `[]WritesAreDue` | `WriteInv`: a job past `Lock` holds the lock, so the marker does not change between its reading and its writing, and each place in the job knows what was read. Without the lock in the invariant another job could change the marker in between |
| `TypeCorrect`, `BaselineCapturedCorrect` | `[]TypeOK`, `[]BaselineCaptured` | `KeptInv`: a request that is about to insert a rule was let in below the limit and found limits to return to (`Reserved`); it holds the mutex, so no other rule is inserted in between (`Roomy`) |
| `ImposedIsMarkedCorrect` | `[]ImposedIsMarked` | `ImposedInv`, on top of `WriteInv`: limits of a rule that are in force are on record, or their writer is between writing and recording; and a job about to record the defaults has written them over any rule |
| `TypeCorrect`, `RemovalsConfirmedCorrect`, `SavedIsTrackedCorrect` (`TaskEventsProofs`) | `[]TypeOK`, `[]RemovalsConfirmed`, `[]SavedIsTracked` | the first is inductive; `GoneInv`: what a poll does not list was gone when it began. `SavedInv`: how memory and row differ at each place of a poll, since the properties speak of its end only |
| `OneCompletionCorrect` | `[]OneCompletion` | inductive with `TypeOK`: the guard of the insertion is the row itself |
| `StoryContinuesCorrect`, `StoryIsCurrentCorrect` | `[]StoryContinues`, `[]StoryIsCurrent` | `StoryInv`: told agrees with memory unless an event of the torrent is on its way, and with the row unless a restart would lose something; an event on its way follows what was told, and leads to what memory and row say. The rows are needed because a restart makes them the memory |
| `TypeCorrect` (`TorrentsFeedProofs`) | `[]TypeOK` | inductive, with lemmas for channels (appending, taking) and for what `connect()` and the end of a socket do |
| `SocketDisciplineCorrect` | `[]SocketDiscipline` | `SocketInv` says instead of the count that what lives is the current socket with its handlers; `connect()` is only called when nothing lives, because a mounted page with a timer has no live socket, and a socket that dies still has the handler that arms the timer |
| `ViewSafety` | every behaviour is one of `FeedView`, its fairness aside | `ViewInv`: the list, the torrents, every event, every message on its way and every snapshot being sent say only what torrents have been (`had`). The messages are needed because `Receive` makes them the list |
| `MoreCanBeLoadedCorrect` (`WebPagesProofs`) | `[]MoreCanBeLoaded` | `ViewInv`: each layout's observer knows what it would know if it were set up now, because every render sets it up again when one of its inputs changed |
| `SessionTypeCorrect`, `NoReloadLoopCorrect`, `SessionSpinnersCorrect` | the type invariant, `NoReloadLoop` and `SpinnersHaveRequests` of the session's page | `SessionInv`: every request is one the session sends (`Fits`), the load of the account is under way while "Loading" shows (`Awaited`), a form that checks or is busy has the request that ends it under the path it was opened at (`Attended`), and a reload that was forced is marked. The path is needed because a redirect mounts another form while the answer for the last one is on its way |
| `BatchKeepsASelectionCorrect` (`WebPagesProofs`) | `BatchKeepsASelection`, a step property | `BatchInv`: a batch under way has its files to skip last, and, as long as no other request was beside it, the files with what is left of the batch set come to what the user meant (`ComesTo`). Each answer takes one group off and sets it. The property is about one step and does not know how far a batch is |
| `AnswersKeepEditsCorrect` | `AnswersKeepEdits`, a step property | the edited fields are fields of the form (`Filled`); every way of filling it in goes through `Kept` or leaves the fields alone (`Respects`), and so does a composition of two |
| `RowsLeaveForAReasonCorrect` | `RowsLeaveForAReason`, a step property, if no hash is on two workers (`HashesOnOneWorker`) | `RowsInv`: what a deletion that is done is about is gone and stays gone, and no other request makes a row vanish. Without the hypothesis the property does not hold: `removeTasksLocally` goes by the hash (see `DeletesWhatWasMeant` below) |
| `TypeCorrect`, `ListsShowServerCorrect`, `SpinnersHaveRequestsCorrect` (`WebDetailsProofs`) | `[]TypeOK`, `[]ListsShowServer`, `[]SpinnersHaveRequests` of the whole client | `ClientInv`: one invariant per page (`UsersInv`, `TagsInv`, `CategoriesInv`, ...). Each says what a request of the page is about and may bring (`UserAsks`, `TagAsks`, ...); that a request nothing overlapped is the only one, and otherwise the lists it could disturb are `apart` (`Solo`); how copy and backend differ while a patch or a reload is on its way (`UsersAgree`, ...; for the workers `WorkersPatched`: there is a worker that all its rows show, and the changes that are done and not yet taken lead from it to the backend's; and `WorkersOnce`: a creation that no load goes beside finds no row of its worker); and which request will end each spinner (`UsersWait`, ...). The properties speak of a list with nothing under way, or of a spinner and some request, and do not say what an answer will do to them when it lands |
| `FailuresKeepWorkCorrect` (`WebDetailsProofs`) | `FailuresKeepWork`, a step property | a step that takes a refused request adds none, and what it leaves was there before; every handler that closes a dialog or resets a form takes an answer that is done, or sends a request in the same step. What could hide a sent request is that it also marks the ones it overlaps, so `WorkHolds` says that among the settings and the edits an operation that counts as alone has nothing but loads beside it (`SoleWork`), and that in a worker's details only the tab on screen listens (`ModalHear`), so that changing tabs always sends something new |

The actions are handled one lemma each, or one lemma for a group that leaves
the relevant variables alone. The pages are proved about through their
composition: a behaviour of `WebClient` that begins with a page stays with it,
so a step of it is a step of that page.

Only model-checked: all liveness properties (`CacheConverges`, `CallersReturn`,
`ConsumerNeverStalls`, `QueuedIsDelivered`, `LimitsFollowRules`,
`TrackingConverges`, `SessionEndsSockets`, and the fairness of
`ImplementsView`), which are beyond the prover. Every invariant and every step
property of a passing run is proved; of `RowsLeaveForAReason` the run, which has
each hash on one worker, shows as much as the theorem. `DeletesWhatWasMeant` and
the other properties of the violated runs are false.

The proofs changed the models in three places. `PerformApply` of `TorrentTabs`
lacked the early return for a batch that has become empty because the list was
loaded again behind the open dialog (`TorrentFilesList.tsx:176`); no run had
reached it, and `BatchInv` does not hold without it. The readers of
`WorkerHealth` are now assumed to be finitely many, as the proof of
`ConfirmedOutageIsCurrent` counts them. The card of categories and tags in
`TorrentEditing` returned to the wrong value when a choice was refused, and took
requests of a card that is gone for older choices of this one: its requests now
carry the value to return to, and only those that are still heard become older
ones, as the sequence numbers in the code have it. Besides, the modules of the
web client are written without `SequencesExt` and `TLC` (`Only`, `Orders`,
`Members`, `Skipped`), because the prover carries every definition that an
instance brings along.

## Findings

Each is a run in which TLC finds the violation; `PROJECT.json` quotes the line
that promises otherwise.

| Property | What happens |
|---|---|
| `RecoveryAnnounced` | a worker that goes offline -> initializing -> online is never reported recovered |
| `LoadedHooksRun` | webhook goroutines started by a request's reload stop when the request ends |
| `DefaultsRestored` | limits written without their marker are never taken back when the window has closed |
| `SavedIsStored` | a name or a path that the backend refuses is shown as saved: `handleSaveName` never looks at `response.error`, and `handleSetLocationTorrent` returns nothing on it |
| `DeletesWhatWasMeant` | two workers host the same torrent; a deletion looks the worker up by the hash alone and deletes the torrent of the first row that has it |

Met while modelling, without a run of their own.

In the backend:

- A probe, or the Seed of an update, that outlives the deletion of a worker puts
  its entry back into the health cache, and nothing evicts it again, although
  `Delete` evicts it "so a stale entry doesn't linger"
  (`services/workerhealth/service.go:392`).
- Two updates of one webhook that change different fields: the handler writes
  all columns back, so the second undoes the first
  (`routes/api/v1/integrations/routes.go:297`).
- A torrent that completes while it is in error, or in the very poll in which an
  insignificant change of state ends the comparison early, is never announced
  as complete (`services/events/service.go:342` and 368).
- Events of a Seed and of a probe may be stored in the wrong order; webhook
  order does not hold across reloads; a drain may leave one event; the list of
  enabled webhooks is read before the lock.
- Events are lost when the process dies between `SaveTaskStates` and the storing
  of events, and a removal is repeated when it dies before the rows are deleted.
- The retention of events is 30 days in one document and 7 in the code.

In the web client:

- Escape in a field that saves itself saves what was typed: the key handler puts
  the old draft back and calls `blur()` in the same turn, and the commit on blur
  still sees the typed draft (`AutoSaveField.tsx:91-97`).
- The path shown after a saved location changes only when the websocket says so;
  speed limits of zero are never sent; a failed load of a worker's limits leaves
  defaults that Save would write.
- `loading` of the page of workers never ends if a worker is added before the
  first list arrives (`Workers.tsx:122-126`). `SpinnersHaveRequests` excepts the
  case.
- A worker that is added while a load of the list is under way may be listed
  twice until the next load: the load, served after the creation, lands before
  the answer to it, and `handleCreateWorkerSuccess` appends a row without looking
  for one (`Workers.tsx:125`).
- The page of torrents stays on its loading screen if the first snapshot finds
  the client's channel full for five seconds: `sendToClient` gives it up
  (`hub.go:245-251`), the events that follow do not end the loading
  (`Torrents.tsx:921`), and the interval that asks for snapshots does not run
  before one has come (`Torrents.tsx:367`). Only a new connection helps, although
  `hub.go:208` sends even an empty list "to prevent infinite loading in the
  frontend".
- In `AddTorrentForm` the fields of the previous release stay until the new one
  has been parsed; a submission in between names the torrent after the old one
  (`AddTorrentModal.tsx:233-236` means to prevent it). A category chosen while
  the look-up of the current one is under way is overwritten by it.
- Handlers of `Users.tsx` (162, 182, 248, 306) and `Categories.tsx` (85, 103,
  121) patch the list they closed over, so of two operations that overlap one is
  undone on the screen; loads of `Tags.tsx` that overlap may land in the wrong
  order; late answers close dialogs that were opened again, or show a link or
  details in the dialog of another row.
- Bulk limits go to the worker of the first torrent selected; the message after
  a bulk deletion counts all torrents even if some failed.
- Answers that are late or refused: optimistic values are rolled back to an older
  optimistic one; a refused batch of file priorities leaves the list stale until
  it is loaded again; a refused change of password shows nothing.
- Preferences that arrive after a log-out are stored again (`AuthContext.tsx:87`);
  the service worker keeps answers of the API over a log-out (`sw.js:66-95`); the
  mark of a chunk reload stays when the retry succeeds (`App.tsx:26-31`).
- A request that times out after 120 s is reported as failed although the
  backend may have done the work (`lib/api.ts`).

## Not modelled

Stateless forwarding to qBittorrent (RSS, most torrent operations), parsers and
rule evaluation over strings (`releaseparse`, `tagrules`, `torrentfile`,
`filters`), outbound look-ups, encryption, metrics, schema and migrations:
either without state that could go wrong over time, or data-dependent at a size
TLC does not reach. In the web client: layout, formatting, translation,
validation messages, sorting and search inside dialogs, the search for images
at the providers, the service worker, and the dashboards, events, reports,
integrations and RSS pages, which are lists and dialogs of the kind already
modelled. The components under "Next" in the plan are not modelled yet. GORM's
single statements and transactions are taken as atomic, Go's channels, mutexes
and `singleflight` as documented; React's updates of one handler are taken as
one step.
