# Tracegoblins in TLA+

Tracegoblins collects Ansible runs: users upload logs, or an administrator
connects AWX controllers whose finished jobs are imported in the background.
The backend (`src/backend/app`) is FastAPI with asyncio and SQLAlchemy over
PostgreSQL at READ COMMITTED, one uvicorn worker by default, with an
APScheduler in the process that wins a leader lock; project sources are bare
git clones on a volume. The frontend (`src/frontend`) is a React client of the
REST API.

These modules model the parts whose correctness rests on the order of steps:
transactions that overlap, ORM instances that outlive a lock, processes that
die between two commits, and in the client answers that come late, cached data,
pages that are left and come back to. TLC checks small instances of each, and
TLAPS proves the main safety properties for every instance.

## Inventory

"Hard" names the behaviour that makes the part worth a model. The parts without
a module are listed in `PROJECT.json` as `not_modelled`, with the reason.

| Part | State | Operations | Hard | What makes it correct | Module |
|---|---|---|---|---|---|
| Controller sync (`awx/sync.py`, `awx/client.py`) | controller row (cursor, status), runs, advisory lock, per-task ORM instance | sync from the job or the API, listing by pages, import of a job, two error handlers, release | overlap, stale instance, crash between commits, jobs ending out of order | one sync at a time; the cursor passes no job it was shown; "running" is reset; finished jobs are imported unless one that cannot be fetched is in the way | `AwxSync` |
| Retention (`awx/retention.py`) | runs | a batch of deletions | between any two steps of a sync | never re-imported by a forward cursor | `AwxSync` |
| Accounts and teams (`api/admin.py`, `services/users_teams.py`) | users, teams, memberships | role, (de)activation, membership, teams | counts checked under a lock against rows read before it | an active administrator; everyone in a team | `Administration` |
| Setup and invites (`api/setup.py`, `api/invites.py`) | the same, invites | first administrator; accept | two wizards; teams deleted under an invite | set up once; members from birth | `Administration` |
| Project clones (`projects/worker.py`, `projects/git.py`, `api/projects.py`, `awx/projects_sync.py`) | project row, bare clone, advisory lock | link, request, clone, fetch, roll back, re-fetch, mirror | two writers of a directory, failure half-way, crash in git | one worker; status tells the truth; good clones survive; changed links are followed | `ProjectClone` |
| Scheduler (`scheduler.py`) | leader lock, jobs | elect, register, hot reload, stop | a change during registration, a start that fails, a lost leader connection | one leader; jobs follow the rows; scheduling resumes | `LeaderScheduler` |
| Controller rows (`api/controllers.py`) | mode and interval of each controller | create, change, delete, each with a reload | stale instance, reload out of order | the schedule is that of the row | `LeaderScheduler` |
| Path Explorer (`frontend/src/path`, `api/path.ts`, `api/pathSource.ts`) | view, iteration, selection, queries; transform, gesture, listeners | enter, exit, step, select, toggle; pan, zoom, fit, overlay | acting on the tree before while the next is pending; a fit a frame late; an element that comes and goes | what is shown is what was asked; a picture is placed once; gestures stay | `PathExplorer`, `PathCanvas` |
| Logs (`frontend/src/dashboard`, `api/runs.ts`) | view in address and localStorage, debounced search, pages | tab, source, filter, order, search, page, back | a change before the last is rendered; pages of a list that changes | the list is that of the controls; the view comes back | `LogsView` |
| Controllers page (`settings/AwxControllers.tsx`, `api/controllers.ts`, `dashboard/SyncNowChip.tsx`) | cached list, running syncs, form, verdict | poll, sync now, edit, test, save, delete | the end of a sync is a difference of two answers; a verdict beside a changed form | chips settle; ends are followed; green is of the form | `ControllersPage` |
| Project page (`frontend/src/projects`, `api/projects.ts`) | cached status and trees, file browser | poll, link, clone, refresh, upload, browse | polling hangs on the last answer; a tree asked for too early | the page learns the end; the source appears; uploads are shown | `ProjectPage` |
| Accounts in the client (`App.tsx`, `auth/`, `settings/SecuritySettings.tsx`) | cached "me" and "setup", route, recovery codes | sign in and out, first account, invite, enrol | guards over two answers cached apart; codes shown once | the client knows who the user is; codes stay; the guards lead in | `AccountPages` |
| Sessions, login (`services/sessions.py`, `api/auth.py`, `services/pending_login.py`) | sessions, pending logins, password | login, verify, logout, revocation | a login that overlaps a revocation | no session outlives its revocation | `AccountPages`, one request at a time |
| Two factors (`api/mfa.py`, `services/mfa.py`, `security/totp.py`) | secret, last step, recovery codes | enrol, disable, verify | enrolments together, single use | a code opens one session | `AccountPages`, one request at a time |
| Rate limiter (`security/ratelimit.py`) | windows, lockouts | check, record, reset | check and record apart | a bounded number of attempts | planned |
| Uploads (`services/upload_quotas.py`, `services/ingestion.py`, `projects/uploads.py`) | runs, files | quota, ingest, batch of files | together at the limit; half a batch | the quota holds; all or nothing | planned |
| Knowledge base (`kb/`, `api/kb.py`) | signatures, occurrences | create, edit, promote, match | back-fill against ingestion | occurrences are unique and in scope | planned |
| Collaboration (`api/runs.py`, `comments.py`, `annotations.py`, `notifications.py`) | shares, comments, notifications | share, comment, edit, delete | edits against deletions | tombstones stay; only viewers are told | planned |
| Parsers and trees (`logparser/`, `services/run_tree.py`, `status_rollup.py`, `path_forks.py`, `run_diff.py`) | none (pure) | parse, build, roll up, fork, diff | event order, repeated nodes | agree with a reference definition | planned |
| Code overlay, analytics, HTTP plumbing, other pages of the client | caches, cookies, views | | | | none, see `PROJECT.json` |

How they interact: the scheduler and the API start the same functions
(`sync_controller`, `run_clone`), which guard themselves with session-level
advisory locks on a connection of their own; a finished import calls the
knowledge base and the project mirror, and the mirror rewrites what a clone
worker may have loaded; deleting a controller cascades to runs and projects
under both. Administration, setup and invites share the tables of accounts and
teams and guard them with transaction-level advisory locks. The client's pages
share one TanStack query cache, in which every answer is kept under the key it
was asked by. The controllers page watches what `AwxSync` models, the project
page what `ProjectClone` does; each of these pages keeps of its server what the
page can tell.

## Modules

| Module | Contents |
|---|---|
| `AwxSync` | one controller, the tasks that synchronise it, retention, AWX |
| `ImportLedger` | the abstract promise of a sync: import once from above the cursor, advance over settled jobs or ones that a listing hid |
| `MCAwxSync` | the instances of `AwxSync`, and its refinement mapping to `ImportLedger` |
| `AwxSyncProofs` | TLAPS: types, mutual exclusion, the lock's owner, the status, runs of a deleted controller, what the cursor passes, the refinement of `ImportLedger` |
| `Administration` | accounts, roles, teams, setup and invites as concurrent transactions |
| `MCAdministration` | its instances, with the symmetry of requests |
| `AdministrationProofs` | TLAPS, with the modules of what administrators use, `Administration` and `ControllersPage`: types of both, setup, the last administrator, team membership; the verdict of a connection test |
| `ProjectClone` | one project's row and clone directory, its workers and what goes on around them |
| `MCProjectClone` | its instances |
| `ProjectCloneProofs` | TLAPS: types, one worker, status against directory, good clones; what the refuted statements need to break |
| `LeaderScheduler` | the app's processes, the leader lock, the jobs, and the routes that change controllers |
| `MCLeaderScheduler` | its instances |
| `LeaderSchedulerProofs` | TLAPS: types, one leader, jobs against rows |
| `PathExplorer` | navigation in the tree of a run, its queries and their cache |
| `PathCanvas` | pan, zoom, fit, selection and overlay over the layout that is drawn |
| `MCPath` | one run for both: TLC follows the one or the other |
| `PathProofs` | TLAPS, with both: types of both, what is shown, the stepper, the drawer; the wheel listener, fits and gestures of the canvas |
| `LogsView` | the view of the list of runs, its controls, search and pages |
| `LogsViewProofs` | TLAPS: types, the order of the server, the pages of a list, the view that is stored |
| `ControllersPage` | the controllers in the client: polling, "Sync now", the form |
| `ProjectPage` | the page of a project: status, file browser, forms |
| `ProjectPageProofs` | TLAPS: types, the tree of uploads |
| `AccountPages` | the guards of the routes, signing in and out, two factors |
| `AccountPagesProofs` | TLAPS: types, what the client knows of its user, the recovery codes |
| `MCPathExplorer`, `MCPathCanvas`, `MCLogsView`, `MCControllersPage`, `MCProjectPage`, `MCAccountPages` | their instances |

`PROJECT.json` maps every definition that models code to its lines. A
definition whose comment begins with "Mutant" is a plausible bug of the
definition that follows it; no specification uses it, and each one breaks the
property it is listed with.

### Conventions that come from the code

* **A step is what runs between two awaits that let others run.** In `AwxSync`
  and `ProjectClone` this is a commit, a request to AWX, a git process; in
  `Administration` a statement, because requests are transactions that overlap.
* **Instances are stale on purpose.** `SessionLocal` has
  `expire_on_commit=False`, so a task goes on with the attributes it loaded.
  `Written(db, orm, new)` is the unit of work: an attribute that is assigned
  the value the instance has is not written, whatever the row holds.
* **Locks.** A session-level lock lives with its connection (`lost` in
  `AwxSync` is a sync whose connection died); a transaction-level lock ends
  with the transaction (`EndRequest`).
* **A crash** ends tasks without their handlers and frees what PostgreSQL
  frees. Committed rows and files stay.
* **A step of the client** is one event (of the user, a timer, an answer) with
  the render and the effects that follow from it, since React renders between
  events. A request is sent, read by the server and answered in steps of their
  own where the order of the last two can matter.
* **The query cache** is a library's: what it does (a first observer asks, an
  invalidation asks again and gives up what is under way, a failure keeps the
  data, an unobserved answer is evicted) is modelled from how `src/frontend`
  uses it, with `retry` off, and marked external. `stale` parameters stand for
  the stale time: both outcomes are explored.

### AwxSync

`awx` is AWX's table of jobs (absent, open, terminal, purged), `runs` the rows
imported, `dbCursor` and `dbStatus` the columns that steer a sync. Each worker
has `pc`, its instance (`ormCursor`, `ormStatus`), the locals of
`sync_controller` (`since`, `maxId`, `floor`, `cur`) and its place in the
listing (`pageNo`, `page`, `open`, `more`). The actions follow the function
from the pre-check of `sync_now` and the job's start (`SyncNow`,
`SchedulerFires`) over `TryLock`, `MarkRunning`, the loop (`FetchPage` to
`CommitCursor`), `SyncProjects`, `FinishOk`, and the handlers (`Fail`,
`RecordError`, `RecordErrorFails`) to `Release`. AWX starts, ends and purges
jobs between any two of them; pages are page-numbered, as AWX serves them.

`OddJobs` are jobs that AWX lists before they are terminal, which the
`pending_floor` branch is for. `SelfConflicting` jobs break a constraint on
their own rows. `Unfetchable` jobs have more events than `get_job_events` takes
(`AwxEventsLimitError`) or events that do not parse: every sync that comes to
one ends there with "error" (`MustFail`), so nothing after it is imported until
AWX's own clean-up removes it. `Fail` is the transient error, bounded by
`MaxFaults`. `InOrder` says that jobs which are not listed end in the order of
their ids: without it the cursor can pass a job (run `leapfrog`). So it can when
a purge between two pages moves a job across their border
(`AwxSync_drift.cfg`).

Two history variables serve the properties only: `unseen` has, for each worker,
the jobs that its listing has gone past without showing them, and `missed` the
jobs that a cursor then passed. With them `OnlyUnseenAreMissed` can say, in any
environment, that the sync itself loses nothing.

### Administration

An account is its address, a team its name. A request has `pc` (load, lock,
check, write), what it was asked (`op`, `user`, `team`, `inv`) and what it
remembers (`seen`, `sawActive`, `targets`). `NeedsAdminLock` reads `seen`, as
the code does, not the row. The three advisory locks are variables; row locks
appear where two transactions write one row. `Promotions` says whether anybody
is made an administrator: with it the last one can be lost (see
`Administration_promoted.cfg`).

### ProjectClone

The clone directory is seen as git sees it: a HEAD file, the remote's URL, what
the refs reach and which objects there are. A bare clone has no fetch refspec,
so a fetch brings objects and moves no ref, and `gc --prune=now` keeps what the
refs reach. `published` is the history of each source. A worker remembers its
instance (`loaded`), the link it resolved (`link`), `had_valid_clone` (`had`)
and `old_url`. `age` stands for `updated_at` against the stale limit of the
re-fetch. Around the workers, sources publish, administrators change the link,
the AWX mirror rewrites `scm_url`, the controller is deleted and the process
dies.

### LeaderScheduler

`state` is where a process is in its lifespan, `leaders` and `started` are
`_is_leader` and `_scheduler`, `jobs` the scheduler's table, `found` what
`_register_all` read before it registers. `leaderLock` names the session that
holds the lock; `lost` are leaders whose session PostgreSQL has dropped, which
nothing in the code notices. A process asks for the lock once, when it starts.
A request loads (`seen`), commits what it wants (`want`), and then reloads the
job in its own process with the attributes of its instance
(`ReconcileController`), which is nothing unless that process leads.
`elsewhere` records, for a property only, which controllers were changed in
other processes since a leader read them: the code has no way to tell it.

### PathExplorer and PathCanvas

`view`, `iter`, `neverRun` and `selected` are the state of `PathView`; `cache`
and `flight` the queries by their keys (`TreeKey`, `ResultsKey`), `last` the
tree that `keepPreviousData` leaves on the page. `Render` is a render with the
queries it observes for the first time and the clamp of the iteration. While
the tree of a view is pending the user acts on the one before, which is why
`Enter`, `Step` and `Select` take their nodes from `Shown`. `Answer`,
`RequestFails` and `Evict` come in any order.

`PathCanvas` takes the drawn layout as input. A transform is who set it (`by`)
and for which layout (`to`); `frame` is a fit that waits for an animation
frame, `wheel` the element with the listener, `press` and `moved` the gesture,
`source` the node whose code is shown in the overlay. `FitKey` is the signature
that decides whether a new tree is a new picture. Seen on the way: Escape
closes the overlay and the drawer together; `sourceNodeId` survives navigation;
a card that was dragged a little is selected by the mouse-up.

The two share no state: the canvas takes any layout at any time, whatever tree
the navigation shows. `MCPath` therefore checks them in one run that steps one
of them, chosen at the start (`side`), and leaves the product out.

### LogsView

`loc` is the view in the address, `seen` the one that is rendered, `stored` the
one in localStorage, `past` the history. `Arrive` is the mount with its two
effects, restore and store, in their order; `Render` a change of the address
with the store effect. Every control merges what it changes into the address
(`Update`), from what it has *rendered*: of two quick changes of the filters
the second is kept. `Draw` is the observation of the query of a view,
`NextPage`, `Answer`, `FetchFails` and `Invalidate` are what happens to its
pages. A query's `data` are the runs of its pages one after the other, how many
pages there are, and the totals of the first, which the page shows, and of the
last, which decides whether there is a next one. The server orders by the
column with NULL last in both directions, then by id (`Before`), and answers
with the runs at the places the offset names (`Nth`). The pages are offsets: a
run that comes or goes between two of them is repeated or missed, so
`ListIsOfTheView` speaks of answers that no such change interrupted (`calm`).

### ControllersPage

`rows` and `sync` are the server's controllers and background syncs, `queue` the
tasks that were accepted and have not started: `sync_now` refuses a controller
that is running, so a second 202 is possible while the first task waits, and a
task that finds another at work skips. `list` and
`fetch` the polled query, `news` the controllers with runs that the client has
not fetched. `posts` and `busy` are the "Sync now" requests, whose click writes
"running" into the cache before any answer; `SetData` compares each answer with
what was shown, and the end of a sync is that difference. `modal` is the form
with its light; a save closes whichever form is open when it is answered.
`tested`, `asked` and `overtaken` are there for `GreenIsOfTheForm` only: which
connection was tested, and whether the form or its row was changed since.

### ProjectPage

`srv` is the project as its page can tell (status, whether there is a clone,
uploads), `query` the cached detail and the two trees, `gitRef` and `triggered`
the state of the file browser and of the clone button, `post` the request of a
form. The page polls while the status it has last read is of a clone under way,
and asks for the tree at HEAD only when that status is "cloned". `mine` and
`blind` are there for the properties only.

### AccountPages

`srv` is the account, whether the installation needs its first one, and this
browser's cookies; `query` the two cached answers that the guards
(`PublicOnly`, `ProtectedRoute`, `SetupWizard`) read; `scan` and `panel` the QR
code and the recovery codes, `post` a form's request with its `live` page.
`Redirect` is the guard's effect. `lag` marks data that were old when
they came or of which the client was not told, `why` what a fetch was for;
both are there for the properties only.

## What TLC checks

| Run | Instance | Shows |
|---|---|---|
| `core` | 2 tasks, 2 jobs (one odd), one purge, fault, crash and lost connection | types; syncs never overlap; the lock has an owner; no job is passed over; "running" needs a sync |
| `single` | 1 task, 4 jobs on pages of one (one odd and unfetchable, one in conflict with itself), purge, retention, deletion, fault, crash, fairness | the sync implements `ImportLedger`; it passes no job that a page has shown; "running" while it lists, and always reset; no orphan runs; a finished job is imported unless an unfetchable one is in the way |
| `leapfrog` | 1 task, 2 jobs that end out of order | refutes `NotLeapfrogged`, see Findings |
| `admin` | 2 accounts, 2 teams, 1 invite, 2 requests of any kind | types; an administrator remains (without promotions); everyone in a team; setup is alone |
| `clone` | a requested clone and the re-fetch, 3 sources (one not clonable), 2 revisions, one change around them, one mishap, fairness | one at work; "cloned" has a directory; good clones stay; nothing stays pending; links are followed |
| `scheduler` | 2 processes, 1 controller, 2 intervals, 1 request at a time, 2 mishaps, fairness | one scheduler; its jobs are those of the rows; scheduling resumes |
| `path` | a loop of two items, a role with a loop of one item and a ghost; one request in flight and one cached answer when the user acts; fairness. For the canvas 4 layouts: two equally large, two alike | what is shown is of the view, the iteration and the branches asked; the stepper stays in range; an open view loads; every picture is fitted or the user's; a gesture is not undone; the wheel is bound |
| `hosts` | a loop of two items that ran on two hosts | refutes `DrawerMatchesIteration`, see Findings |
| `logs` | 3 runs on pages of two, two of them equal in the column, 2 tabs, 1 source, 1 filter, 1 search, 4 events | the list is that of the controls; the view returns |
| `controllers` | 2 controllers, 2 servers, 1 token, 3 events, fairness | chips settle; a sync seen running is followed to its runs; green is of the form |
| `project` | 1 page, 2 events, fairness | the end of a clone is seen; the source appears; uploads are shown |
| `accounts` | 1 account, 1 browser, 4 events, fairness | "me" is fresh; recovery codes stay; the guards lead in |

The types of the clone, the scheduler, the explorer, the canvas, and the pages
of logs, controllers, projects and accounts are proved for all instances and
need no run.

**Why the bounds are enough for what they show.** Two actors are where all the
races here begin: the guards are pairwise (a lock, a count of others), and
every third actor meets the same lock. Two jobs are the least with an order
between them; four jobs on pages of one make the listing walk several pages
with a purge, a retention or a crash between them, and leave room for jobs before
and after the one that cannot be fetched. One fault, one crash, one purge, one
lost connection each may fall on any step, and each leaves the state in which
the next sync has to recover. Two teams are what it takes to leave either; one
invite meets the deletion of its team. For the clone, one change of the
surroundings may fall on any step of either worker. For the scheduler, two
mishaps let a lost connection be followed by a crash or a failed start of the
new leader; a second request is left to `LeaderScheduler_hotreload.cfg`, which
shows what it breaks. In the client `MaxEvents` counts what users, others and
failures do, never what follows from it (answers, renders, timers, redirects):
three or four events are a change of page, a request and its failure, or a
change on another device in between, and every order of their answers. The four
layouts of the canvas are one pair that a signature by size alone would confuse
and one that it rightly does not tell apart. The bounds of the explorer limit
how much is under way *when the user acts*, so that the number of requests in
flight may be one more. That more of each adds nothing is what the theorems
show, where they exist.

**Fairness.** `AwxSync!FairSpec` has weak fairness for every task's next step
(the event loop runs what is ready, and every request to AWX has a timeout)
and for the interval job, which fires again and again; the user, AWX and the
faults have none. `ProjectClone!FairSpec` is the same for clone workers (every
git process has a timeout), the re-fetch job, and the clock that makes a row
stale. It assumes that the process lives longer than the re-fetch interval
from some time on: the interval restarts with the process (a listed hazard).
`LeaderScheduler!FairSpec` has weak fairness for a process that starts or
stops: one that is down is started again (`restart: unless-stopped` in
`docker-compose.yml`, gunicorn for its worker). Nobody has to shut a process
down, so a process that was not elected may serve for ever, and what resumes
scheduling is the restart of the one that led. A reload that starts new
workers before it ends the old ones, and never restarts those, is not such a
deployment: there the lock could stay free with nobody to ask for it.

In the client, `FairSpec` has weak fairness for what the browser and the server
do by themselves: timers and redirects happen, a request is read and is
answered or fails (`fetch` ends), a background task that has started ends (the
subject of `AwxSync` and `ProjectClone`). The user, other devices, failures and
the network owe nothing, and a page that is left is asked for nothing: each
property ends with the page. `PathCanvas` and `LogsView` state no liveness and
no fairness.

`CHECK_DEADLOCK FALSE` stands where the system may really end: a deleted
controller or project leaves nothing to do once the bounds are used up, and a
user of the project or account pages may stop.

## What TLAPS proves

All theorems hold for every value of the constants that satisfies the named
assumption of the module, so for any number of tasks, jobs, accounts, teams,
sources and faults.

* `AwxSyncProofs`: `TypeCorrect`. `NoOverlap` and `LockOwned` rest on
  `LockInv`: a worker in its critical section holds the lock or has lost its
  connection. `CursorPassesTheUnseen` proves
  `OnlyUnseenAreMissed` and assumes nothing of AWX or of the other tasks: jobs
  may end in any order, pages may drift. It is not inductive: `SeenInv` adds,
  for every worker and every place in the loop, that each job up to what the
  worker would write is settled, missed before, unseen by its own listing, or at
  or above its floor, and that what is imported has ended. Where the listing
  shows every job (`Orderly`: `InOrder`, and a page as large as the listing)
  `NoneUnseen` holds, and two corollaries follow: `CursorNeverSkips`
  (`NothingLost`) and `OrderlyIsNotLeapfrogged`, so that what the run `leapfrog`
  refutes is broken by the order in which jobs end and by nothing else in the
  sync. AWX does not grant `Orderly`; the theorems say what rests on it.
  `RunningIsReset` proves `IdleNotRunning` from `StatusInv`: while the row says
  "running" and nobody died, some worker has yet to write an outcome that
  differs from what its instance says, so that the unit of work writes it.
  `AloneIsVisible` is about one task (`Alone`): a second one may have loaded
  the "running" of the first, and then writes none. `NoRunOutlivesController`
  needs no lock, since deletion and insertion meet at the row. `LedgerKept` is
  the refinement: `AwxSync` implements `ImportLedger` step by step under the
  mapping of `MCAwxSync`. It has two hypotheses: one task (`Alone`), and a
  listing whose pages ascend (`Ascending`: jobs end in order, or one page holds
  the listing). `LoneInv` adds that the instance's cursor is the row's, that
  jobs are taken in ascending order above it, and that what was written is below
  the floor. That pages ascend although purges move them is `RankInv`: with
  `InOrder`, the jobs taken keep a rank no higher than the pages that were read,
  so that the next page is above them. `LoneCursorGoesForward` says that one
  task never rewinds. It needs less, in any order of ends: no odd jobs, which is
  what `FINISHED_FILTER` asks of AWX, or `Ascending`. Neither hypothesis can go:
  a second task may rewind the cursor (`AwxSync_rewind.cfg`), and so may one task
  that is shown an odd job on a page which another job's end has moved
  (`AwxSync_relist.cfg`).
* `AdministrationProofs`: `TypeCorrect`. `SetupOnce` from `SetupInv` (who
  passed the check holds the lock, and an invite is sent only once there is an
  account). `AdminStays`, for `~Promotions`: `AdminInv` adds
  that a request past its check holds the lock and has another active
  administrator, and that who took no lock has a target that is still a plain
  user. `EveryoneStaysInTeam`: `TeamInv`
  adds the same for the team that a removal or a deletion leaves to each
  member, and that an accepted invite joins General, which nobody deletes.
* `ProjectCloneProofs`: `TypeCorrect`. `CloneInv` ties the lock, the place of
  each worker, `had_valid_clone` and the directory together: only the lock's
  holder has a first clone under way, and then no project says "cloned" and
  nothing was fetched. `OneWorker`, `ClonedIsThere` and the action property
  `GoodCloneIsKept` follow. Two theorems bound statements that are refuted
  below. `HeadResolves`: without the step `Crash`, "cloned" has a HEAD that
  resolves; `HeadInv` adds that a HEAD file without refs is that of a first
  clone under way, and that who works in the directory has a link that git can
  clone.
  `FetchedIsHeld`: without the step `DiscardRejectedFetch` nothing that a
  successful run brought is lost.
* `LeaderSchedulerProofs`: `TypeCorrect`; `OneLeaderRuns` from `LeaderHolds`
  (who is started has been elected, and an elected process whose session lives
  holds the lock). `JobsFollow` is conditional on `OneAtATime`, one request at
  a time (see `LeaderScheduler_hotreload.cfg`): `Follows` adds that what a
  route loaded is still the row, that no request is served by a process that
  starts or stops, and that what registration selected is current but for
  changes made elsewhere.
* `AdministrationProofs`, of `ControllersPage`: `PageTypeCorrect`, whose
  `PageTypeOK` says of an open form that its light is green exactly when there
  is a tested connection, and a test pending exactly when there are fields it
  was asked for. `GreenIsTrue` follows from it: the argument goes by who may
  write the light and who may change what it speaks of.
* `PathProofs`, of `PathExplorer`: `TypeCorrect`: the clamp by any tree that is
  still on the page leaves an iteration that some loop has. It rests on the
  assumption that no node of a run has one of the four synthetic ids of the tree
  of a loop (`loopRoot`, `item`, `task`, `result`). `ShowsWhatIsAsked` from
  `CacheInv`, that every answer in the cache is the one its key asks for.
  `StepperStays` is conditional on
  `OneLoopEach`, one loop in a view at most: `LoopInv` adds that the tree on
  the page of a loop, its own or the one before, is of the loop or of the view
  that lists it. `PathExplorer_loops.cfg` shows what happens without.
  `DrawerIsOfRow` is about any number `h` of hosts: the drawer asks for the row
  at the offset `iter`, and gets a result of the item `iter \div h`. That is the
  iteration on the page for the first one, or with one host; otherwise it is an
  earlier one (run `hosts`).
* `PathProofs`, of `PathCanvas`: `CanvasTypeCorrect`; `WheelIsBound`;
  `PicturesArePlaced` and
  `GesturesStay` for layouts with `KeyIsFaithful`, that is, whose signatures
  (number of nodes, first node, size) differ where what is drawn differs. The
  code does not promise that, and the hypothesis says what rests on it.
* `LogsViewProofs`: `TypeCorrect`; `ListIsRight` and `ViewComesBack`. The first
  part is about the server's order: `Before` is a strict total order whatever
  ties and NULLs a column has (the tiebreaker is what makes it one), so in a
  finite set there is exactly one run at each place (`NthIsThere`, `EachIsNth`)
  and places are in the order (`NthIsBefore`). `PagesJoin` says that a page at
  the offset of what is loaded continues a list of the first places, and that
  no next page is due only when all places are there. `LogsInv` adds that every
  query, and every fetch on its way, that no change interrupted holds the
  places of its own key from the first on, that a fetch goes on only where
  there is a next page, and that what is stored is what is rendered. A page
  size of at least one is all that is asked of `Size`.
* `AccountPagesProofs`: `TypeCorrect`. `CodesStayOnPage` from `Codes`: codes
  are shown or issued only where a section is, nothing but a way out is sent
  while they are shown, and a fetch that is under way then was asked before
  them or by the network. `UserIsKnown` from `Fresh`: whenever the cached user
  differs from the server's without any sign of it, a form's answer that will
  tell is on its way, or the codes of the enrolment that made the difference are
  still on the page, whose "Done" invalidates; the two need `Codes` to know that
  no other form is settled over them. Nothing of `Fresh` is about counts, so it
  holds for any number of events.
* `ProjectPageProofs`: `TypeCorrect`; `UploadsSeen`. `UploadInv` adds what a
  fetch under way can have read: an upload either invalidates a tree that is
  asked for again or marks what was asked for before it.

**Only model-checked.** Liveness (`NeverPinned`, `FinishedIsImported`,
`PendingSettles`, `LinkIsFollowed`, `SchedulingResumes`, `OpenViewLoads`,
`ChipSettles`, `EndIsFollowed`, `EndIsSeen`, `SourceAppears`, `GetsIn`): proofs
under fairness and of ENABLED are out of this prover's reach, as are induction
over data and RECURSIVE operators, which no module here uses. Every invariant and
action property that a passing run checks is proved, some under the conditions
above, and so are the types of every module.

## Findings

The run `leapfrog` refutes `NotLeapfrogged`: the listing's filter leaves
unfinished jobs out, so the floor never sees them, and the cursor passes one
that ends late. The run `hosts` refutes `DrawerMatchesIteration`: the list of a
loop's results has a row for every item and host, `PathDrawer` uses the
iteration as an offset into it, and with two hosts the drawer of the second item
shows the first item's result on the second host. `PROJECT.json` quotes the
lines that make the statements.

The next statements are refuted too. Their configurations are kept beside the
modules without being runs, and TLC finds each counterexample within minutes
(`tlc -config AwxSync_pinned.cfg MCAwxSync`, and so on).

| Configuration | Statement | What happens |
|---|---|---|
| `AwxSync_pinned` | `NeverPinned` | a task that dies leaves "running"; on a manual controller the pre-check then answers 409 for ever |
| `AwxSync_rewind` | `ForwardOnly` | the cursor was loaded before the lock: a second sync starts from the old one and, after retention, writes a smaller one |
| `AwxSync_relist` | `ForwardOnly` | one task: the end of another job moves the pages, an odd job is shown after a higher one was imported, and its floor is below the cursor that was written |
| `AwxSync_drift` | `NothingLost` | AWX removes a job between two pages, and the one that moves to the page before is never shown |
| `AwxSync_blocked` | `FetchableIsImported` | a job with too many events fails every sync, and no job after it is imported |
| `Administration_promoted` | `AdminRemains` | a target loaded as a plain user is deactivated without lock and count, though promoted since |
| `ProjectClone_orphan` | `ClonedHasHead` | a first clone that is interrupted leaves HEAD; the retry fetches into it and says "cloned" |
| `ProjectClone_gc` | `HoldsEveryFetchedRevision` | a fetch that fails collects what earlier fetches brought |
| `LeaderScheduler_hotreload` | `JobsFollowRows` | of two requests on one controller the last to reload decides, with the attributes it loaded: a rename can drop the job that another update has just asked for |
| `PathExplorer_loops` | `IterationExists` | with two loops in one view a step on the pending page is clamped to the loop before |
| `ControllersPage_follow` | `Converges` | a sync that starts and ends between two answers is never seen to end, and its runs are not fetched |
| `ControllersPage_light` | `LightIsOfTheForm` | a verdict that comes after an edit lights up beside the edited form |
| `ProjectPage_fresh` | `EnabledIsFresh` | a tree at HEAD younger than its stale time is not fetched again when a clone ends |

Seen on the way, without a statement to refute: `cloneTriggered` stays set
after its clone; a list of controllers that failed to load at first reads as
"No controllers yet"; a next page that fails replaces the whole list of runs by
its error; recovery codes are lost when a reconnect fetches "me" anew; an
answer "nobody" to an older `/auth/me` overwrites a login.

## Not modelled

Contents (logs, events, error texts, sizes, credentials), audit rows and
progress columns, which no guard reads. In the modelled parts: the events of a
job and the matching of its errors (one step of the import, which may fail),
session revocation on deactivation (planned with sessions), browsing a
revision. A route's load and commit are one step in `ProjectClone`. Two git
processes in one directory, after a lost lock connection, are left out: what
git then leaves is not this code's.

In the client: animations, coordinates, wording and layout; the scope of hosts
and the inputs of the explorer; pinned revisions and directories of the file
browser; names, modes and assignments in a form; `must_change_password`, which
the guards read and nothing in the program sets. The components of
`PROJECT.json` that are `not_modelled` have their reason there.

The hazards of `PROJECT.json` without a property are the stale cursor and the
unfinished first clone, which have configurations above, and a login that
commits after a revocation, which needs sessions with concurrent requests.

## Plan

In this order; the first five are there.

1. `AwxSync`, with `ImportLedger`, its proofs and that of the refinement.
2. `Administration` and its proofs.
3. `ProjectClone` and its proofs.
4. `LeaderScheduler` and its proofs.
5. The client: `PathExplorer`, `PathCanvas`, `LogsView`, `ControllersPage`,
   `ProjectPage`, `AccountPages`, with the first proofs.
6. `Accounts`: sessions, pending logins, password and second factor, with
   concurrent requests and a bounded clock. To prove: a code and a recovery
   code open at most one session; to check: what a revocation leaves.
7. `KnowledgeBase` and `Discussion`: back-fill against ingestion, visibility as
   an operator shared by both, threads and notifications.
8. `RateLimiter`, `UploadQuota`, `UploadBatch`: limits under concurrency, and
   a batch that lands as a whole. To prove: the quota.
9. `RunTree`, `StatusRollup`, `RunDiff`: the pure algorithms as folds, each
   against a reference definition over bounded inputs.
10. With each of them its invariants as theorems.

The runs of steps 6 to 9 take one instance each, of two actors and two objects.
