# Verification of sunbeam-watchtower

TLA+ models of the parts of sunbeam-watchtower that run concurrently, retry,
or have to survive a failure, the TLC configurations that check them on small
instances, and TLAPS proofs of the properties that matter most for every
value of the constants. Paths are relative to the repository's source tree;
`PROJECT.json` maps every definition to the lines it models.

1. [The system](#1-the-system)
2. [Modules](#2-modules)
3. [Runs, bounds and results](#3-runs-bounds-and-results)
4. [Fairness and assumptions on the environment](#4-fairness-and-assumptions-on-the-environment)
5. [Proofs](#5-proofs)
6. [What is not modelled](#6-what-is-not-modelled)
7. [Plan](#7-plan)

To repeat a result: `tlc -config OperationService_jobs.cfg OperationService`
for a run, `tlapm OperationServiceProofs.tla` for the proofs of a component.

## 1. The system

Watchtower is a server (`watchtower serve`) with command-line and terminal
clients. The server holds an `App` with services; handlers of the HTTP API call
them. Long work runs as *operations*: a handler calls `operation.Service.Start`
with a function, gets a job back, and clients poll it, cancel it or wait for
it. A command without a server runs the same services in its own process.

| Component | State | Operations | Interacts with | What is hard |
|---|---|---|---|---|
| Operation service, `core/service/operation` | maps of cancel functions and done channels; jobs and event streams in the store | Start, Cancel, Wait, Get, List, Events, recovery at start-up | API handlers, one goroutine per job, the store | read-modify-write in two transactions, cancel and wait racing the end of a job, exit at any step |
| Job store, `adapter/secondary/operationstore` | bbolt file, or a map | Create, Get, Update, List, AppendEvent, Events | operation service | failing or closed store |
| Build trigger, `core/service/build` Trigger | configured artifacts (shared slice), recipes and builds at Launchpad | assess, create, request, retry, wait for records | Launchpad, worker pool | slice filtered in place, overlapping calls, lost replies |
| Worker pool of the build service | channels, context | Trigger, delete recipes, delete branches | operation's context | cancellation against an unbuffered channel |
| Wait for builds, `waitForBuilds` | snapshot, retry budget, deadline | poll, retry, settle, refresh | Launchpad | stale snapshots, budgets, failing lists |
| Artifact download, `Download` | slots, done channel per destination, files | discover, transfer, rename | Launchpad, file system | order per destination, cleanup, exit in a transfer |
| Build listing and cleanup | none | List, Cleanup | Launchpad, worker pool | partial failure |
| Local server manager, `primary/runtime`, `api/server.go` | socket, PID file, metadata file, lock of the operation store | Status, EnsureRunning, Stop; start and shutdown of a server | client and server processes | two clients at once, a file of another server, a server that still ends |
| Configuration reload, `App.ReloadConfig`, `ConfigWatcher`, SIGHUP | one pointer under a lock, a debounce timer | reload | file system | older content installed last |
| Authentication, `core/service/auth`, `authflowstore`, the Charmhub credential provider | pending flows, credential file, a mutex | begin, finalize, log out, refresh | four providers, stores | a flow deleted before the result is saved, a refresh that saves what a login replaced |
| Bug cache, `bugcache` | tasks, bugs, sync time, schema | Sync, write-through, fresh lookup, clear | bug tracker | merge of a stale read, sync time taken late |
| Bug synchronisation, `core/service/bugsync` | the tasks it fetched | Sync, dry or not | git caches, stores, bug tracker | stale status before an update, tasks of several projects, partial failure |
| Team synchronisation | none | Sync | stores, teams | partial failure |
| Distro, excuses, review and git caches | bbolt index, files | Update, Sync, EnsureRepo | remote archives | shared temporary names, metadata read-modify-write |
| Local build preparation, `frontend/build_prepare.go` | the user's checkout, branches on Launchpad | PrepareTrigger | git, Launchpad | failure or kill between checkout and restore, runs that share a checkout and branch names |
| SRU snapshot | one file | RefreshSRU, SRUSnapshot | Launchpad | bounded fan-out |
| Other services, adapters, CLI, TUI, API handlers, DTOs | none of their own | queries, conversions, rendering | – | – |

What makes each component correct:

* **Operations.** A settled job stays settled; its event stream announces one
  outcome, the one stored; `cancelled` has a request; no job stays unsettled
  without someone who drives it; waiters wake up and read the outcome.
* **Trigger.** Skipped artifacts are never built; wanted ones are; a call
  without an error leaves builds or a request; builds are not requested twice.
* **Pool.** No item is lost; the caller always returns (which the code does not
  keep when it is cancelled).
* **Wait.** The retry budget holds; "finished" means finished (but for failed
  lists and lost replies); what a deadline returns is up to date; the wait ends.
* **Download.** Destinations hold whole files, the last fetched one; nothing
  is left at work or on disk; the download ends.
* **Local server.** Commands that take turns leave one server that clients
  reach, know and can stop, with its jobs on disk, also after commands that were
  killed half way.
* **Authentication.** A login the user agreed to can be finalized, and is saved
  once its credentials were handed out; a refresh undoes no login or logout.
* **Bug cache.** A row that differs from Launchpad is one the next
  synchronisation asks for.
* **Bug synchronisation.** Nothing is released that did not ship as far as the run
  can see, no status is lowered that it can see, a run without an error leaves nothing to do, a dry run tells what a
  run does.
* **Local preparation.** Launchpad gets the tree of the commit the run began
  with, processes it, and the user's checkout is as before.
* **Reload, file caches** (not modelled). The configuration installed last is the
  newest; what a cache answers is what the remote said at or after the recorded time.

## 2. Modules

| Module | Models | State and actions against the code |
|---|---|---|
| `OperationLifecycle` | what the operation service promises of a job: submitted, begun, settled, or interrupted when the process that owned it is gone | abstract specification |
| `OperationService` | `operation.Service` over its store | An action is one store transaction, one critical section of `Service.mu` or one channel operation. `startPc` is the caller of Start, `runPc` the goroutine `runJob` with `finishJob` and `signalDone`, `canceller` and `waiter` the clients. `jobs`/`events` are the store; `cancels`/`dones` the maps; `closed` the closed channels. `NewService` and the `Recover*` actions are start-up, `CloseStore` is `App.Close`, which may come under calls that are under way, `Exit` the end of the process. |
| `WorkerPool` | the pool of Trigger (service.go:327-376) and of the two concurrent deletes | `caller` is the dispatcher and then `wg.Wait`; `Send` is the rendezvous on the unbuffered channel; `WorkerCheck` the `ctx.Err()` test after the receive, which drops the item. |
| `LaunchpadBuilds` | the builds Launchpad keeps, as ListBuilds and RetryBuild show them | environment, shared by the next two |
| `BuildWait` | `waitForBuilds` | `ListOK`/`ListError` are one call of ListBuilds each; `purpose` tells the poll that decides from the refresh after retries and the last look at a deadline or a cancel; `remaining` is the map of budgets; a retry is two steps, the test of the context (`RetryStarts`) and the answer of the POST, which may be an error although Launchpad took it; `stale` and `accepted` are history. |
| `RecipeFilter` | the list of recipes of a call: `filtered := recipes[:0]` over the configuration's own array | one read or one write of an element per step, so calls interleave inside the filter; a caller's `stage` is the phase of its call |
| `BuildTrigger` | what calls do to one recipe: `assessRecipe`, `executeAction`, `waitForBuildRecords` | one request to Launchpad per action; `requests` are accepted and not yet processed; `blind` and `duplicate` are history |
| `ArtifactDownload` | `Download`, `downloadFile`, `downloadFileOnce` | `caller` is the discovery loop, `task` the goroutine of each file, `temp` and `dest` the file system |
| `LocalServer` | `LocalServerManager`, `serve`, `api.Server`, the store a server opens | each file is the server it belongs to; `client` is the command a client is in (Status is a read of the files and a health check), `proc` the life of a server from its start over `Unlink`, `Listen`, `Shutdown`, `RemoveSocket` to the end of the process, `store`/`storeLock` the operation store it got; `Dies` ends a command at any step, and leaves `orphaned` the server it has started |
| `AuthFlow` | the auth service, its flow store, the credential file, `CredentialProvider.Refresh` | one provider per behaviour; `pc`/`at` of a caller is the step of its Begin, Finalize, Logout or API request; `grant` is what the user and the provider make of a login |
| `BugCache` | `bugcache` tracker and store | `pc` of a client: list, merge, replace of Sync; find, check and write of the write-through and of a fresh lookup; `Stop` is a failing step or the end of the process at any of them. `recent` stands for the times: what the next incremental request returns. `duplicates` are the tasks no search returns |
| `BugSync` | `bugsync.Service` for one bug | a run collects evidence of its own (`seen`: on which branches the commits are, which stable branches could be listed, what the tags say), fetches the bug, adds project tasks, then series tasks, then raises statuses, one request per step, of which only the answer may be lost. `Found` are the tasks the bug has before. `New` stands for every status the code ranks lowest |
| `LocalPrepare` | `LocalBuildPreparer.PrepareTrigger`, the git client, `RepoManager` | one git command or request per step; `local`, `head`, `remote` are the repository, `lp`, `indexed`, `onMain` Launchpad's; `isolated` tells the worktree from the dance in the user's checkout |
| `MC…` | values of constants, symmetry | |
| `BuildServiceProofs` | extends `RecipeFilter`, `WorkerPool`, `BuildTrigger` | theorems about each of the three parts of Trigger |
| `ServerProofs` | extends `AuthFlow`, `LocalServer` | theorems about the logins and about the process of the server |
| other `…Proofs` | extend the module they are named after | theorems and inductive invariants |

**Composition.** `LaunchpadBuilds` is extended by `BuildWait` and `BuildTrigger`,
which conjoin its environment steps with their own. `OperationService`
instantiates `OperationLifecycle` with a refinement mapping: the status of a job
is the stored state, the owned jobs are those Start stored in this process. The
operation's context reaches the pool, the wait and the download as their `Cancel`
action, which may come at any step – `CancelCall` of `OperationService` is the
code that causes it. `LocalServer` tells which store a server's
`OperationService` has: its `Persistent` is `store = "file"`. The calls that
`LocalPrepare` ends in are those of `BuildTrigger`, and the branches its `Delete`
removes are deleted by a pool of `WorkerPool`.

**Abstracted.** Times, names, summaries, error texts and progress contents; the
operation's function; the answers of Launchpad beyond the state of a build,
whether it can be retried, and whether a request or retry is still pending. An
error of a request is a step that may happen a bounded number of times.

**Faulty variants.** A definition `X_Bug` (or `X_Bug…`) is `X` with a plausible
mistake. No specification uses it; with it in the place of `X`, TLC reports the
property named in `PROJECT.json` as violated. Each property has one.

## 3. Runs, bounds and results

| Run | Question | Instance | Holds |
|---|---|---|---|
| `op` | Do the stream, the store and the registrations of a job agree, across failures, cancels and a restart? Does everything settle and everyone wake? | 1 job, 1 canceller, 1 waiter, persistent store, 1 failing transaction, 1 exit | VerdictIsPersisted, NothingAfterVerdict, CancelledWasRequested, CancelFindsUnsettled, NoOrphan, WaitSeesFinal, FinalIsFinal, LifecycleSpec, JobsSettle, WaitersReturn |
| `pool` | Does the pool handle all items, and what can keep it from returning? | 4 workers, 6 items, a cancel at any step | AllHandled, StrandedByDrops, PoolSettles |
| `pool_hang` | Does the pool return? | the same | *violated*: PoolReturns |
| `wait` | Budget, freshness, termination of a wait | 2 recipes with a build each, 2 attempts, 1 failing list, 1 failing retry | TypeOK, RetryBudget, ListedFinished, FreshAtDeadline, WaitReturns |
| `download` | Order, wholeness, cleanup, termination | 3 files, 2 of one destination, 2 slots, 2 attempts | OneWriter, LastFetchedWins, WholeFiles, CleanReturn, DownloadReturns |
| `filter_calls` | What do calls act on? | 3 artifacts in any order, any skipped set, 2 callers, 3 calls | OnlyWanted, WantedFirst |
| `trigger_calls` | Are calls effective, and duplicates explained? | 2 callers, 3 calls, 3 builds, 2 errors | EffectiveCall, DuplicateHasCause |
| `auth_logins` | Is a login lost, or undone? Does every call end? | 2 logins, 2 callers, any of 4 providers, 1 faulty login, 1 expiry | TypeOK, NothingLost, RefreshKeepsLogin, CallsReturn |
| `server_turns` | Do commands lead to one usable server? | 2 clients, 2 servers, 1 crash, failing write or killed command | OneServer |
| `bug_cache` | Is anything stale for good? | 2 tasks, 2 statuses, 2 clients, 3 changes of a status or of being a duplicate | NothingForgotten |
| `bug_sync` | Are statuses right, also for shared tasks and two runs? | 2 projects of one Launchpad project, 2 series, 3 commits, 3 kinds of evidence for each run, 3 bugs to begin with, 2 runs, 1 edit, refused request or lost reply | ReleasedIsShipped, PlanIsWhatRuns, CleanMeansDone, NeverLowered |
| `local_prepare` | Is the right tree built and the checkout as before? | 2 runs, 2 commits, 3 failing steps or kills | SourceOnLP, RefsProcessed, CheckoutRestored |

The type invariant of every module is a theorem; those of `BuildWait` and `AuthFlow`
are in their runs too, the others are checked by adding `TypeOK` to the cfg
(`FilterTypeOK`, `PoolTypeOK`, `ServerTypeOK` in the modules that share a proof
module with others, where names must differ).

### Where the code does not keep what it says

Each of these was found with the modules here. The first is the run `pool_hang`. The
next four can be seen again by adding the property that is named to the cfg; the others
are the cases that a property excepts by the name given, and appear when that exception
is taken out of it.

* *A cancelled pool with more items than workers may not return.* Workers test
  `ctx.Err()` after they receive and return; the dispatcher tests it before it
  sends (build/service.go:336-339, 353-357). A cancel between the dispatcher's test
  and those of all workers (`defaultConcurrency`, four) leaves it sending to
  nobody, and Trigger, with its operation, never ends. `StrandedByDrops` and
  `PoolSettles` say that this is the only way, and `OnlyDropsStrand` proves the
  first for every number of workers and items: it takes a cancel, one dropped item
  per worker, and one item more. The two concurrent deletes and `fetchBugs` of the
  bug cache (tracker.go:395) have the same loop.
* *A wait without an error need not mean that all builds are terminal.* A failing
  ListBuilds is skipped with `allTerminal` left true (service.go:626-630), and the
  other recipes decide alone; and a retry that Launchpad took, but whose answer is an
  error because it is lost or the context was cancelled meanwhile, is only logged
  (673-678): `retried` stays false and the wait returns nil while the build runs
  again. `ListedFinished` excepts the builds of both. – `OkMeansFinished` in
  `BuildWait_fair.cfg`.
* *The snapshot of a cancelled wait may be old.* A cancel between two retries
  returns what was read before the first (service.go:663); the refresh happens
  only when the cancel comes during the settle delay. The test that says otherwise
  (service_test.go:1546) cancels there. – `FreshAtCancel` there.
* *Trigger acts twice on one recipe.* The filter writes through to the
  configuration's array, so with `skip_artifacts` in front of a wanted artifact
  it ends with a repetition which the next call acts on. Calls that overlap may
  also miss one, which `WantedFirst` excepts; calls one after the other miss none
  (`NoneIsMissed`). – `OncePerCall` in
  `RecipeFilter_calls.cfg`.
* *Trigger is not re-entrant* (service.go:161). `waitForBuildRecords` is content
  with any build, so it may return on a superseded one while the request is
  pending; the next call requests again. So it does after a lost reply or a failed
  list. `DuplicateHasCause` excepts these (`blind`), and says that the minutes
  Launchpad takes to show the records are not a cause. – `NoDuplicate` in
  `BuildTrigger_calls.cfg`, also with `Call = {c1}` and `MaxErrors = 0`.
* *Wait of an operation* (operation/service.go:125 and 252). A Wait that finds the
  job between Start's `store.Create` and the registration of its channel returns
  it queued, and when the outcome cannot be persisted the channel is closed all
  the same. `WaitSeesFinal` names both cases (`how = "early"`, `faults > 0`).
* *Commands for the local server that overlap*, or one that finds the socket of a
  server gone while its process still ends, may leave two servers, a server nobody
  reaches, or one with its jobs in memory. `OneServer` excepts them (`overlapped`).
  A command killed between the start of its server and the writes of its files leaves
  a server that others reach but whose PID they do not know (`orphaned`).
* *A login is lost* when the flow store or the credential file fails after the
  provider handed out the credentials, or when its answer is lost (`hurt`); a
  login or logout between a refresh's load and its save is undone (`crossed`).
* *The bug cache loses rows* when reading the existing ones fails, whose error is
  dropped, or when it is cleared under an incremental synchronisation (`lossy`). The
  rows of a bug that becomes a duplicate stay as they are until the cache is built
  anew: the searches omit duplicates (launchpad_bugs.go:116), and `NothingForgotten`
  excepts them.
* *A status is lowered* when another client, or a run that has newer commits, tags or
  branches, raises it between the fetch and the update of a run (`crossed` in
  `NeverLowered`); the comment at bugsync/service.go:335 speaks of the fetched status
  only. A series task that is refused, or whose reply is lost, is not reported
  (`quiet`).
* *A run without an error may leave a task to raise, when there are three.* One
  fails to add the task of the project, reports it, and goes on to add a series
  task (bugsync/service.go:906). The second begins and is content with that. The
  third, which fetched the bug before, then adds the task of the project under the
  second, after that has looked for statuses to raise. The attempt to prove
  `CleanMeansDone` showed this; the run has two, so it does not reach it. The
  property now excepts a failing request of a run that reports an error.
* *Local preparation.* A killed run without a prepare command leaves the checkout
  on the temporary branch; a killed run with one leaves that branch, and
  `git worktree add -b` then fails for the commit until it is removed by hand. Two
  runs without a prepare command move one checkout under each other (`spoilt`).
  Runs share the name of the remote, so one may remove it under another, which
  then fails and says so. The model takes the prepare command to make the same of
  the same commit: when the configured command changes, a branch that is on
  Launchpad already is built as the old one left it.

Two more were met while reading, outside the models. `build cleanup` looks for
branches that begin with `tmp-build` (build/service.go:1293), while PrepareTrigger
names them `tmp-` followed by the recipes' prefix (build_prepare.go:121), so the
default prefix finds none. Clearing a whole cache of the server closes a database it opens
once (api/cache.go:451).

### Why the bounds are enough to be interesting

One job has every step of Start, its goroutine, a cancel, a wait and a recovery, and
jobs meet only in the recovery's list and a caller's choice; the theorems cover any
number, with a recovery that is interrupted between jobs. One failing
transaction reaches every error path, since each is taken after a single
failure; one exit gives a full recovery, and an exit in the recovery is the
same as one before it, the list is read again. `MaxEvents` only stops the
function from reporting for ever: everything the service itself appends is not
subject to it. Four workers are the code's, and six items are more than they can drop
with one left over to send and one behind it. Two attempts per build is the least with which a budget can be
spent, three builds give a superseded, a current and a duplicate one, three
files with two of one destination give a predecessor and a bystander, and two
slots make a third transfer wait. Two logins and two callers are a finalize that
races another of the same or of another login, two servers are the old one that
still ends and its successor. Two clients of the bug cache are a synchronisation
with a write-through or another synchronisation inside it, three changes let both tasks
change and one of them change back. The two projects of `bug_sync` share their only
Launchpad project, since a shared task is the interesting one; its series are one with and
one without a stable branch. The evidence of a run is one of three: a fix that is too old
to count next to a partial one, the same when the stable branch that tells so could not
be listed, and a fix on the stable branches that all revisions of one project have and not
all of the other. The bug has no task of the project, one of a series alone, or tasks of
which one is at a status the evidence does not reach (1 million states; one more of
each makes 2.4 million and shows nothing new). Three failing steps in `local_prepare` are
a step that fails, the undoing of it that fails too, and a kill; a third run gives more than
ten million states and no step that two do not reach. All invariants of the passing runs
are also theorems and hold beyond these bounds.

`CHECK_DEADLOCK FALSE` is set everywhere because every modelled system may
stop: callers are not obliged to call, and waits, pools and downloads return.
That nothing stops before it should is what the liveness properties say.

## 4. Fairness and assumptions on the environment

Weak fairness stands for the Go scheduler: a goroutine that can take a step
eventually does. `OperationService` asks in addition that a job's function
returns (strong fairness of `RunReturn`, which its reports interrupt) – an
assumption on the functions, which `pool_hang` shows one of them to
break. Clients, cancels, exits and restarts are never fair. `BuildWait` assumes that its
deadline passes (it is a wall clock) and that Launchpad shows a retry it
accepted; builds themselves may run for ever. `ArtifactDownload` assumes that
transfers end. `AuthFlow` assumes that a request to a provider is answered, that a
flow's time runs out, and, of the mutex of the credential provider, that a
waiter is not passed over for ever (strong fairness of `RefreshLoad`; Go's mutex hands over to
a starving waiter). `LocalServer`, `BugCache`, `BugSync` and `LocalPrepare` state
safety only: their processes may be killed at any step. The API server stops in order: `serve.go` calls `srv.Shutdown` with a
timeout of ten seconds, and the command's post-run hook (`cli/root.go`)
closes the App; running jobs are not awaited, nor are requests that take longer than
the timeout, so `CloseStore` may close the
store under any of them, and `Exit` may come at any step.

Further assumptions, each where the module says so:

* A bbolt transaction is atomic and durable once committed; the memory store
  never fails.
* `newID` does not repeat an identifier among the jobs of an instance.
* The settle delay after a retry is long enough for Launchpad to show it
  (`Settled`), and nobody else retries builds during a wait.
* Elements of the shared slice are read and written one at a time. Go gives no
  such guarantee for strings under a race; `RecipeFilter` takes the mildest reading.
* `CreateRecipe`'s attempts while a git ref is not known yet change nothing and
  are left out; a cancelled Trigger is an error at whatever step it reaches.
* A rename within a directory is atomic.
* A server that was started is found by its PID: identifiers of processes are not reused.
* No operation on the bug cache lasts 24 hours, the overlap of its requests.
* A bug synchronisation uses the commits, branches and tags it read when it began;
  those of another run may be any other. The configured focus of a Launchpad project
  is the one Launchpad has.
* Eight digits tell the commits of a user apart, and the user does not commit
  while the checkout is on a temporary branch. git's lock files order the
  commands of two runs: each is one step.

## 5. Proofs

All proofs hold for every value of the constants under the named assumptions
(`ConstantsAssumption`, `PoolAssumption`, …), which TLC evaluates on each run.

| Module | Theorem | Says | Argument |
|---|---|---|---|
| `OperationServiceProofs` | `TypeCorrect` | `[]TypeOK` | the type invariant is inductive once it also says that a goroutine about to store has a verdict and a client inside a call has a job |
| | `FinalForever` | `FinalIsFinal` | `DriverInv`: where a goroutine is tells the state of its job, and a snapshot that the goroutine or the recovery holds between its two transactions equals the stored one; so each step that changes the store is one of six effects (lemma `Effect`), none of which touches a settled job |
| | `ImplementsLifecycle` | `LifecycleSpec` | initial states map to initial states, each action to an action or a stutter |
| | `AnnouncedIsStored`, `OutcomeEndsStream` | `[]VerdictIsPersisted`, `[]NothingAfterVerdict` | `StreamInv`, the two together with `AnnounceInv`: whoever is about to append an outcome has stored that outcome, and the stream holds none yet |
| | `CancelIsTimely` | `[]CancelFindsUnsettled` | `CancelInv`: a registered job's goroutine is between its launch and its function's return, or gave up, and its stored job is unsettled |
| | `CancelledAsRequested` | `[]CancelledWasRequested` | `RequestInv`: the request is in the stream of a job from before a client may cancel its context until after its verdict is stored |
| | `NoJobIsOrphaned` | `[]NoOrphan` | `OrphanInv`: while no transaction failed, an unsettled job has its Start or a goroutine that has no verdict yet – not just one that is alive – and a recovery has it on its list |
| | `WaitReturnsOutcome` | `[]WaitSeesFinal` | `WaitInv`: whoever is about to read a job that ended reads a settled one, which rests on `RegisterInv`: the channel of a launched job is registered or its goroutine is past `signalDone`'s first half |
| `BuildWaitProofs` | `TypeCorrect`, `BudgetKept` | `[]TypeOK`, `[]RetryBudget` | spent and remaining retries of a build never exceed the first budget |
| | `OkStaysFinished` | `[]ListedFinished` | in a deciding poll no retry can be pending (`QueuedInv`), since the wait settles before it; without one a terminal build stays so, and after the poll only builds in `stale` have one |
| | `DeadlineIsFresh` | `[]FreshAtDeadline` | `FreshInv`: a snapshot may be stale only between a retry and the refresh that follows it, or at a return for another reason than the deadline |
| `ArtifactDownloadProofs` | `TypeCorrect`, `AlwaysWhole` | `[]TypeOK`, `[]WholeFiles` | what is renamed was copied to its end |
| | `NeverTwoWriters` | `[]OneWriter` | `OrderInv`: when a file has begun, all earlier ones of its destination are done; that waiting for the *last* of them is enough uses that a set of files has a last one |
| | `LastOneStays`, `NothingLeftBehind` | `[]LastFetchedWins`, `[]CleanReturn` | `FetchedInv`: at every moment a destination holds the last file fetched for it so far, since by `OrderInv` one that is renamed later is later; `SettledInv`: only an attempt has a temporary file |
| `BuildServiceProofs` | `FilterTypeCorrect`, `SkippedStaySkipped` | `[]FilterTypeOK`, `[]OnlyWanted` | all writers write wanted artifacts only, so what one call has kept stays wanted under the writes of the others |
| | `NoneIsMissed` | `[]WantedFirst` | the place of a wanted artifact is its rank, the number of wanted ones up to it. The first call moves each to its rank (`Placed`) and reads only what it has not written (`Behind`); every later one filters a list that has them in front (`Sorted`) and writes each over itself |
| | `PoolTypeCorrect`, `PoolHandlesAll` | `[]PoolTypeOK`, `[]AllHandled` | unless cancelled, each item sent is handled or with a worker |
| | `OnlyDropsStrand` | `[]StrandedByDrops` | `DropInv`: a worker that ended before the channel was closed has dropped the item it holds, under a cancel; `TakenInv`: no two workers hold the same item |
| | `TypeCorrect`, `CallsAreEffective` | `[]TypeOK`, `[]EffectiveCall` | a recipe that has builds or requests keeps them |
| | `DuplicatesAreCaused` | `[]DuplicateHasCause` | `SightInv`: as long as no call is blind, calls do not overlap, a pending request has its caller waiting for it, and a call about to request has only settled builds before it |
| `ServerProofs` | `TypeCorrect` | `[]TypeOK` of `AuthFlow` | whoever exchanges or saves holds a login; the lock has one holder |
| | `NoLoginIsLost` | `[]NothingLost` | `FlowInv`: a flow is only deleted by a caller that carries what the provider gave for it, and is pending before |
| | `RefreshKeepsTheLogin` | `[]RefreshKeepsLogin` | `RefreshInv`: what the holder of the lock loaded is what the file has, unless a login or logout came between, which `crossed` remembers |
| | `ServerTypeCorrect`, `TurnsLeaveOneServer` | `[]ServerTypeOK`, `[]OneServer` | `TurnInv`: while commands take turns one command is under way and one server process alive; the socket, the store and, up to the writes the command still has to do and those a killed command did not come to, both files are that one's |
| `BugCacheProofs` | `Types`, `Forgets` | `[]TypeOK`, `[]NothingForgotten` | `ClientInv`: what a client holds of a task is what Launchpad has, or the task is a duplicate, or was modified since the client began – and then it is in `recent` (`Remembered`) when the client writes |
| `BugSyncProofs` | `TypeCorrect` | `[]TypeOK` | a run updates only tasks some component says something of (`Held`), and for those the weakest answer exists (`WeakestExists`) |
| | `ReleasedOnlyWhenShipped` | `[]ReleasedIsShipped` | `ReleasedInv`: what a run released, every affected component says is released, because nothing is weaker than the target; and a component says so from its commits and tags (`ReleasedCloses`) |
| | `StatusNeverLowered` | `NeverLowered` | `LowInv`: a task a run still has to update is not above its target, unless it is among those `crossed`; the target of runs of the same scope and evidence is the same (`SameTarget`) |
| | `DryRunTells` | `[]PlanIsWhatRuns` | `PlanInv`: the bug is what the run found and what it has done so far of the plan, phase by phase, so each new fetch shows what the dry run computed |
| | `CleanRunIsDone` | `[]CleanMeansDone` | `MainInv`: no project has a series task without its own, and each run past its first phase has all its project tasks; `DoneInv`: the same for series tasks and statuses of a run without an error. Another run adds no task this one would raise, which would be a task it has already made sure of |
| `LocalPrepareProofs` | `Types`, `SameTree` | `[]TypeOK`, `[]SourceOnLP` | `Owned`, `Prepared`: the branch of a worktree has one owner, from `git worktree add` to its removal, and whoever pushes has committed the prepared tree; without worktrees every branch of a commit holds that commit (`PlainTree`) |
| | `MainFirst` | `[]RefsProcessed` | main never goes away, and a run that does not push it has seen it (`Seen`) |
| | `NothingLeft` | `[]CheckoutRestored` | `RestoreInv`: the checkout is elsewhere, a branch or the remote exists, only while some run is at a step that will undo it, and that run remembers the user's branch |

None of the invariants above is inductive as the runs state it; the
strengthening is the `IInv` (or `…Inv`) of the proof module. TLC checked each
property on its run before it was proved, and those strengthenings that were in doubt.

Every invariant and action property of the passing runs is a theorem. Only model-checked are
the liveness properties (`JobsSettle`, `WaitersReturn`, `PoolSettles`, `WaitReturns`,
`DownloadReturns`, `CallsReturn`): the provers do not handle `ENABLED`. Assumed by the
theorems beyond the runs is nothing but the named assumptions; they also cover what the
instances leave out, such as Launchpad projects that share no source project, three and
more runs or callers, and any number of failures. The runs use the persistent store; that
the memory store implements the life cycle too is part of `ImplementsLifecycle`.

## 6. What is not modelled

`PROJECT.json` lists every component. Not modelled, with the hazards we know of
listed there or here:

* *Configuration reload*: two reloads, of the watcher and of SIGHUP, read the file before
  they take the lock (app.go:142) and may install the older content last; it is one
  interleaving of two short handlers.
* *Distribution, excuses, review and git caches*: downloads, rebuilt indexes and
  metadata files that several updates share. They are the next module of the plan.
* *Team synchronisation, build listing and cleanup, SRU snapshot*: one pass over
  sets; their concurrent parts are the patterns of `WorkerPool` and `ArtifactDownload`.
* *Clients of remote services, credentials, telemetry, CLI, TUI, API handlers,
  rendering, queries*, by far the largest part of the code: conversions and
  delegation, which keep no state that could be wrong between two steps. That is
  why the modules cover a small share of the lines of the repository.

Left out of modelled components: in the build service, the part of Trigger that
resolves repositories, refs, series and channels; attributes of a job, the copies
the memory store makes, and Get, List and Events of the operation service, which
are reads; of the bug cache, rows of whole bugs and reads; of the bug
synchronisation, the wording and order of results and warnings; of the local
preparation, the discovery of artifacts.

## 7. Plan

Written, in this order: `OperationService` with `OperationLifecycle` and proofs;
`WorkerPool`; `LaunchpadBuilds` and `BuildWait`; `ArtifactDownload`;
`RecipeFilter` and `BuildTrigger`; the proofs of the last four; `AuthFlow`;
`LocalServer`; `BugCache` and proofs; `BugSync`; `LocalPrepare` and proofs; the proofs
of the invariants left, with those of the parts of the build service and of the server
put together.

| Next | Module | Abstract specification, properties | Instance | Theorems |
|---|---|---|---|---|
| 1 | Proofs | that calls of `RecipeFilter`, of the pool and of `BuildTrigger` compose: what a Trigger of several recipes promises | | in `BuildServiceProofs` |
| 2 | `FileCaches`: distro, review, git | metadata agrees with the index, nothing is parsed half written | 2 updates of 2 sources | – |
| 3 | `ConfigReload` | newest installed last | 2 reloaders, 3 versions | – |

The runs stay few: a component gets one run, with the properties that are about
its hazards, and another only for another question.
