# basepod: specifications and proofs

basepod is a single-binary, self-hosted PaaS: an HTTP API and dashboard over
podman (which runs the containers), Caddy (which routes hostnames to them) and
a SQLite store. This directory models the parts of it where several goroutines,
three pieces of state that no transaction spans and a process that may die meet;
TLC checks the models on small instances and TLAPS proves theorems about them
for all instances.

Contents: [Inventory](#inventory), [Modules](#modules),
[The models and the code](#the-models-and-the-code), [Runs](#runs),
[Fairness](#fairness), [Proofs](#proofs), [What the code does otherwise](#what-the-code-does-otherwise),
[Not modelled](#not-modelled), [Plan](#plan).

## Inventory

All sources are below `src/internal/` unless another path is given.

### The parts that carry the program's logic

**Deploy engine** (`deploy/deploy.go`).
*State:* in the store an app's `status`, `alias_scheme`, `deploy_strategy` and its
deployment rows; in podman one container `bp-<slug>-<n>` for each deployment
number; in Caddy the running configuration; in memory only `routesMu`.
*Operations:* Deploy, DeployAsync, DeployArchive, DeployGitCloneAsync and Rollback all
end in `runRollout`; ApplyRoutes; RemoveApp (with `DELETE /apps/{slug}` in
`api/apps.go`); CleanupOrphans and SweepStuckDeployments at boot; image retention.
*Interactions:* called by request handlers and by background goroutines, without any
mutex for an app: two operations on one app overlap freely, and only the read of
the routes together with their apply is a critical section.
*Hard:* overlapping rollouts, every one of a dozen calls may fail and must be
undone, a route set computed from rows that are in the middle of a change, a
death of the process between any two calls, and a boot that removes containers.
*Correct when:* a failed deploy never takes the app down; row, app status,
container and route agree once nothing is in progress; a row belongs to one rollout
and its verdict is final; a route snapshot never overwrites a newer one; under
`replace` two generations never run at once; a restart takes nothing down.

**Build queue** (`build/build.go`).
*State:* a mutex for each app, a channel used as a semaphore over all apps, the uploads
spooled to disk. *Operations:* PrepareBuild, BuildPrepared, Prepared.Close.
*Interactions:* called by the engine's goroutines, which it blocks; podman builds.
*Hard:* locks given back on each of several exits, a wait that ignores its context
behind a build podman never answers. *Correct when:* one build of an app at a time and
at most `maxConcurrent` overall, nothing leaks, every build returns.

**Git webhook deploys** (`api/webhook.go`, `api/git.go`).
*State:* the coalescer's `running` flag and `pending` push of each app, in memory; the
`git_sources` and `git_deliveries` rows. *Operations:* a delivery (verify, filter,
tryStart or setPending), a deploy (trigger, clone, build, roll out), finish, which
hands the slot to the queued push; connecting and disconnecting a source.
*Interactions:* the forge calls; the goroutine of one deploy runs the next one.
*Hard:* repeated, late and reordered deliveries, lost wake-ups, error paths that must
free the slot, a restart. *Correct when:* one webhook deploy of an app at a time, no
accepted push is forgotten, the slot is always freed.

**Accounts** (`api/auth.go`, `api/users.go`, `store/store.go`).
*State:* the tables users, sessions and invitations. *Operations:* login, logout,
password change, role change, disable, enable, delete, invite, accept.
*Interactions:* concurrent requests on one SQLite connection; a statement is atomic, a
request is not. *Hard:* count-then-write, look-up-then-use of an id SQLite may
reuse, two writes of which the second may not happen. *Correct when:* an
owner remains, revoked sessions stay revoked, an invitation is spent once.

**Custom domains** (`api/domains.go`, `api/apps.go`). *State:* the domains table and the
hostnames generated from the apps'. *Operations:* add and delete a domain, each a row
change, an ApplyRoutes and a compensating row change if that failed; create an app.
*Hard:* checks before the insert (limit, collision with generated names) are separate
statements; a compensation after another apply has already published the row.
*Correct when:* a hostname has one route, and rows at rest agree with the routes applied.

**Caddy manager** (`caddy/manager.go`, `caddy/render.go`). *State:* `current.json`, the
`bp-caddy` container and the configuration that runs in it, the cached health verdict.
*Operations:* Ensure (boot: inspect, pull, replace a drifted container), Apply (write,
then reload with retries), Health. *Hard:* the file is replaced before the reload; a
container is taken down to be made anew; it may be another instance's; a probe
cancelled by its caller must not be cached. *Correct when:* what restarts serves what
was last applied, and a boot that cannot pull takes nothing down.

**Compose import** (`compose/compose.go`, `api/compose.go`). *State:* the apps of a stack,
their env vars and volumes, an upload directory, a chain of deploys in dependency order.
*Operations:* parse, plan, apply, the chain and its abort. *Hard:* a topological order
that stays close to the document's; partial failure in the middle of an apply or a
chain; two applies, deletes and edits beside each other; a death. *Correct when:* a
service is deployed after those it depends on and nothing is after the first failure,
nothing of the document is dropped unsaid, a secret is not overwritten, and what an
abort leaves is settled.

**Retention** (`deploy/deploy.go`). *State:* the tags `<slug>:<n>` podman has, the build logs
on disk, the image each row names. *Operations:* a build adds both, a rollout that ends
well prunes both to the newest five, a failed one removes what it built.
*Hard:* tags of deploys that failed or died, which take the place of ones that can be rolled
back to; a rollback, which runs an image that is not among the newest; removals podman
refuses. *Correct when:* the image that runs is there, only newer healthy builds push one out,
and the tags are bounded.

**Log and stats streams** (`api/logs.go`, `api/stats.go`, `api/allstats.go`, `podman/logs.go`,
`deploy/deploy.go`'s build log writer) **and the clients that follow them** (`cli/`,
`web/`). *State:* the build log file, its offset in each stream, the number of open
streams, the client's view. *Hard:* the last lines of a build log written between a read
and the check that the deployment is over, output cut at a cap, podman's frames that
split lines, slots given back on every exit, a client whose app, session or server goes
away. *Correct when:* the tail ends and misses nothing, every slot is given back, and a
command that follows a deploy returns with its outcome.

**Stream tokens** (`api/stream_token.go`). Signed, short-lived, bound to one stream.
*Correct when:* a token opens the stream it was made for, for a user who may.

**Rate limiters** (`api/router.go`, `api/auth.go`, `api/clientip.go`). *State:* the failures of
each key, pruned lazily. *Hard:* the check and the count are two steps. *Correct when:* a
window admits no more failures than its limit, and only failures count.

**Env vars** (`api/env.go`, `cli/commands.go`). *State:* an app's variables, some secret.
*Operations:* get (masked), replace all; the CLI's set and unset are a get and a
replace. *Correct when:* an edit changes what it names and keeps every secret it was
never shown.

**Authorization table** (`authz/authz.go`). A static table of capabilities.

**Store** (`store/`). One connection (`SetMaxOpenConns(1)`): each call is one atomic
statement, and no call is held across two. Modelled as the steps of its callers.

**Server** (`server/`). *Operations:* boot (podman reachable, Caddy ensured,
CleanupOrphans, SweepStuckDeployments, ApplyRoutes, listen), shutdown, first-run
setup. *Correct when:* the repair runs before anything is served and converges.

### The parts without protocol of their own

Podman client (HTTP to a socket), git clone (`gitsource/`), archives and manifests
(`tarpack/`, `manifest/`), config, password hashing, the secret box,
instance id, audit log, the rest of the CLI (`cmd/`, `cli/`) and of the dashboard (`web/`),
the website, scripts and CI. They are I/O, parsing, formatting or cryptography;
where the models need them they appear as a call that succeeds or fails.

### How they interact

    forge ──webhook──> coalescer ──> build queue ──> rollout ──> routes ──> Caddy
    operator ──API──> deploy / rollback ─────────────┘  │          ^
             ──API──> domains, delete ──────────────────┼──────────┘
             ──API──> compose apply ──> chain of deploys ┘
             ──API──> env vars ──> store
    CLI, dashboard ──token──> streams ──> build log, podman logs
             ──API──> accounts ──> store <──────────────┘
    boot ──> Caddy container ──> orphan collection ──> stuck rows ──> routes

## Modules

| module | what it is |
| --- | --- |
| `Rollout` | the deploy engine: rollouts, rollbacks, route refreshes, deletes, process death and boot |
| `MCRollout` | fault sets and symmetry of its runs |
| `RolloutProofs` | its theorems about types, ownership and exclusion |
| `RolloutRestProofs` | its theorems about what is left at rest and after a restart, about what no failure takes down, and about two containers at once |
| `BuildAdmission` | abstract specification: which builds may run at once |
| `BuildQueue` | the mutexes, semaphore, deadlines and uploads that implement it |
| `MCBuildQueue`, `BuildQueueProofs` | instance, theorems |
| `GitWebhook` | deliveries, the coalescer and the chained deploys |
| `MCGitWebhook`, `GitWebhookProofs` | instance, theorems |
| `Accounts` | users, sessions, invitations and the requests that change them |
| `MCAccounts`, `AccountsProofs` | instance, theorems |
| `Compose` | what Parse and BuildPlan compute, as pure operators |
| `ComposeChain` | abstract specification: what an apply promises of its deployments |
| `Stack` | compose applies, their chains, an operator and a death; extends `Compose` |
| `MCStack` | documents and conducts of its run |
| `StackProofs` | its theorems, and those about the plans of `Compose` |
| `Ingress` | custom domains, generated hostnames, routes, `current.json`, the Caddy container, its health |
| `MCIngress`, `IngressProofs` | instance, theorems |
| `Loops` | a loop over a sequence, as one function of its body, which `LogText` and `Login` are written with |
| `LogText` | lines of a log: what a writer caps, a demultiplexer splits, a scanner reads |
| `Follow` | builds, their logs, the streams and the clients that follow them; extends `LogText` |
| `EnvEdit` | the environment: PUT, and the CLI's set and unset |
| `Login` | logins at the limits of their failures |
| `Retention` | images and logs of an app's builds, rollbacks, pruning |
| `Cli` | composes `Follow`, `EnvEdit`, `Login` and `Retention` into one instance |
| `MCCli`, `CliProofs` | instance, theorems of all four |

Definitions named `X_Something` are variants: `X` with a plausible mistake (a
dropped guard, a swapped order, a forgotten release). They are not part of the
specification. Each property is violated when the definition it depends on is
replaced by such a variant, which shows that the property can tell the code from
a broken version of it.

Six specifications have a variable that never changes and is chosen in `Init`:
`faults` (Rollout), `changes` (GitWebhook), `duty` (Accounts), `conduct` (Stack and
Ingress) and `setting` (Follow). It says which calls may fail, what else may happen, or
which goroutine serves which requests and which client runs which command.
One run covers all choices, and a property says in its own text under which of
them it holds. An unconditional property holds under all of them.

## The models and the code

### Rollout

One operation `o` is one goroutine. `op[o].pc` names the call it makes next and the
rest of the record is its local variables. One action is one call:

| steps | code |
| --- | --- |
| `CreateRow`, `MarkDeploying` | `CreateDeployment`, `UpdateAppStatus("deploying")` in Deploy, DeployArchive, Rollback ... |
| `Prepare` | PullImage, or clone and BuildPrepared; EnsureVolume |
| `ClearFirst` | `removeOldContainers` before the new container, strategy `replace` |
| `Create`, `Start`, `Probe` | CreateContainer, StartContainer, the health probe |
| `SetScheme`, `MarkRunning` | `UpdateAppAliasScheme`, `UpdateAppStatus("running")` |
| `CutOver` | `ApplyRoutes`: lock `routesMu`, read the store, apply, unlock |
| `Clear`, `Finish` | `removeOldContainers`, `FinishDeployment("healthy")` |
| `Fail` | `fail()`: remove the new container, finish the row as failed, list what is left, restore the status |
| `RefreshRoutes` | `ApplyRoutes` of a domain change |
| `Delete` | `RemoveApp`, then `DeleteApp` with its cascade |
| `Crash`, `Boot` | the process dies; `CleanupOrphans`, `SweepStuckDeployments`, `ApplyRoutes`, in the order of `server.go` |

Writes that change nothing on a deleted row are modelled as such (`WithStatus`,
`WithDep`). A call can fail if its name is in `faults`: `"logged"` stands for the
store writes whose error is only logged, `"remove"` and `"list"` for podman calls
whose error is logged and skipped, the others for calls whose error the rollout
answers with `fail()`. An apply that fails may or may not have reached Caddy.
A route is the alias it points to (`v2` or `legacy`), and a container is named by
the alias it answers on. `strategy` and the copy of it an operation read at its
start are separate, because `PATCH` may change it in between.

Abstractions: one step for stop and remove of a container; the image is the
number; the alias is attached when the container starts; a slug is never reused.

### BuildQueue

A build walks `idle → lock → sem → build → release → unlock → close → done`, the
deferred calls in reverse order. It waits for its app's mutex without looking at
its context, for a token with an eye on it. `Expire` is the context's deadline.
`Hung` are the builds podman never answers. `Admission == INSTANCE BuildAdmission WITH
running <- Holders` is the refinement mapping: the builds that hold a token.

### GitWebhook

A delivery is a goroutine. It is received, claims the slot (`tryStart`) or queues
(`setPending`, a second critical section), and if it has the slot it becomes the
goroutine of the deploys: `Trigger`, `Clone`, `Build`, `Finish`, and again with the
pending push. A clone takes the branch's head when it clones, whatever commit the
payload names. `tried[a][r]` records the head at the last attempt to build it, a
failed one too: an attempt that fails is not repeated by the code.

### Accounts

A request walks through its store calls, one step each. A password is the number
of changes before it, and a session has the one its login verified, or its own
request set. The id of the greatest user is used again after its delete, as
SQLite's INTEGER PRIMARY KEY without AUTOINCREMENT does. `Interrupt` ends a request
between two of its calls: an error of the store, or the death of the process.

### Compose and Stack

`Compose` translates `Parse` and `BuildPlan` value by value: `ShortMount`, `LongMount`,
`Mounts`, `DependsOn` and the rest give a file with its warnings or refuse it; `TopoOrder`, a
recursive function, takes at each turn the first service that waits for nothing. The
mounts of a plan are a set of records, and a `depends_on` in the form of a mapping is
read in the order of its names (`Sorted`). In `Stack` a request `req[a]` walks through
`handleComposeUp`: the document is read and planned, then every service is looked up,
checked, upserted, its volumes declared one by one (`Declare`), its strategy forced
(`Recommend`), its environment listed and written, and its deployment row created, one store call a step.
The goroutine then takes the items in order (`chain`, `pull`, `probe`), and an error fails
what is left. Any store call may fail (`StoreFails`), the ones whose error the code
drops or logs too: `Finish`, `Abort` and `Mark` go on whether or not their write took
place, and a row's `verdict` is what it was last asked to say, its `status` what it says.
The operator deletes apps and writes the environment (`ops` counts these steps), the
process may die and boot, and each removal, row and app of that boot may fail by itself (`Reboot`).
`Told == [...]` is the refinement mapping to `ComposeChain`: what a client sees of
each deployment, a row that is `deploying` but not begun as `waiting`, one whose outcome could
not be written as `healthy, unsaid` or `failed, unsaid`, one that a death has left
`deploying`, and the boot too, as `abandoned`.

Abstractions: a rollout is its mark, the creation of its container and its end, in which
podman lists and removes what it is told to (`Rollout` has it refuse); settings other than
mounts, strategy, exposure and environment are left out; a value is what Parse tells
apart of it.

### Ingress

A request is `handleAddDomain` (`Count`, `Compare`, `Insert`), `handleDeleteDomain`
(`Find`, `Remove`), `handleCreateApp` (`Lookup`, `Create`), or a rollout; an add, a delete and a
cutover are followed by ApplyRoutes: `Lock` (routesMu), `Read` (both store reads), `Write`
(`current.json`), `Reload`, and `Undo`, what the caller does when the apply failed.
A rollout marks its app `deploying` (`Mark`), attempts its container (`Attempt`, which under
`replace` removes the old one first), writes `running` and applies (`Cutover`), and finishes
(`Finish`); from `Attempt` or a failed apply it goes to `Fail`, which writes what is left of
the app and applies nothing. `Abort` is a stack's service that is given up. `kept` are the apps
with a container that a rollout has left, `stuck` those with a row nobody will finish,
which `Sweep` settles at a boot, and `unapplied` those whose status a rollout has changed
since the last read for an apply without applying it.
`boot` is the place the process has come to in `Run` and `Ensure`; the container has an
owner, a state and one bit that says whether it is what `create` would build. A
configuration is the set of pairs of owner and host it routes. `health` and `probe` are
`Manager.Health` with its cache.

Abstractions: the five attempts of a reload are one step; apps are not deleted here
(`Rollout` has that); a rollout's image, containers and probe are one step, and an app has one
container (`Rollout` has the calls, and two rollouts of one app at once).

### Follow, EnvEdit, Login, Retention and Cli

`Follow` is one app with the goroutines that deploy it (`OpenLog`, `Write`, `Built`,
`Finish`), the server's streams (`Authenticate`, a lookup, `Slot`, then `TailFile`, `Tick`
and `LastRead` of a build log, `ReadFrame` of a container's, `Leave`), and the clients: the
CLI's `deploy` (`Upload`, `Accepted`, `MintForDeploy`, `AskForDeploy`, `Follows`, `Poll`) and
`logs`, and the dashboard (`MintForWeb`, `AskForWeb`). The system deletes the app, disables
a user, lets a token expire, dies and boots. A death after the container was started
strands its row: the boot's sweep leaves a row alone whose container runs, and the orphan
collection has kept the container if the app has no healthy deployment (`Stranded`).
`EnvEdit` has the get, the read of the stored set and the replace of two commands; `Login` the two peeks, the
verification and the two counts of `handleLogin` with the limiter's window and sweep.

In `Retention` a deploy is created (`StartBuild`, `StartImage`, `Rollback`), built (`Build`,
`Record`, or `BuildFails`, `Unrecorded`), rolled out (`Cutover` or `RollFails`, which removes a
new build's image), pruned (`PruneImages`, `PruneLogs`) and finished (`FinishRow`), or the
process dies (`Dies`). A removal may be refused. It begins with the tags that an app of the
same name has left behind (`setting.leftover`). `left` records every tag that stays behind
where the code wanted it gone or did not know of it.

`Cli` runs the four side by side; they share no state, so each setting has the clients of
one of them.

Abstractions: heartbeats, the samples of stats, containers of another instance, the
`tail` parameter, the comparison of slugs in a token, the audit row, the address a
request is taken to come from; of `Retention`, a rollout's calls (`Rollout` has them) and
deploys of one app that overlap. A text is a sequence of symbols, two of which end a line
(`nl` and `cr`).

## Runs

| run | specification | question | states |
| --- | --- | --- | --- |
| `rollout_one` | `Spec` | operations one after the other, any failure, a death anywhere | 190 000 |
| `rollout_concurrent` | `FairSpec` | two operations of any kind interleaved | 67 000 |
| `build_queue` | `FairSpec` | the queue, and that it implements BuildAdmission | 23 000 |
| `git_webhook` | `FairSpec` | deliveries, with and without reconnects and deaths | 48 000 |
| `accounts` | `Spec` | requests one at a time, and one remover beside everything else | 460 000 |
| `stack` | `Spec` | planning of every small document; up to three applies with everything that may go wrong | 697 000 |
| `ingress` | `Spec` | hostnames, routes, rollouts and the Caddy container through failures, deaths and restarts | 2 643 000 |
| `cli` | `Spec` | clients that deploy, follow, edit and log in, and what may happen to them; builds, rollbacks and the pruning of their images and logs | 254 000 |
| `rollout_route_drop`, `rollout_crash`, `git_stray`, `accounts_owners` | `Spec` | a sentence of the repository that the code does not keep | violated |

**rollout_one.** One app (new or settled), one operation at a time, three deployment
numbers, both strategies, and three fault sets: failures the rollout sees; every
failure but death; seen failures and death. It shows
- `NeverDown`: no step of a zero-downtime rollout ends the serving of an app that
  has a completed deployment, whichever calls fail;
- `NothingPending`, `RunningIsServed`, `LatestIsUp`: after reported failures rows,
  status, route and containers agree, and exactly the latest healthy container runs;
- `OneWriter`: two containers run at once only in a zero-downtime rollout, where podman
  lists and removes what it is asked to;
- `RestartSafe`: a boot never ends the serving of an app that is `Recoverable`, which
  excludes the two windows listed [below](#what-the-code-does-otherwise);
- `StuckRowsRun`: the sweep leaves a row `deploying` only if its container runs, or a
  later rollout has replaced it.

Three numbers are enough for a generation, its replacement and a failed or
interrupted rollout besides; a fourth number repeats a situation the third has
reached, since every rule compares a number only with the latest healthy one, the
greatest one and its own. One app, because two apps share only `routesMu` and Caddy's
configuration, in which an apply writes of every other app what the store says of its
status; `NeverDown` leaves that to the other app's record (see [below](#what-the-code-does-otherwise)),
and the theorems about the invariants hold for any number of apps.

**rollout_concurrent.** Two operations on one settled app, of any of the four kinds,
with failing starts, probes and applies, and deaths, or with failing store writes
and listings: `RowsOwned`,
`TerminalIsFinal` and `EveryOpReturns`. It is about what must hold in every
interleaving; the agreement at rest that `rollout_one` shows does not survive
overlapping operations (see below). Two operations are the pairs every one of these
properties speaks of, and the proofs cover any number. Once the only app is deleted
nothing is left to do, so deadlock is not checked.

**build_queue.** Four builds, two of them of one app, two tokens, two builds that podman
never answers, one of them in front of a mutex and both on tokens: `Accounted`,
`UploadsRemoved`, `Admitted` (refinement) and `EveryBuildReturns`. The system may stop
once every build is done, so deadlock is not checked.

**git_webhook.** Three deliveries for one app and two commits: one deploys, one waits, one
overtakes or replaces. With nothing else, and with reconnects and deaths:
`OneDeployPerApp`, `NoPushForgotten`, `SlotIsFreed`. An app's slot is its own, so
one app is enough; with one branch a reconnect disconnects the source and connects it
again. Deliveries and commits run out, so deadlock is not checked.

**accounts.** Two addresses, users, tokens and invitations, one password change. Either
one goroutine serves everything without stopping, or one demotes, disables and
deletes users and may stop anywhere while another does everything else but password
changes, or two delete users. `OwnerRemains`, `InviteUsedOnce` (which also says
that a spent invitation names a user), `RevokedStays`, `SessionsCurrent`.
Two users are enough for each to remove the other, and a reused id. Two goroutines can
delete every user, after which nobody logs in, so deadlock is not checked.

**stack.** Every graph of three services with at most two entries each, graphs whose entries
are in the mapping form, and every kind of value at every key of one service, is planned.
Stacks of two services are applied twice, one after the other, beside each other, with deletes, with edits of the environment,
with failing store calls, with a death, or with both; and a service is applied with a volume,
then twice without it. It shows
- `PlanIsRight`: of all orders that put a service behind its dependencies, the plan is
  the one closest to the document; a file refused for a cycle has the cycle named;
- `NothingDropped`: what is not translated is warned of, and no host path is mounted;
- `ChainContract`: every apply keeps ComposeChain, one service at a time, in order,
  nothing tried after the first failure, whatever dies or fails, the writes of the
  outcomes included;
- `AliasesUnique`: no two apps with one alias, as long as applies do not overlap;
- `VolumeWriters`: no two containers on one volume, as long as applies do not overlap and apps
  are not deleted meanwhile, but of an app whose strategy a failure or a death has kept
  from being written after its volume. With
  a failure and a death in one behaviour, where the boot's own removal may fail, it says nothing;
- `SecretsKept`: no step of an apply makes a secret plain;
- `EndedIsSettled`: a request that ended leaves no directory and no row in progress, but
  for a death, for a store error that ended it, which the next boot settles, and for an
  outcome whose own write failed.

Three services are the shortest cycle that is neither a loop nor a pair, and an order with a
choice; two services are a dependency; two applies meet in every pair of their steps.
Requests run out, so deadlock is not checked.

**ingress.** Three hostnames generated and one foreign, one of the generated equal to the
dashboard's, both strategies, three requests, a limit of one domain for each app, one death.
Seven conducts: one after the other; the same with a stack's apps; beside each other with
those; faults; the dashboard polling; a registry that is down; faults with a flaky one. It starts from
every container Caddy may have: absent, ours or another's or from before labels, of any
state, drifted or not. It shows
- `ServedIsStored`: at rest and after an apply that succeeded, the file and the running
  configuration are the store's, but for apps that a rollout has marked or failed since, which
  may still have the route they had. Where requests do not overlap and no call fails,
  none that the store says runs lacks its route;
- `HostsUnique`: a hostname leads to one app, undone inserts and deletes included;
- `IngressKept`: a boot touches no foreign container, and with a registry that is down
  it stops no running Caddy;
- `HealthHonest`: what enters the cache was true.

Three requests are two that race and a third that sees what they left.
Requests run out and a boot may be refused for good, so deadlock is not checked.

**cli.** Two clients with a command each, two users, two deployments, two build outputs
(one below the cap ending within a line, one that passes it), four frames of a
container's log, three variables, two failures allowed to an address and three to all; and
an app with four deployments of which two images are kept, that starts without tags or
with the two last ones of an earlier app. It shows
- `LogWhole`: a log the server brought to its end was delivered whole and in order;
- `SlotsReturned`: the limiter counts the open streams, within its caps, and no file
  stays open behind a stream;
- `TokenForOne`: a token opens only its stream, live, and of a user who is not disabled;
- `FollowEnds`: `basepod deploy` returns with the row's outcome whatever happens on the
  way, unless the write of that outcome fails, or a boot has left the row alone because
  the app's first container runs;
- `EnvKept`: an edit changes what it names and nothing else, as long as no other request
  replaced the set within its own;
- `LoginsLimited`: failures of a key stay within the limit when its requests come one
  after the other, and a request is refused only when that many failures are in the window;
- `RollbacksKept`: between deploys the running image is tagged, a healthy build is gone only
  behind as many newer tags that were healthy or have stayed behind, and there are no more tags
  than are kept, the running one, and those that have stayed behind.

Four deployments are two that are kept, one that is pushed out and one that fails or is
rolled back to. The two deployments that are followed are fewer than the logs retention
keeps, so no log is pruned under its stream. Commands run out, so deadlock is not checked.

Under coverage every action and every alternative of every action is taken by one of
the passing runs, the error branches included.

## Fairness

- *Rollout*: strong fairness of each operation's steps. A goroutine that can run does
  (Go's scheduler), and a `sync.Mutex` hands itself to the longest waiter after a
  millisecond (its starvation mode), so an operation that can take `routesMu` again
  and again takes it. Every call returns: pulls, builds and probes have deadlines.
  Weak fairness of the boot, which the service manager repeats. Nothing forces an
  operation to begin, and nothing forces a failure.
- *BuildQueue*: strong fairness of each build for the same reason (a channel also
  serves its waiters in order), and weak fairness of `Expire`, because every
  build runs under `asyncBuildTimeout` or a request's deadline. Nothing forces podman
  to answer a build in `Hung`.
- *GitWebhook*: weak fairness of each delivery's handler and deploy steps: none of them
  waits for another. That a build returns is what `EveryBuildReturns` shows. Nothing
  forces commits, deliveries or reconnects.
- *Follow*: weak fairness of each client, handler and deploy goroutine: each is a goroutine
  or a process whose steps do not wait for another, a build has a deadline, and the
  client's loop polls with a timer. Weak fairness of the boot. Nothing forces a
  container's log to go on or to end, a client to leave or anything to fail.
- *Accounts*, *Stack* and *Ingress* have no liveness property and no fairness.

## Proofs

Every theorem holds for all values of the constants that satisfy the module's
named assumption: any apps, operations, fault sets, bound; any builds with a finite
number of them; any deliveries; any users, tokens and duties; any apps, hostnames and
requests; any clients, settings and caps; any stacks, documents and conducts. What
`StackAssumption` asks of a document is its shape (sequences where the YAML has lists) and
that the slugs it yields are among `Slugs`. `LogTextAssumption` and `FollowAssumption` ask
that the outputs and frames are texts over `Symbols`, whatever these are.

| theorem | property | argument |
| --- | --- | --- |
| `Typing`, `QueueTyping`, `WebhookTyping`, `AccountsTyping`, `StackTyping`, `IngressTyping` | `TypeOK` | inductive as it is, one lemma for each group of actions |
| `RouteUpdatesExclude` | `RoutesExclusive` | `MutexInv`: also that nothing is in progress during a boot, because a crash releases the mutex |
| `RowsHaveOneOwner` | `RowsOwned` | `OwnershipInv`: also that a number in use is a number, that nothing is in progress during a boot (the sweep would finish a live row) and that a deleted app has no rows |
| `VerdictsAreFinal` | `TerminalIsFinal` | from `OwnershipInv`: whoever writes a row owns it, and an owned row is still deploying |
| `TokensAccounted`, `UploadsAlwaysRemoved` | `Accounted`, `UploadsRemoved` | `QueueInv`: each step changes the token holders by its own build, so the counter follows the cardinality |
| `QueueAdmits` | `Admitted` | `QueueInv`, then each step maps to a start, an end or a stutter of BuildAdmission |
| `SlotsExclusive` | `OneDeployPerApp` | `SlotInv`: the flag is set exactly while a delivery deploys |
| `PushesCovered` | `NoPushForgotten` | `SlotInv` and `CoverInv`: no attempt and no push is ahead of its branch, and what is received carries the connected branch |
| `NothingIsLeftPending` | `NothingPending` | `PendingInv`: whatever is `deploying` has an operation on its way to finish it |
| `OneWriterAtATime` | `OneWriter` | `WriterInv`: outside the calls between start and cleanup one container runs at most, in them one besides the new one, and under `replace` no other; a listing in progress covers every other container |
| `LatestIsLeftUp` | `LatestIsUp` | `LatestInv`: a rollout's number is the greatest, its own container is in the state its step says, and every other container runs and is the latest healthy one |
| `RunningAppsAreServed` | `RunningIsServed` | `ServedInv`: an app that no rollout is at work on has a running container exactly if its status is `running`, and then alias and route agree; what an apply is about to publish is what the store says |
| `FailedDeploysTakeNothingDown` | `NeverDown` | `NeverInv`: without a death, a rollout past its probe has its container under the new alias; the scheme, the status and the routes it read, and from its apply on Caddy's, say so before it removes what ran before |
| `StuckRowsAreFinished` | `StuckRowsRun` | `StuckInv`: of the rows that no rollout owns, one that is `deploying` has its container, or a greater row tells what became of it (`Covered`); a rollout carries this through its steps for the rows before its own |
| `RestartsAreSafe` | `RestartSafe` | `StuckInv` and `RestartInv`: scheme and status agree with the containers (`Steady`), a boot past the orphan collection runs nothing but the latest healthy deployment, and an app with a completed one is left `deploying` only when all its rows are finished (`Calm`) |
| `InvitationsAreSpentOnce` | `InviteUsedOnce` | `InviteInv`: an invitation that created a user is spent, or its acceptance is about to mark it |
| `SessionsStayCurrent`, `RevokedForGood` | `SessionsCurrent`, `RevokedStays` | `SessionsInv`: every session is of an existing, enabled user and of its present password, but between the two writes of a disable or a password change |
| `OwnersRemain` | `OwnerRemains` | `OwnerInv`: while a removal is decided but not written, another owner is there; `KindServed` ties a request to its goroutine's duty |
| `TopoOrderRight`, `FindCycleRight`, `PlansAreRight` | `PlanIsRight` | the order: that what the greedy choice returns is one of the orders behind the dependencies, that no other is closer to the document, and that it stops short only where there is none, by induction over its turns, in the form of `NatInd` and `Iterates`, which take a set instead of an operator. The cycle: `Colored`, the path of the search is one of the graph, and the black services, which depend on none that is not black, have no cycle among them; the search ends, because each step enters or leaves a service, and where nothing moves any more the path is closed, for a search that has left every service would give an order |
| `NothingIsDropped` | `NothingDropped` | `FilesParsed`: the file a request goes on with is what its document parses to |
| `SecretsAreKept` | `SecretsKept` | `Base` (`TypeOK`, `AppsOK`: ids are given once, and what a request knows at each step) and `SecretsSeen`: a request that writes has seen every secret that is there |
| `AliasesAreUnique` | `AliasesUnique` | `OneActive` and `NamesUnclaimed`: without overlap one apply is under way, and the names it is still to give are nobody's |
| `VolumesHaveOneWriter` | `VolumeWriters` | `VolumesKept`, on top of `Settled` (below): `OneActive`; `StrategiesKnown` and `VolumesReplaced` (what an apply under way knows of an app's strategy is so, and without a failure or a death an app with a volume is replaced); `MountsDeclared` (a container mounts what its app has); `PairsRollOut` (two containers are in the middle of a zero-downtime rollout); `ServedIsHealthy` (between rollouts the container is of the latest healthy row, so that a death leaves one) |
| `ApplyLeavesNothing` | `EndedIsSettled` | `Settled`: `StillThere` (what was applied is where it was applied), `RowsSay` (a row says its verdict, unless calls fail), `RowsHeld`, `InOrder`, `WaitingUntouched`, `LeftAdopted`, `DirsHeld`: each deployment belongs to one request, in the state its chain has come to, whether or not its row could say so; one that waits has no container; what a death leaves is in a container that outlived it; a directory belongs to a request under way |
| `AppliesKeepTheirPromise` | `ChainContract` | from the same invariants each step of `Stack` is a step of `ComposeChain` or a stutter, action by action |
| `StoredIsServed` | `ServedIsStored` | `QuietInv` (where requests do not overlap one is under way, and none before the boot is over), `HoldInv` (one request holds routesMu, from its read to the end of its reload), `FreshInv` (with no request before its read, a snapshot on its way is `Allowed`: the store's, but for the apps that rollouts have marked or failed since the read; and what is applied is too), `RouteInv` (without overlap and failure every app with a container runs outside its rollout, and the file of a process at rest routes it) |
| `HostnamesAreUnique` | `HostsUnique` | `RowsUnique` and `Ready`: what a request has compared stays true until its insert, and an undo puts back only what its own request took away |
| `BootsTakeNothingDown` | `IngressKept` | `BootInv`: a boot past its inspection has no foreign container, and with a registry that is down it has not begun to replace one |
| `AnswersAreTrue` | `HealthHonest` | from the step alone |
| `EditsKeepTheRest` | `EnvKept` | `EditInv`: a body follows from the command and from what the client was shown |
| `TokensOpenTheirStream` | `TokenForOne` | `TokenInv`: the records of tokens and connections; the rest is in the step |
| `StreamsGiveBack` | `SlotsReturned` | `SlotsInv`; `Takes` and `Gives` relate the counters to the cardinality of the open streams through each step |
| `LoginsStayLimited` | `LoginsLimited` | `LoginInv`: the times a limiter holds are sorted, and after any moment from the start of the window on they are no more than the failures since then, and as many for a key whose requests do not overlap, whether `maybeSweep` has forgotten the key or not; of such a key at most one request has passed the check and is not counted yet |
| `LogsArriveWhole` | `LogWhole` | `EngineInv`: a file is untouched or is the output so far up to the cap, whole pieces at a time, its row says "deploying" while its goroutine runs, and each step only appends to it, and no more once the row is over (`Moves`). `ReadersInv`: what a follower of a build has received says what the file begins with, up to its offset; what a reader of a container has received are the complete lines of each stream among the frames read. So the last read, after the status, brings what is left. Before them, the laws of `LogText`: `Cut` after more text goes on from the unfinished line (`CutOfBoth`), a text is said the same whole or in pieces (`StrippedSay`), `Unfinished` is the rest of each stream (`UnfinishedIs`) |
| `RollbacksStayPossible` | `RollbacksKept` | `RetentionInv`: `PlacesInv`, each healthy build that is gone has its places taken, by the deploy under way only once it can no longer be undone; `RunningInv`; `LogsInv` |

`RouteUpdatesExclude`, `QueueTyping`, `WebhookTyping`, `AccountsTyping`, `StackTyping` and
`IngressTyping` state no property of a run: the others rest on them. `TopoOrderRight` and
`FindCycleRight` are the two halves of `PlanIsRight`, for every file and not only those
that a request plans.

What a loop computes for every input is an induction over data. `Loops` makes it one that
these provers can do: the body of a loop is a function, a value like any other, so that
`LoopStarts`, `LoopAppends` and `GatheredOfBoth` are proved once and cited for every loop of
`Login` and `LogText`, and an induction over all texts or all times is one over the set of
those that satisfy the claim (`SequencesFromEmpty`).

`OwnerRemains` alone is not inductive: from a state in which a removal has counted
two owners and only one is left, the write breaks it. `OwnerInv` says that this
state does not occur, because nobody else takes an owner away and a login,
an invitation or an enable only adds one. Likewise `NoPushForgotten` needs that a
clone of the connected branch covers every push received so far.

`ServedIsStored` says nothing of the middle of a request, so its invariant has to: whoever
changes the store has an apply before it, so the last of them reads what nobody changes
again, and `routesMu` keeps an older snapshot from being written behind it.

Six theorems have a premise that the runs give by their constants or their properties'
text. `OneWriterAtATime`, `LatestIsLeftUp`, `FailedDeploysTakeNothingDown` and
`StuckRowsAreFinished` assume that the operations on an app come one after the other
(`OneAtATime`), `RunningAppsAreServed` and `RestartsAreSafe` that all operations do (`Alone`),
as `[]` of a state predicate, so that any number of goroutines may take their turns. All but
the first are about operations other than a delete, and those two about apps that do
not begin under the legacy alias. Without it they are false, as the overlapping rollouts
below show.

`NeverDown` holds whatever is only logged or skipped, `StuckRowsRun` and `RestartSafe` through a
death at any call, so their invariants cannot say that rows, status and containers agree.
They say which disagreements the calls can leave: after a failed bookkeeping only what a
rollout has itself written and read, after a death a row that still is `deploying` but
runs or has been replaced, and a status without a row that the boot cannot repair.

Left to the model checker: every liveness property (`EveryOpReturns`, `EveryBuildReturns`,
`SlotIsFreed`, `FollowEnds`), because fairness and ENABLED are beyond the provers in use.
Every other property of a passing run is stated by a theorem.

## What the code does otherwise

Four statements of the repository that a run refutes:

1. *"A failed deploy never takes the app down"* (`docs/plan/06.builds-and-deployments.md:100`).
   `Routes` skips an app that is `deploying`. A domain change during a deploy takes
   the live route away, and a deploy that then fails writes `running` back and
   applies nothing (`rollout_route_drop`).
2. *"Nothing to reconcile"* (`deploy.go:1872`). After the old generation is removed and
   before the row is healthy, the only container belongs to a `deploying` row. A process
   that dies there has its app's container removed at the next boot, since an older
   row is the latest healthy one (`rollout_crash`).
3. *"Queued as the next build"* (`api/webhook.go:211`). A deploy may end between a push's failed
   `tryStart` and its `setPending`: nothing runs the queued push until a later one
   arrives (`git_stray`).
4. *"Effectively atomic"* (`store/store.go:403`). Count and write are two statements: two requests
   that each disable one of two owners leave none (`accounts_owners`).

Seven more that the code does not keep, either. The properties name these cases as
exceptions, or leave them out, and the models have the first six; no run is kept for them:
- *"two containers must never write the same named volume at once"* (`deploy.go:854`): a removal
  of the old container that fails is logged, and the new one is started beside it, under
  `replace` too (`"remove"` of `faults`, which `OneWriter` excludes);
- *"compose database services never run two containers against one named volume"*
  (`docs/superpowers/plans/2026-08-06-v0.5-git-compose-teams.md:204`): an apply writes a volume and
  then the strategy. One that fails or dies in between leaves a zero-downtime app with a
  volume, and the next applies of the service, now without the volume, change neither
  (the exception of `VolumeWriters`);
- *"it never should, given the collision checks"* (`caddy/render.go:91`), of a route with the
  dashboard's hostname: an apply creates apps without comparing hostnames (why
  `HostsUnique` excludes `compose`);
- *"a pull failure … leaves the old container running"* (`caddy/manager.go:251`): Ensure pulls
  before it removes the old container and again before it creates the new one. If the second
  pull fails the ingress is gone (why `IngressKept` speaks of a registry that is down, not
  of a flaky one);
- *"the container is fine, and there is nothing to reconcile"* (`deploy.go:1872`), of the rows
  that the sweep leaves alone: the row of a first deploy whose container outlived the process
  stays `deploying`, even when a later deploy has replaced it, and who follows it polls for ever
  (the exception of `FollowEnds`);
- *"every retained image tag has a corresponding log"* (`deploy.go:1240`): a failed build
  leaves a log and no image, so that logs of retained images are pruned before them (which
  is why `RollbacksKept` counts logs and images apart);
- *"nothing is ever silently dropped"* of a compose file
  (`docs/superpowers/plans/2026-08-06-v0.5-git-compose-teams.md:147`): the options of a mount in the
  long form, those of a top-level volume, `${VAR}` and `build.args` in the form of a mapping
  are dropped without a warning, and are not modelled. `NothingDropped` is about the keys
  and values that `Compose` has.

Met while modelling, excluded from the properties above and without a run of their own.
Where one contradicts a statement of the repository, other than the first above, it says so:
- two overlapping rollouts of one app: the first to cut over removes the other's
  container, and the loser's `fail()` may leave the app `running` with the older or no
  generation; the one that finishes last need not be the newest;
- a death inside `fail()` or the sweep, after the row is finished and before the app's
  status is restored, leaves the app `deploying` although none of its rows is (the
  second window `Recoverable` excludes): the sweep looks at rows only, and the boot
  leaves the app unrouted until its next deploy;
- a `fail()` whose listing failed writes `error` for an app whose old generation runs
  and is routed. Nothing takes its route away at that moment; the next apply for another
  app, or a route refresh, does, since `Routes` leaves out what is not `running` (why
  `NeverDown` excludes the applies of other apps);
- a failed apply leaves `alias_scheme` at `v2` for an app whose only container has
  the legacy alias;
- the new container carries the live alias before its probe, so requests may reach
  an unproven generation;
- a route refresh between RemoveApp and DeleteApp publishes the route of a removed app;
- a queued build is not given up for a later one of the same app;
- a chained webhook deploy uses the source its predecessor was started with, and a
  restart forgets the queued push;
- a disable that stops between its two writes, or a login that overtakes it, leaves
  sessions that an enable brings back;
- an overlapping rollback may pass its check of an image that retention then removes.

Of compose applies:
- two applies beside each other may give two apps one alias, and two containers one
  volume (the second read the strategy before the first forced it);
- an env var is listed, then written: a secret that an operator sets in between is
  overwritten (`conduct.meddle`);
- an error in the middle of an apply leaves rows `deploying`, and apps without a
  deployment, until the next boot, and so does an outcome whose write fails, an aborted
  service's too (`compose.go:574`, why `EndedIsSettled` and `ComposeChain` know such
  ends); nobody waits for the chain at shutdown, and a death
  leaves its upload directory behind;
- a volume dropped from the document is never removed from its app;
- ids that SQLite gives again let a chain act on another app than it planned.

Of the ingress:
- a delete of a domain that is removed meanwhile may remove the row that took its id,
  of another app perhaps;
- an apply that fails while another request's succeeds undoes a row that is routed by
  then, and nothing applies again (why `ServedIsStored` excludes it);
- a rollout that fails before its cutover applies nothing: under `replace` Caddy routes an
  app to a container that is gone, and `error` in the store goes with a route, until the next
  apply (why `ServedIsStored` allows the old routes of such apps);
- a reload that fails for a rollout, or a `fail()` whose listing fails, leaves an app that
  runs without its route until the next apply (why `ServedIsStored` asks for no failure there);
- Ensure writes an empty configuration before it makes the container anew: the ingress
  serves nothing from then to the boot's apply;
- the dashboard's hostname is routed from the setting or the environment, the
  collision checks read only the setting.

Of streams and clients:
- the CLI mints a stream token and then sends its session as well, which wins: the
  token is never used, although `cli/client.go` calls it the credential;
- a deployment that is over when the dashboard asks for its log is answered in plain
  text, which an EventSource does not show;
- a build that writes exactly the cap is followed by the notice of a truncation;
- a line that a build writes in two pieces is sent as two events;
- an open stream outlives the disabling of its user and the expiry of its token;
- a failed write of the outcome leaves every follower waiting until a restart (why
  `FollowEnds` excludes it), and a sweep whose listing or write fails until the next;
- a write to the disk that fails under a build's log is returned to the builder and not
  modelled: `LogWhole` is about logs the disk has taken;
- logins beside each other all pass the check before any failure is counted (why
  `LoginsLimited` excludes them);
- two edits of the environment beside each other undo one another, a rotated secret
  included; `env set --secret K=` keeps the stored value.

Of retention:
- the delete of an app removes its containers, rows and logs, not its images: in a new
  app of the same name retention counts them, and prunes the new app's own builds until
  their numbers pass the old ones (why `RollbacksKept` counts what has stayed behind);
- a store call that fails between a build and its rollout, a death, or a removal podman
  refuses leaves a tag nobody can roll back to, which takes a place among those kept;
- of two overlapping builds the later prunes with the earlier's tag in place; if the
  earlier then fails and removes it, fewer than five are left.

## Not modelled

- *Several instances on one podman host*: the orphan collection's instance label and id
  file, and containers of another instance in `logs` and `stats`. One instance is
  modelled, but for the Caddy container, which may be another's.
- *Shutdown*: the grace period; a process that is killed is the harder case, and is
  modelled. *First-run setup*: one request, before anything else.
- *Limits and memory settings*: data of a container that no rule of the engine reads.
- *Stats*: the samples and their attribution. Their streams are, as slots and tokens.
- *Authorization table*: a constant; requests here are of users who may make them.
- *Git clone, archives, manifests, config, hashing, secret box, instance id, audit log,
  podman client*: parsing, cryptography and I/O behind one call, which succeeds or fails.
- *The rest of the CLI and of the dashboard*: commands that are one request and its
  printing, and views. *Website, scripts, CI, API description*: no program.
- *Expiry by the clock*: where a session, an invitation, a token or a context expires, it
  may expire at any time. Only the limiter's window has a clock.

## Plan

Done: `Rollout`, `BuildQueue` with `BuildAdmission`, `GitWebhook`, `Accounts`; `Compose` and
`Stack` with `ComposeChain`; `Ingress`; `LogText`, `Follow`, `EnvEdit`, `Login` and `Retention` in `Cli`;
the theorems listed above.

Left, the most important first:

1. Images as part of `Rollout`: retention beside overlapping rollouts.
2. Several instances on one host: labels, orphan collection, the id file.
3. Stats with their attribution of containers to apps.
