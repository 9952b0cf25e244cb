# The showcase control plane in TLA+

TLA+ models of the Showcase control plane (the Go program under `src/`): who
may boot a Session and what becomes of it, what an Owner's form turns into, how
a Project is built and published, how a Guest's request finds its Demo, and how
the process signs Owners in, migrates its schema, tunnels a Stack's traffic and
shuts down.  TLC checks small instances under every interleaving of goroutines,
failing commands and statements, crashes and restarts; TLAPS proves the most
important properties for all of them.

## Files

| module | what it is | its proofs |
| --- | --- | --- |
| `SessionLifecycle` | abstract: the life of a Session that ADR-0006 promises | |
| `Sessions` | Plays, boots, teardowns, the reaper and the shutdown over one registry; implements `SessionLifecycle` | `SessionsProofs` |
| `ReaperClock` | the reaper's time arithmetic and request counters, on one Session | `ReaperClockProofs` |
| `Projects` | publishing: handlers, background builds, the recovery sweep and the row they share | `ProjectsProofs` |
| `RunContract` | pure: Validate, Compile and ToCompose as operators | `StackProofs` |
| `StackBoot` | one Project from the form to the running Stack, with `RunContract` and docker | `StackProofs` |
| `Images` | the builder's lock, cache and sandbox between publishes and plays | `ImagesProofs` |
| `Routing` | registry, generated configuration, Traefik's polling and the Guest's page | `RoutingProofs` |
| `Portfolio` | usernames, slugs, public links and the plays they lead to | `OwnersProofs` |
| `SignIn` | login, callback, logout, expiry and prune | `OwnersProofs` |
| `Migrate` | processes that start, migrate, crash and restart over one database | `MigrateProofs` |
| `EgressTunnel` | the egress proxy's handlers and one tunnel | `StackProofs` |

`OwnersProofs` holds the proofs about two modules that share nothing but the
Owners, and `StackProofs` those about the Stack and its egress proxy; the other
proof modules are about one module each.

`MC<module>` gives a module the values and the symmetry of its runs;
`<module>_<question>.cfg` is the configuration of one run.  `PROJECT.json`
lists the runs, the source lines of every definition, the finding, the hazards
and the theorems.  Definitions named `X_Something` just before `X`, under a
comment "Mutant", are `X` with a plausible bug: replacing `X` by it must break
the named property.

## The system

Sources are under `src/`; all paths below are relative to `src/internal`
unless they start with `cmd/` or `docs/`.

**Session manager** (`session/session.go`).  State: the admission lock
`admit`, the base context and the wait group of boots.  `Play` checks the cap
against `Registry.Len`, mints an id, registers a booting route and starts a
`boot` goroutine.  `boot` provisions the Stack and marks the route Failed on
error.  `Shutdown` cancels and drains the boots.  Correct when the cap holds
under all interleavings, every boot resolves, and a failed boot leaves nothing.

**Compose runner** (`runner/compose.go`).  Its state is docker's: containers,
a network per Session, Traefik's leg in it.  `Provision` resolves the Project
(building its images), registers backends, runs `compose up --wait`, attaches
Traefik and promotes the route; on error it runs `Teardown`: detach, `down`,
drop the route.  Each command can fail, time out, or be cancelled after it took
effect.

**Proxy registry** (`proxy/proxy.go`).  A mutex-protected map of routes:
booting, live, failed, crashed.  `config.go` renders it for Traefik,
`metrics.go` reads Traefik's request counters, `splash.go` serves the pages.
Correct when live routes have backends that can be reached, a path reaches the
service that declared it, and no page tells a Guest what is not so.

**Session reaper** (`session/reaper.go`).  One goroutine with a clock per
Session.  Each tick takes a snapshot of the registry and applies max-runtime,
crash detection, idleness and the linger of failure pages.  Correct when
Sessions end in bounded time, never before their time, and a failing teardown
is retried.

**Run contract** (`runcontract/`).  No state: validates a manifest, compiles it
to a plan of containers and renders the Compose file.  Correct when what is
accepted boots as it was declared and nothing gets out past the egress proxy.

**Project handlers, store, Publisher** (`project/`, `store/projects.go`).  A
row per Project (manifest, published, pinned commits, `build_state`,
`build_started_at`, slug).  `Publish` reads the manifest, checks access, moves
the row to `building` and starts a background build, which settles the row.
`Update` replaces the manifest and returns the Project to draft.  A sweep
reclaims stranded builds.  Correct when one build runs at a time, what Guests
play was built from what the row says, and no row stays `building`.

**Image builder** (`builder/`).  An LRU cache of images under one lock that is
held through each sandboxed build, shared by publishes and plays.  Correct when
a cached image exists, no build outlives the lock, and one Stack is built from
one commit of each repository.

**Auth** (`auth/`, `store/session.go`, `store/owner.go`).  GitHub sign-in with a
state cookie, login sessions with an expiry and a prune loop, a set-once
username.  Correct when a browser is signed in by its own login only.

**Migrations** (`store/migrate.go`).  Run at startup under an advisory lock, one
transaction per migration.  Correct when each is applied exactly once.

**Egress proxy** (`cmd/egress-proxy`).  An allow-list, CONNECT tunnels of two
goroutines, plain forwarding.  Correct when a tunnel delivers everything and
ends.

**main** (`cmd/controlplane/main.go`) wires these, migrates, warms the cache,
starts the reaper and the sweep, and on a signal closes the server, drains the
boots and builds, and stops the reaper.

Without protocol state: the **GitHub App client** (`githubapp/`), **HTTP server
and health** (`server/`), **configuration**, the **web client and fixture**.

Interactions: HTTP handlers, boots and the reaper share the registry; the
manager calls the runner, the runner calls back into the registry; Traefik
polls the registry and the reaper reads its counters; the publisher's
goroutines, the handlers and the sweep share the Project's row; builds and
boots share the builder's lock and cache.

What is hard to test is the order of those steps (Play's check and its
registration are two registry calls; a claim is checked against an Owner loaded
before it; a page is reached by an old configuration and answers from the
present registry), failure half-way (a teardown, a write after a build, a
migration), time (late ticks, resets of counters, deadlines that kill a client
and not its container), inputs that collide (service names, spellings of
variables, prefixes), and the shutdown in the middle of it all.  `PROJECT.json`
lists these hazards line by line.

## Runs

| run | module, instance | what it shows |
| --- | --- | --- |
| `sessions_core` | `Sessions`, 3 Sessions, cap 2, docker obeys, shutdown | `ActiveWithinCap`, `StacksWithinCap`, `FailedBootLeavesNothing`, `LiveIsReachable`, `CleanExit` |
| `sessions_docker` | `Sessions`, 2, cap 1, teardowns fail, fairness | `ServedStacksStayVisible`, `ImplementsLifecycle` (refinement), `SessionsEnd` |
| `reaper_bounds` | `ReaperClock`, everything may fail | `LifetimeBounded`, `IdleBounded`, `IdleReapsQuiet`, `CrashHonoursGrace` |
| `projects_publish` | `Projects`, 3 Publishes, 2 manifests, long queues, database failures, crashes | `OneBuildAtATime`, `ReportedBuildIsPinned`, `PublishedMatchesManifest`, `GuestsKeepTheirVersion`, `BuildsSettle` |
| `stack_contract` | `StackBoot`, 214 forms, one crash | `StackIsAsDeclared`, `EnvIsWhatWasDeclared`, `CrashesAreSeen`, `AppsWaitForTheirData`, `BootsComeToAnEnd` |
| `images_cache` | `Images`, one play and one publish at a time, two Projects, cap 2, a push, restarts | `CachedIsOnHost`, `NoBuildOutlivesLock`, `NoMixedRevisions`, `NewcomerStays`, `JobsEnd` |
| `routing_pages` | `Routing`, 2 Sessions, nested prefixes | `ServedByItsOwn`, `LiveHasBackends`, `FinalPagesAreFinal`, `BootingPageResolves` |
| `portfolio_links` | `Portfolio`, 2 Owners, usernames, Projects and claims, a Guest | `LinksAreUnambiguous`, `GuestsPlayWhatTheyChose` |
| `portfolio_rename` | the same | counterexample to `UsernameSetOnce`, see Finding |
| `signin_sessions` | `SignIn`, 2 browsers, 2 users, 3 logins | `SignInStaysInItsBrowser`, `SessionsEndByLogoutOrTime` |
| `migrate_startup` | `Migrate`, 3 processes, 3 binaries | `AppliedOnce`, `NoCollision`, `ServesCompleteSchema` |
| `egress_tunnel` | `EgressTunnel`, 2 chunks each way | `NothingIsTruncated`, `TunnelsEnd` |

The small runs have 2 500 to 12 000 distinct states (`sessions_docker`,
`stack_contract`, `portfolio_links`, `migrate_startup`, `egress_tunnel`), the
others between 180 000 and 14 million.  Type invariants are not run, they are
proved (where a module has proofs); every property of a passing run is broken
by a mutant of the code listed in `PROJECT.json`.

## Sessions

`routes` and `staged` are `Registry.routes`: the state of each Session's route,
and whether it carries real backends.  `stack` and `attached` are docker's
state.  `boot[s]` is where the boot goroutine of `s` is, `admit` the admission
lock, `phase` how far `main.run` is.  `reaper`, `present`, `victim` and
`verdict` are the locals of `Reaper.tick` and of the teardown it is in;
`tracked`, `unhealthy` and `lingering` are the clocks of `Reaper.tracked`.

A step is one registry call or one docker command, because any other goroutine
can run between two of them:

| code | actions |
| --- | --- |
| `Manager.Play` | `PlayRejected`, `PlayAdmitted` (the check, lock held), `PlayMintFails`, `PlayRegisters` (Add, unlock, `go boot`) |
| `Compose.Provision` | `ResolveFails`, `RegisterBackends`, `UpCreates`, `UpSucceeds`, `UpFails`, `AttachSucceeds`, `AttachFails`, `Promotes` |
| `Compose.Teardown` from a boot | `BootDetaches`, `BootDownSucceeds`, `BootDownFails`, `BootUnroutes` |
| `Manager.boot` after an error | `BootSettles` |
| `Reaper.tick` | `TickBegins`, one of the `ReaperVisit` actions per route of the snapshot, `TickEnds` |
| `Reaper.reap`, `crash` | `ReaperDetaches`, `ReaperDownSucceeds`, `ReaperDownFails`, `ReaperUnroutes`, `MarksCrashed` |
| `main.run`, `Manager.Shutdown` | `ServerCloses`, `ServerCloseFails`, `BootsCancelled`, `BootsDrained`, `DrainDeadline`, `ProcessExits` |
| containers | `Sickens`, `Recovers` |

Time is abstracted: a deadline whose clock was started at an earlier visit may
be over at any later one.  Three constants switch on the environments in which
properties differ: `DockerFails` (a cleanup command may fail; `up` and `attach`
may always fail), `ReapsBooting` (max-runtime is so short that a boot may
outlast it; by default it is 45 minutes, a boot's limit 3) and `ShutsDown` (the
process may be told to stop).

Bounds: a Play interferes with another one and with a Session that gives its
slot up, so three Sessions with a cap of two (or two with a cap of one) show
every pair of them at the cap, below it and above it.  Sessions interact only
through the cap, the admission lock and the reaper's single thread; the theorems
cover every number of Sessions.

Fairness: a goroutine that can go on does (weak fairness of each boot, of the
reaper, of the holder of the admission lock): Go's scheduler and the deadlines
on docker commands give this.  Strong fairness of `LingerExpires` and
`ReapsMaxRuntime` says that time passes for a Session the reaper keeps
visiting.  Strong fairness of a successful detach and `down` says that docker
does not refuse the same teardown for ever.  No fairness on Plays, on failures,
on health, or on the shutdown.

**Proofs.**  `TypeCorrect` needs no hypothesis; the rest assume
`~ReapsBooting`, and where said an obeying docker.  `RouteInv` is the inductive
invariant of the routes.  `ServedStacksStayVisible` alone is not inductive: a
step of the reaper removes a route, and only the knowledge that its victim was
served, that its Stack is down at that point, and that its snapshot entry was
taken of a route that is still there rules out that it removes the route of a
running Stack.  `RouteInv` therefore also says which states a route may be in
at each point of its boot (`RouteFollowsBoot`), that a live or terminal entry
of the snapshot is still what the registry holds (`SnapshotCurrent`), and that
a teardown's victim is a served Session (`TeardownOfLive`).

`CapHolds` adds one conjunct, the heart of the argument: while a Play holds the
lock after its check, the active Sessions are *fewer* than the cap.  Only a
registration makes a Session active (`OnlyPlaysActivate`), and only the lock's
holder registers, so no other goroutine invalidates the check.  The argument
needs `Active`, not the count the code compares: that one can go up by
`Registry.Fail` (see Divergences).

`BootsLeaveNothing`, `StacksBounded` and `LiveSessionsReachable` assume an
obeying docker.  Their invariant (`ObedientInv`) relates, at each point of the
boot, the Stack and Traefik's leg; a Stack then exists only for an active
Session, or for one whose teardown holds its slot.  `ExitIsClean` adds
`DrainInv`: a process that has drained has no boot between its commands.
`LiveIsBacked` carries `StagedInv` through the boot.

`LifecycleImplemented` proves the refinement: `LifecycleStep` maps each action
to a step of `SessionLifecycle` or a stutter, and `RegistrationIsAdmit` is the
case that needs the cap's invariant.

## ReaperClock

One Session through the reaper's eyes: a discrete clock, a ticker whose channel
holds one tick (a busy loop loses the rest), a tick that lasts up to `Work`
units and reads the clock once, the `sessionClock`, the request counter and the
health check.  `history` records when things really happened, for the
properties only.

Scrapes, checks and teardowns may fail and Traefik may restart in the one run;
`history.faults` says which has, and each property names the faults it cannot
survive.  The knobs are small and ordered as the defaults are (crash grace,
idle and linger below max-runtime), and a tick may outlast the interval.

The Session is registered at any time (`PlayRegisters`), also while a tick is
busy with the Sessions of an earlier snapshot, and is watched until it is gone.

The two bounds count what can pass in the worst order of things.  Two ticks
begin at most a `Period` apart: the interval, or a tick that takes longer than
that.  A Session is first seen a period after its registration at the latest,
and its last request is counted a period after it came; the tick that spares
the Session for the last time comes a period before the one that does not; and
that one may have read the clock `Work` units before it acts.  Hence a route is
booting or live for less than `MaxRuntime + 2 * Period + Work` (9 in the run),
and a live Session is idle for less than `Idle + 2 * Period + Work` (8 in the
run).  `Horizon` (10) is above both, and both bounds less one are violated in
the run.  (The obvious bound, the knob and two times an interval and a tick's
length, is wrong for the time a Session is idle when a tick can take more than
two intervals.)  Teardown takes no time of its own here; a docker command that
hangs is outside the model, and stops the real reaper.

**Proofs.**  For all knobs, intervals and tick lengths: `LifetimeIsBounded`,
`IdleIsBounded`, `GraceIsHonoured`, `IdleIsQuiet`.  `FreshInv` says
that nothing is known of a Session before it is registered, nor by a tick whose
snapshot was taken before; `LagInv` where the tick in progress can be on the
clock (the arithmetic of `%` in the ticker is the lemma `Modulo`); `SpanInv`
that a Session is tracked after one period and that a tick which spared it came
in time; `GraceInv` orders `unhealthySince` and the last healthy answer;
`QuietInv` relates the last counter seen, the last request and `lastActive`.
`RestInv` carries the proof of `IdleBounded`: it says how far behind the last
activity `lastActive` can be, and that a request which is not counted yet came
after the clock of the last tick that spared the Session, at the point of the
tick where it is; `TickInv` and `VisitInv` move it along.

## Projects

One Project's row, and `Publish` requests that turn into background builds.
Every SQL statement of the store is an operator on the row (`StartBuild`,
`PublishProject`, `MarkBuildFailed`, `UpdateProject`, `ReclaimStuckBuilds`) used
by the action of its caller.  A manifest is its number of services, which
decides both the bound of a build and the window of the sweep; a pinned commit
is known by the Publish that built it.  A crash is `Stops`: it loses every
request and build in flight and nothing of the row.

| code | actions |
| --- | --- |
| `Handlers.Publish` | `PublishReads`, `PublishRejected`, `PublishLaunches`, `PublishStranded` (the statement took effect, the handler saw an error) |
| `Publisher.build` | `BuildSucceeds`, `BuildFails`, `RecordsPublish`, `RecordFails`, `MarksFailed`, `MarkFails` |
| `Handlers.Update` | `Edits` |
| `Publisher.ReapStuckBuilds` | `WindowPasses` (time), `Sweeps` |
| `main.run`, crash, restart | `ServerCloses`, `BuildsCancelled`, `Stops`, `Restarts` |

`LongQueues` lets a build outlast the sweep's window because it waits for the
builder's lock, which no context interrupts; `DbFails` lets the Publisher's
statements fail, before or after taking effect.

The history variable `calm` is FALSE once an edit met a Publish in flight, a
statement of the Publisher failed, or a build waited for the lock beyond its
window.  In each of these cases the code loses what `OneBuildAtATime`,
`ReportedBuildIsPinned` and `PublishedMatchesManifest` say (see Divergences),
so they are stated for the calm part of a behaviour: racing Publishes, edits
between builds, stranded and cancelled builds, sweeps, shutdowns and crashes are
all in it.  `GuestsKeepTheirVersion` and `BuildsSettle` hold without it.

Three Publishes allow one build to run, one to be refused and one to follow;
manifests of 1 and 4 services with `Grace = 2` are far enough apart for a
window computed from the one to be too short for a build of the other.

Fairness: builds end (`BuildProject` has a deadline), time passes, the process
is restarted, and the sweep runs again and again; strong, because a process
could be killed each time before its first sweep.

**Proofs.**  `TypeCorrect` and `VersionKept` hold for every instance and
need no condition.  `OneBuildAtATime` is not inductive, since `StartBuild` only
looks at the row: `CalmInv` says that, as long as the behaviour is calm, the row
tells of the running build (`RowTellsOfBuild`: state `building`, its time
stamp, its window open), and that whoever will build holds the manifest in the
row (`BuildsTheRow`), which is what keeps its bound below the window.
`BuildsAreExclusive`, `ReportIsTrue`, `ManifestIsPlayed` and
`SweepSparesLiveBuilds` follow.

## RunContract and StackBoot

`RunContract` translates package `runcontract`: `Validate`, `Compile`,
`ToCompose` and their helpers, as operators on a form.  `Manifest`, `Service`
and their companions are the Go types.  A pointer is a set of at most one
element, a file path or prefix its sequence of segments, an environment variable
a pair of its name in lower case and its spelling, and the names and hosts the
regular expressions refuse are two small sets.  `StackBoot` runs them:
`CreateAccepted`/`CreateRejected` (`toManifest`, `Validate`), `Publishes`,
`Provision` (`buildPlan`, `Compile`, `ToCompose`) or `PlayFailsToCompile` (how
far the Project has come is `stage`), then docker's containers (external:
`Starts`, `BecomesHealthy`, `Completes`, `Crashes`, `Restarts`, `Quits`) until
`up --wait` ends, and `healthyFromPS` over what `ps` says of them.

The forms of `MCStackBoot` are every combination of the good declarations, and
one odd field at a time: reserved and duplicate names, ports at both ends of
their range, paths that leave the repository and come back, engines, seeds and
variables of every kind.  The properties speak of accepted forms only, and
compare the Stack with a reference of their own: the slots counted from the
form, the environment from its declarations, the path by its depth at each
segment.  `CrashesAreSeen` needs a crash, hence one; a second adds nothing,
since containers read independently.

Fairness: docker starts what may start, probes and one-shots end, and the
handlers run.  Nothing is assumed of crashes or of the timeout, so
`BootsComeToAnEnd` does not rely on it.

**Proofs.**  For all forms, of any length, that are `Manifest`s.  `StackInv`
says that what is stored passed Validate, that the Stack of a play is
`ToCompose(Compile(...))` of that form, and that docker has a container for each
of its slots; everything else follows from what these pure operators return.
`PlanShape` locates each service in the plan, and `NamesAreUnique` shows that
the names in it are distinct *because* Validate refuses duplicates and the three
reserved names; then the map that `ToCompose` builds loses nothing
(`ComposeKeeps`) and has as many slots as the form declares (`Counts`), which is
`StacksAreAsDeclared`.  Environments have no unique names: the last declaration
wins, which exists since a set of indices has a greatest element
(`LastNamedIsNamed`, by way of `LeastNat`).  That a Dockerfile stays inside its
repository relates `path.Clean` to the depths of a walk.  The prover has no
induction over data, so `WalkTracks` takes the *least* position at which the
relation fails and refutes it with one step (`StepKeepsTrack`).
`AppsStartAfterTheirData` is about the one action that takes a container out of
"created" (`OnlyStarts`) and what the compiled `depends_on` of it demands.

## Images

`cache` and `lock` are the Builder's map and `mu`; `recent` is the order of
the entries' ticks, as a relation: what `evict` removes are the entries with at
least as many hotter ones as the cap allows (`Victims`).  `host` is docker's
image store, `box` the container of the sandboxed build, `pinned` the Projects'
rows, `head` the repositories' HEADs, and `job` the goroutine of each play and
each publish build.

| code | actions |
| --- | --- |
| `project.Source`, `BuildingSource.Project` | `PlayReads`, `PlayBoots` |
| main's `ProjectBuilder`, `repoHEAD` | `PublishBegins`, `PublishResolves`, `PublishRecords` |
| `Builder.Build` | `CacheHit`, `CacheMiss`, `Stores` (with `evict` and the removal of the previous version), `JobFails` |
| `sandboxBuild` | `SandboxStarts`, `SandboxSucceeds`, `SandboxFails`, `SandboxTimesOut`, `Loads`, `RemovesBox` |
| pushes, restart | `Pushes`, `Restart` |

Two Projects with three image names and a cache of two make builds evict;
one repository with two services, pushed once, is where commits can mix.  One
play and one publish at a time already contend for the lock.  Fairness: every
goroutine runs on and builds end by their deadline (weak), and `sync.Mutex`
hands itself to the longest waiter (strong fairness of `Acquires`).

That a play finds its images when `up` starts them is *not* promised by the
code: another build may evict one in between; the boot then fails, as
`PlayBoots` says.

**Proofs.**  For any number of plays, publishes, Projects and repositories, and
any cap.  The invariant says, for each job, what its position implies: who is
past the lock's acquisition holds it, a job's sandbox exists only between its
start and its removal, and what `Build` has loaded is in docker's store until
it is stored.  `HitsAreOnHost` needs that removals hit versions that are no
longer cached, and `recent` to rank exactly the entries; `NewcomersStay`
is a counting argument over that order: an entry stays iff fewer than the cap
are hotter, so at most that many stay (`FewAbove`), and nothing is hotter than
the newcomer.  `OneRevisionPerRepository` follows the commits of one repository
from `repoHEAD` through the job (`AgreeSoFar`, `Agree`) into the row, and from
the row into a play's images.

## Routing

`route` is the registry, `applied` the configuration Traefik has fetched last,
`page` what each Session's Guest sees and who served it.  `build` and
`apiPathRule` are the generated configuration and its rules; `Chosen` is
Traefik's choice by priority (external); `StatusHandler` and `writePage` are
the status page.  Boots and teardowns are their registry calls and what Traefik
can reach, in the order of `Provision` and `Teardown`.  `SlowBoots` are the
Sessions whose boot can outlast max-runtime, so that the reaper removes a route
under its boot.

The instance has a Session that declares `/api/` and one, slow to boot, that
declares `/api` and `/api/v2`, with paths below and beside them.  The trailing
slash makes no difference to the rule, because `config.go` trims it; `/api` and
`/api/` pass Validate together and render the same rule.  Nested prefixes have
one priority, so Traefik may choose either: `ServedByItsOwn` asks for a service
that declared a prefix of the path, which is what the code gives.  An API whose
prefix is `/` would take every path from its UI.  A request between
`ReaperDetaches` and `ReaperUnroutes` gets a 502, and one after `Remove` may see
"ended" before `Fail` shows the crash page: both are pages of an ended Session.

Fairness: Traefik polls, goroutines go on, and the browser refreshes a page
that asks for it.

**Proofs.**  For all Sessions, prefixes and paths.  `ConfigInv` says that,
whatever Traefik has, its rules for a host are none, the status page, or that
Session's own; `BootInv` and `QuickInv` relate boot, route and reaper, and give
`LiveIsBacked` and `FinalPagesStay`.

## Portfolio

`username` and `project` are the two tables, `claim` the claims in flight with
the Owner that `RequireOwner` loaded, `guest` the page a Guest has and the play
it leads to.  `ClaimArrives`, `ClaimRefused`, `UsernameTaken` and `SetUsername`
are `ClaimUsername`; `CreateProject`, `SetProjectSlug`, `SlugTaken`,
`PublishProject`, `UpdateProject` and `NotTheirs` the handlers; `OpensPortfolio`,
`ChoosesListed`, `OpensLink` the public reads; `Plays` and `BootResolves` the
play through `FallbackSource`.  Two of everything that can collide, and one
Guest, since Guests only read.

**Proofs.**  `UniqueInv` (both UNIQUE constraints, and no slug or publication
without an Owner) gives `LinksNameOneProject`; `ChosenInv` (a Project in front
of a Guest is published or was edited meanwhile) gives `PlaysAreHonest`.

## SignIn

Each login has a number, which names its random state and the token of its
session.  `stateCookie` and `sidCookie` are the browsers' cookies, `call` the
callback in flight, `row` the session rows.  `CallbackAccepted` is the state
check; `Exchanges`, `Records`, `Replies` are the rest of `Callback`, each with
its failure (`ExchangeFails`, `RecordFails`, before or after taking effect, and
`ReplyLost`).  Any callback URL may be opened again and in any browser.  Three
logins over two browsers: two tabs of one browser and another browser.

**Proofs.**  `CookieInv` and `CallInv` say that a state cookie and a callback
belong to the browser the login was started in; `RowInv` and `TokenInv` that a
code is redeemed once, so that no callback revives a row.

## Migrate

Each process locks, loads the applied versions, walks through its own, and
serves; `Dies` is any error and any crash, and Postgres then rolls back and
releases the lock.  `ran` counts committed bodies.  Three processes and an old,
a new and an edited binary, which restart for ever.

**Proofs.**  `MigrateInv`: whoever works under the lock knows exactly what is
applied (`InformedInv`), which makes `NoCollision` and `AppliedOnce` inductive.
`RefusesNewer` and `HistoryIsPrefix` are two further properties, for binaries
that append.

## EgressTunnel

The allow-list's parsing and check, CONNECT (`handleConnect`, `Dials`,
`Hijacks`, `Establishes`), plain forwarding (`handleHTTP`, `RoundTrips`), and
`tunnel`: two goroutines that read a chunk and write it (`CopyReads`,
`CopyWrites`), half-close (`CopyEnds`) and are waited for (`TunnelReturns`).
The ends send, finish and reset at any time.  Two chunks in each direction leave
one in flight while another is unread.

`NothingIsTruncated` is about what reaches the connection the handler copies
from: bytes that a client sends before it has seen the 200 may sit in the reader
that `Hijack` returns, which the handler drops; the model takes them out of
`sent` (`Hijacks`), so they are not counted.

Fairness: the goroutines run, the network delivers, and an end that has seen
the end of file hangs up some day; an end that never does holds both
connections, since the tunnel has no idle timeout.

**Proofs.**  `CopyInv`: a copy has ended only at the end of its source or at a
reset, and the closes come after both have ended.

## Finding

**A username can be changed** (`portfolio_rename`).  `ClaimUsername` checks the
username of the Owner that `RequireOwner` loaded (`auth/username.go:66`), and
`SetUsername` updates the row unconditionally.  Of two claims in flight both
pass, and the second changes a username that is set and frees the first;
`auth/username.go:63-65` calls it set-once.

## Divergences

The models show more disagreements between the code and what is said of it.
They have no run of their own: the sentence is stated as a definition, or as an
exemption of a property, and each can be seen by checking it.

* *The cap can be overshot*: `RoutesWithinCap` of `Sessions` fails.  A failing
  boot's Teardown removes the route, a Play takes the slot, and `Registry.Fail`
  puts the route back (`session/session.go:160`), although "teardowns only ever
  free slots" (`session/session.go:104-105`).  `ActiveWithinCap` holds: the
  surplus route is a failure page.  `Registry.Len` counts such pages too, though
  documented as counting booting and live Sessions (`proxy/proxy.go:170-172`).
* *A Failed page may hide a running Stack*: with `DockerFails`,
  `TerminalStackGone` fails.  Provision ignores the error of its cleanup
  (`runner/compose.go:160,170`), and nothing retries it, while
  `proxy/proxy.go:27-28` says of a Failed route that its Stack is gone.
* *A boot outlives its route*: with `ReapsBooting`, `ServedStacksStayVisible`
  fails.  A boot whose route the reaper removed brings up a Stack that no
  snapshot shows.
* *A Traefik restart can hide activity* (the exemption in `IdleReapsQuiet`): the
  counter comes back to the value last seen, and the Session is reaped as idle
  (`session/reaper.go:197` against `session/reaper.go:58-59`).
* *A stale build outlives an edit* (`calm` in `Projects`): without `calm`,
  `PublishedMatchesManifest` fails.  PublishProject does not look at the
  manifest (`store/projects.go:251`), and the commits of the old one are
  published beside the edited one, which `store/projects.go:267-268` excludes.
  An edit also sets `build_state` to `idle` under a running build, so that a
  second one starts: without `calm`, `OneBuildAtATime` fails too.
* *A live build can be reclaimed* (`Outsized` in `Projects`): the window is
  computed from the manifest in the row, the bound from the one Publish read.
* *A Project can be stored that never boots*: `StoredProjectsCanBoot` of
  `StackBoot` fails.  A platform variable other than `DATABASE_URL`, or any
  without a database, passes Validate and fails at each play
  (`runner/compose.go:351`), against `project/form.go:44-45` and
  `docs/adr/0003-explicit-run-contract.md:13`.
* *A service that exits with 0 reads as healthy*: `HealthMeansServing` of
  `StackBoot` fails (`runner/compose.go:285` against `runner/runner.go:26-27`).
* *A play may build*: `GuestsNeverBuild` of `Images` fails after an eviction or
  a restart (`builder/builder.go:139` against `builder/builder.go:5` and
  `project/source.go:50-52`).
* *A fresh Session may answer 404*: `SplashAtOnce` of `Routing` fails until
  Traefik has polled, though the route is registered "so the subdomain routes to
  the splash the instant the Guest navigates" (`session/session.go:118-119`).
  For the same reason a live host can reach the status page, which
  `proxy/splash.go:30` excludes; it shows the splash with its refresh then.

## What is proved, what is checked, what is assumed

Proved for every value of the constants: the theorems listed in `PROJECT.json`,
from the modules' named ASSUMEs and the hypotheses in their statements.  Each
proof is an invariance proof: `Init => Inv`, one lemma or step per action, and
the property from `Inv`; refinement and action properties use the same invariant.

Model-checked only: liveness (`SessionsEnd`, `BuildsSettle`, `BootsComeToAnEnd`,
`JobsEnd`, `BootingPageResolves`, `TunnelsEnd`), which the prover does not
reach.  Every safety and action property of a passing run is a theorem.  Some
have a hypothesis that the run's constants satisfy: an obeying docker, or boots
that do not outlast max-runtime (Sessions, Routing).

Bounds that TLC needs: the sets of Sessions, requests, logins and processes;
`Horizon` and `MaxRequests` (`ReaperClock`), `MaxCrashes` (`StackBoot`),
`MaxCommit` (`Images`), `MaxLogins` (`SignIn`), `MaxChunks` (`EgressTunnel`).
The modules that stop at them say so in a disjunct of their own (`Finished`,
`Over`, `PlayEnded`), so that every run checks for deadlock.

## Not modelled

* GitHub App client, HTTP server and health, configuration, fixture, web client:
  no state of their own.  Their failures are failures of the steps that use
  them; the knobs are CONSTANTS.
* main's wiring, logging, the parsing of metrics text, header copying, the
  token in front of the proxy's endpoints and the access check's HTTP calls.
* Isolation of containers and builds, which is docker's and gVisor's.
* A restart of the Session core: the registry is lost in a crash, and the code
  has nothing that recovers it.
* A docker command or statement that never returns; in particular the reaper's
  health check has no deadline (`session/reaper.go:219`).
* A project name's uniqueness, which is constrained as slugs are.
