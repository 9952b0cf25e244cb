----------------------------- MODULE StackBoot -----------------------------
(***************************************************************************)
(* One Project from the Owner's form to a running Stack: the handler       *)
(* project.Create (toManifest, Validate), and Compose.Provision with       *)
(* buildPlan, Compile and ToCompose, down to `docker compose up --wait`    *)
(* and the health the reaper then reads with healthyFromPS.  Docker is     *)
(* external: it starts a container when the conditions of its depends_on   *)
(* hold, and restarts it as its restart policy says.                       *)
(*                                                                         *)
(* Abstractions.  Sessions has the goroutines around Provision, Images has   *)
(* the builds: here every service of a published Project has an image.     *)
(***************************************************************************)
EXTENDS RunContract

CONSTANTS
  Forms,       \* the forms an Owner may submit
  MaxCrashes   \* bound: how many containers crash during the play

ASSUME StackBootAssumption == MaxCrashes \in Nat /\ Forms \subseteq Manifest

VARIABLES
  form,      \* the Owner's Form; a Manifest once it is stored
  stage,     \* how far the Project, then its play, has come: "form", "rejected",
             \* "stored", "published", "unbootable", "up", "live", "failed"
  stack,     \* the Compose file of the play: service name -> its spec
  ctr,       \* docker: each container is "created", "starting", "running",
             \* "restarting", "done" or "dead"
  crashes    \* containers that have crashed, or services that quit

stackVars == <<form, stage, stack, ctr, crashes>>


StackInit ==
  /\ form \in Forms
  /\ stage = "form"
  /\ stack = <<>> /\ ctr = <<>>
  /\ crashes = 0

-----------------------------------------------------------------------------
(* The Owner's side: Form.toManifest and Validate behind the handlers      *)
(* Create and Update, then a publish whose build succeeded.                *)

toManifestAccepts(f) ==
  \A e \in ToSet(f.env) : e.source \in {"platform", "static"}

Goes(from, to) == stage = from /\ stage' = to

CreateAccepted ==
  /\ Goes("form", "stored")
  /\ toManifestAccepts(form) /\ Validate(form)
  /\ UNCHANGED <<form, stack, ctr, crashes>>

CreateRejected ==
  /\ Goes("form", "rejected")
  /\ ~(toManifestAccepts(form) /\ Validate(form))
  /\ UNCHANGED <<form, stack, ctr, crashes>>

Publishes == Goes("stored", "published") /\ UNCHANGED <<form, stack, ctr, crashes>>

-----------------------------------------------------------------------------
(* Compose.Provision: buildPlan mints the credentials and the values of    *)
(* the platform's variables, and compiles.                                 *)

DatabaseURL == <<"database_url", "UPPER">>

\* resolvePlatformEnv runs for a Project with a database only, and knows one
\* variable.
PlatformEnvKnown(m) ==
  \A e \in ToSet(m.env) : e.source = "platform" => e.name = DatabaseURL

resolvePlatformEnv(m) ==
  [n \in {e.name : e \in {e \in ToSet(m.env) : e.source = "platform"}} |-> Text("dsn")]

DBCreds == [k \in {<<"postgres_password", "UPPER">>} |-> Text("password")]

buildOptions(m) ==
  [images |-> [n \in {s.name : s \in ToSet(m.services)} |-> <<"app", n>>],
   egressProxyImage |-> <<"platform", "egress-proxy">>,
   creds |-> IF m.db = {} THEN <<>> ELSE DBCreds,
   platformEnv |-> IF m.db = {} THEN <<>> ELSE resolvePlatformEnv(m)]

PlanBuilds(m) ==
  /\ m.db # {} => PlatformEnvKnown(m)
  /\ Compiles(m, buildOptions(m))

PlayFailsToCompile ==
  /\ Goes("published", "unbootable")
  /\ ~PlanBuilds(form)
  /\ UNCHANGED <<form, stack, ctr, crashes>>

Provision ==
  /\ Goes("published", "up")
  /\ PlanBuilds(form)
  /\ stack' = ToCompose(Compile(form, buildOptions(form)))
  /\ ctr' = [n \in DOMAIN stack' |-> "created"]
  /\ UNCHANGED <<form, crashes>>

-----------------------------------------------------------------------------
(* Docker: `docker compose up -d --wait`, then the containers' lives.      *)

Satisfied(dep) ==
  dep.on \in DOMAIN ctr /\
  ctr[dep.on] = IF dep.when = "service_healthy" THEN "running" ELSE "done"

CtrGoes(n, from, to) ==
  /\ ctr[n] = from
  /\ ctr' = [ctr EXCEPT ![n] = to]
  /\ UNCHANGED <<form, stage, stack>>

\* A container without a probe of the run contract may have one of its image.
Starts(n) ==
  /\ stage = "up"
  /\ \A dep \in stack[n].dependsOn : Satisfied(dep)
  /\ \/ CtrGoes(n, "created", "starting")
     \/ ~stack[n].probed /\ CtrGoes(n, "created", "running")
  /\ UNCHANGED crashes

BecomesHealthy(n) == CtrGoes(n, "starting", "running") /\ UNCHANGED crashes

Completes(n) ==
  /\ stack[n].restart = "no"
  /\ CtrGoes(n, "starting", "done") \/ CtrGoes(n, "running", "done")
  /\ UNCHANGED crashes

Crashes(n) ==
  /\ crashes < MaxCrashes
  /\ \E from \in {"starting", "running"} :
       CtrGoes(n, from, IF stack[n].restart = "no" THEN "dead" ELSE "restarting")
  /\ crashes' = crashes + 1

Restarts(n) == CtrGoes(n, "restarting", "starting") /\ UNCHANGED crashes

\* A service of the Owner ends with status 0; on-failure does not restart it.
Quits(n) ==
  /\ crashes < MaxCrashes
  /\ stack[n].image[1] = "app" /\ stack[n].restart = "on-failure"
  /\ CtrGoes(n, "running", "done")
  /\ crashes' = crashes + 1

UpSucceeds ==
  /\ Goes("up", "live")
  /\ \A n \in DOMAIN ctr : ctr[n] = IF stack[n].restart = "no" THEN "done" ELSE "running"
  /\ UNCHANGED <<form, stack, ctr, crashes>>

\* A container has ended that should run, or a one-shot failed.
UpFails ==
  /\ Goes("up", "failed")
  /\ \E n \in DOMAIN ctr :
       \/ ctr[n] = "dead"
       \/ ctr[n] = "done" /\ stack[n].restart # "no"
  /\ UNCHANGED <<form, stack, ctr, crashes>>

UpTimesOut == Goes("up", "failed") /\ UNCHANGED <<form, stack, ctr, crashes>>

-----------------------------------------------------------------------------
(* Compose.Health over what `docker compose ps` prints.                    *)

ps(c) ==
  CASE c = "starting" -> [State |-> "running", ExitCode |-> 0, Health |-> "starting"]
    [] c = "running"  -> [State |-> "running", ExitCode |-> 0, Health |-> "healthy"]
    [] c = "done"     -> [State |-> "exited",  ExitCode |-> 0, Health |-> ""]
    [] c = "dead"     -> [State |-> "exited",  ExitCode |-> 1, Health |-> ""]
    [] OTHER          -> [State |-> c,         ExitCode |-> 0, Health |-> ""]

Healthy(s) ==
  \/ s.State = "running" /\ s.Health \notin {"unhealthy", "starting"}
  \/ s.State = "exited"  /\ s.ExitCode = 0

\* Mutant: a finished one-shot reads as a crash.
healthyFromPS_RunningOnly(services) ==
  services # {} /\ \A s \in services : s.State = "running" /\ Healthy(s)

healthyFromPS(services) == services # {} /\ \A s \in services : Healthy(s)

Health == healthyFromPS({ps(ctr[n]) : n \in DOMAIN ctr})

-----------------------------------------------------------------------------
PlayEnded == stage \in {"rejected", "unbootable", "failed", "live"} /\ UNCHANGED stackVars

Handlers == CreateAccepted \/ CreateRejected \/ Publishes \/ PlayFailsToCompile \/ Provision

DockerStep(n) ==
  stage \in {"up", "live"} /\ (Starts(n) \/ BecomesHealthy(n) \/ Completes(n) \/ Restarts(n))

StackNext ==
  \/ Handlers \/ UpSucceeds \/ UpFails \/ UpTimesOut \/ PlayEnded
  \/ \E n \in DOMAIN ctr : DockerStep(n)
  \/ \E n \in DOMAIN ctr : stage \in {"up", "live"} /\ (Crashes(n) \/ Quits(n))

StackSpec == StackInit /\ [][StackNext]_stackVars

\* Docker keeps starting what may start, and probes and one-shots come to an
\* end; nothing is assumed of crashes and of the timeout.
StackFairSpec ==
  /\ StackSpec
  /\ WF_stackVars(Handlers) /\ WF_stackVars(UpSucceeds) /\ WF_stackVars(UpFails)
  /\ \A n \in reservedServiceNames \cup {s.name : s \in UNION {ToSet(f.services) : f \in Forms}} :
       /\ WF_stackVars(n \in DOMAIN ctr /\ DockerStep(n))
       /\ WF_stackVars(n \in DOMAIN ctr /\ stage \in {"up", "live"} /\ Completes(n))

-----------------------------------------------------------------------------
Booted   == stage \in {"up", "live", "failed"}
OwnCode  == {s.name : s \in ToSet(form.services)} \cup (IF form.seed = {} THEN {} ELSE {"seed"})
Declared(k) == {Text(e.value) : e \in {e \in ToSet(form.env) : e.name = k /\ e.source = "static"}}
                 \cup {Text("dsn") : e \in {e \in ToSet(form.env) : e.name = k /\ e.source = "platform"}}

\* ToCompose keys services by name: the database, the egress proxy and every
\* service of the Owner must each keep a slot of their own, with their image
\* (manifest.go: "so the collision can never reach the renderer").
EverySlotIsItsOwn ==
  Booted =>
    /\ \A s \in ToSet(form.services) : stack[s.name].image = <<"app", s.name>>
    /\ \A db \in form.db : stack["db"].image = <<"platform", db.engine>>
    /\ \A seed \in form.seed : stack["seed"].image = <<"app", seed.service>>
    /\ form.egress # <<>> => stack["egress"].image = <<"platform", "egress-proxy">>
    /\ Cardinality(DOMAIN stack) = Len(form.services) + Cardinality(form.db)
         + Cardinality(form.seed) + (IF form.egress = <<>> THEN 0 ELSE 1)

\* Only the egress proxy is on a network with a route out, and only when the
\* Owner declared an allow-list; every container still shares the network on
\* which the Stack's services, and that proxy, reach each other.
OnlyEgressRoutesOut ==
  Booted => \A n \in DOMAIN stack :
    /\ InternalNet \in stack[n].networks
    /\ EgressNet \in stack[n].networks <=> n = "egress"
    /\ n = "egress" => form.egress # <<>>

\* The build reads the Dockerfile inside the cloned repo: walking its path
\* never leaves the repo's root, and does not end in the root itself.
DockerfileStaysInside ==
  stage \notin {"form", "rejected"} => \A s \in ToSet(form.services) :
    LET p == s.dockerfile
        up(i)    == Cardinality({j \in 1..i : p[j] = ".."})
        down(i)  == Cardinality({j \in 1..i : p[j] \notin {"", ".", ".."}})
    IN down(Len(p)) > up(Len(p)) /\ \A i \in 1..Len(p) : down(i) >= up(i)

\* What Validate let through compiles to the Stack that was declared: nothing
\* is overwritten, nothing routes out past the proxy, no build leaves its repo.
StackIsAsDeclared == EverySlotIsItsOwn /\ OnlyEgressRoutesOut /\ DockerfileStaysInside

\* The environment of the Owner's code holds what he declared, under the name
\* he declared it, and nothing else but the proxy's variables: these point at
\* the proxy in both spellings, and exempt every host of the Stack.
EnvIsWhatWasDeclared ==
  Booted => \A n \in OwnCode :
    LET env == stack[n].env
        proxied == IF form.egress = <<>> THEN {} ELSE proxyEnvNames
    IN /\ DOMAIN env = proxied \cup {e.name : e \in ToSet(form.env)}
       /\ \A e \in ToSet(form.env) : env[e.name] \in Declared(e.name)
       /\ \A k \in proxied : IF k[1] = "no_proxy"
            THEN {"db"} \cup {s.name : s \in ToSet(form.services)} \subseteq env[k].hosts
            ELSE env[k] = proxyURL

\* No service of the Owner starts before the database has its seed: neither
\* before the seed is done, nor, without one, before the database is healthy.
AppsWaitForTheirData ==
  [][ \A n \in DOMAIN ctr : n \in OwnCode /\ ctr[n] = "created" /\ ctr'[n] # "created" =>
        /\ form.db # {} /\ (form.seed = {} \/ n = "seed") => ctr["db"] = "running"
        /\ form.seed # {} /\ n # "seed" => ctr["seed"] = "done" ]_stackVars

Serves == \A n \in DOMAIN ctr : ctr[n] = IF stack[n].restart = "no" THEN "done" ELSE "running"

\* The reaper neither tears a Stack down that serves, its finished seed
\* included, nor overlooks one with a container that crashed or flaps: as
\* long as no service of the Owner ends with status 0, which HealthMeansServing
\* is about.
CrashesAreSeen ==
  stage = "live" =>
    /\ Serves => Health
    /\ Health => \A n \in DOMAIN ctr : ctr[n] \in {"running", "done"}

\* runner.go: Health reports whether the Stack is healthy, "all services running
\* and any healthchecks passing".
HealthMeansServing == stage = "live" /\ Health => Serves

\* `up` never waits for something that cannot come: with the probes and the
\* one-shots of the Stack coming to an end, it succeeds or fails without its
\* timeout.
BootsComeToAnEnd == (stage = "up") ~> (stage # "up")

\* form.go: unsupported declarations are "rejected here so we never persist a
\* feature the platform cannot honor yet"; ADR-0003: platform values "(DB
\* creds, bind port, API URL) are minted per Session".
StoredProjectsCanBoot == stage # "unbootable"

=============================================================================
