------------------------------ MODULE Sessions ------------------------------
(***************************************************************************)
(* The Session core of the control plane: session.Manager (Play, boot,     *)
(* Shutdown), runner.Compose (Provision, Teardown), proxy.Registry and     *)
(* session.Reaper, running concurrently over one registry.  Every boot is  *)
(* a goroutine, the reaper is one goroutine, Play runs in HTTP handlers,   *)
(* and main.run drives the shutdown.                                       *)
(*                                                                         *)
(* Abstractions.  Session ids are model values, and a Play mints one that  *)
(* was never used (NewSessionID has 128 random bits); Session bounds the   *)
(* number of Plays.  Time is left out: a deadline of the reaper is passed  *)
(* at some visit after the one that started its clock (ReaperClock has the *)
(* arithmetic).  A Stack is absent, broken (some of its containers or its  *)
(* network exist, but it is not healthy) or healthy.  Each docker command  *)
(* and each registry call is one step.                                     *)
(***************************************************************************)
EXTENDS Naturals, FiniteSets

CONSTANTS
  Session,       \* the Session ids that Plays may mint
  MaxSessions,   \* Manager.maxSessions; 0 disables the cap
  DockerFails,   \* may the cleanup commands of Teardown fail?
  ReapsBooting,  \* is MAX_RUNTIME shorter than a boot can last?
  ShutsDown      \* is the process ever told to stop?

ASSUME SessionsAssumption ==
  /\ IsFiniteSet(Session) /\ "none" \notin Session
  /\ MaxSessions \in Nat
  /\ DockerFails \in BOOLEAN
  /\ ReapsBooting \in BOOLEAN
  /\ ShutsDown \in BOOLEAN

VARIABLES
  routes,     \* Registry.routes: the State of each Session's route, or "none"
  staged,     \* the Sessions whose route holds the Stack's real backends
  stack,      \* what docker runs for each Session
  attached,   \* the Sessions whose network Traefik is connected to
  boot,       \* where each Session's boot goroutine is
  admit,      \* Manager.admit: "free", or "checked" by the Play that holds it
  phase,      \* where main.run is: serving, or how far its shutdown is
  reaper,     \* where Reaper.tick is
  present,    \* the routes of tick's snapshot that it has not visited yet
  victim,     \* the Session the reaper tears down, or "none"
  verdict,    \* why: "reap" (max-runtime or idle) or "crash"
  tracked,    \* the Sessions with a sessionClock
  unhealthy,  \* those whose unhealthySince is set
  lingering   \* those whose failedSince is set

admission  == <<admit, phase>>
clocks     == <<tracked, unhealthy, lingering>>
reaperVars == <<reaper, present, victim, verdict, tracked, unhealthy, lingering>>
registry   == <<routes, staged>>
docker     == <<stack, attached>>
vars == <<routes, staged, stack, attached, boot, admit, phase, reaper, present,
          victim, verdict, tracked, unhealthy, lingering>>

Terminal   == {"failed", "crashed"}
RouteState == {"none", "booting", "live"} \union Terminal
StackState == {"absent", "broken", "healthy"}

\* Provision up to Promote, and Provision's error path through Teardown.
Booting  == {"resolve", "up", "attach", "promote"}
Cleaning == {"detach", "down", "unroute"}
BootPc   == {"unborn", "settle", "served", "aborted"} \union Booting \union Cleaning

ReaperPc == {"idle", "scan", "detach", "down", "unroute", "fail"}
Phase    == {"serving", "closing", "cancelled", "drained", "overdue", "exited", "died"}

Alive     == phase \notin {"exited", "died"}
Cancelled == phase \notin {"serving", "closing"}   \* baseCtx.Err() != nil

Routed == {s \in Session : routes[s] # "none"}
Len    == Cardinality(Routed)
Active == {s \in Session : routes[s] \in {"booting", "live"}}

Init ==
  /\ routes = [s \in Session |-> "none"]
  /\ staged = {}
  /\ stack = [s \in Session |-> "absent"]
  /\ attached = {}
  /\ boot = [s \in Session |-> "unborn"]
  /\ admit = "free"
  /\ phase = "serving"
  /\ reaper = "idle"
  /\ present = [s \in Session |-> "none"]
  /\ victim = "none"
  /\ verdict = "none"
  /\ tracked = {}
  /\ unhealthy = {}
  /\ lingering = {}

-----------------------------------------------------------------------------
(* proxy.Registry.  Each call holds the registry's mutex throughout. *)

Add(s, backends) ==
  /\ routes' = [routes EXCEPT ![s] = "booting"]
  /\ staged' = IF backends THEN staged \union {s} ELSE staged \ {s}

Promote(s) ==
  /\ routes' = [routes EXCEPT ![s] = IF @ = "none" THEN "none" ELSE "live"]
  /\ UNCHANGED staged

Remove(s) ==
  /\ routes' = [routes EXCEPT ![s] = "none"]
  /\ staged' = staged \ {s}

Fail(s, state) ==
  /\ routes' = [routes EXCEPT ![s] = state]
  /\ staged' = staged \ {s}

-----------------------------------------------------------------------------
(* runner.Compose.Teardown, a command at a time. *)

\* detachProxy: the error of `network disconnect -f` is dropped.
DetachProxy(s) ==
  \/ attached' = attached \ {s}
  \/ DockerFails /\ attached' = attached

\* `compose down -v`: the network cannot go while Traefik is connected to it.
DownSucceeds(s) ==
  /\ s \notin attached
  /\ stack' = [stack EXCEPT ![s] = "absent"]

\* A failed or timed-out `down` may have removed anything short of everything.
DownFails(s) ==
  /\ DockerFails \/ s \in attached
  /\ \E left \in {stack[s], IF stack[s] = "absent" THEN "absent" ELSE "broken"} :
       stack' = [stack EXCEPT ![s] = left]

-----------------------------------------------------------------------------
(* Manager.Play.  The lock excludes other Plays only: boots and the reaper *)
(* go on using the registry between the check and the Add.                 *)

\* Mutants: an off-by-one, and a count that forgets the booting Sessions.
AtCapacity_OffByOne == MaxSessions > 0 /\ Len > MaxSessions
AtCapacity_LiveOnly ==
  MaxSessions > 0 /\ Cardinality({s \in Session : routes[s] = "live"}) >= MaxSessions

AtCapacity == MaxSessions > 0 /\ Len >= MaxSessions

PlayRejected ==
  /\ phase = "serving" /\ admit = "free"
  /\ AtCapacity
  /\ UNCHANGED vars

PlayAdmitted ==
  /\ phase = "serving" /\ admit = "free"
  /\ ~AtCapacity
  /\ admit' = "checked"
  /\ UNCHANGED <<registry, docker, boot, phase, reaperVars>>

PlayMintFails ==
  /\ Alive /\ admit = "checked"
  /\ admit' = "free"
  /\ UNCHANGED <<registry, docker, boot, phase, reaperVars>>

PlayRegisters(s) ==
  /\ Alive /\ admit = "checked"
  /\ boot[s] = "unborn"
  /\ Add(s, FALSE)
  /\ boot' = [boot EXCEPT ![s] = "resolve"]
  /\ admit' = "free"
  /\ UNCHANGED <<docker, phase, reaperVars>>

-----------------------------------------------------------------------------
(* Manager.boot and Compose.Provision, one goroutine per Session. *)

BootGoes(s, from, to) ==
  /\ Alive
  /\ boot[s] = from
  /\ boot' = [boot EXCEPT ![s] = to]
  /\ UNCHANGED <<admission, reaperVars>>

\* The Project, the plan, the directory or the compose file cannot be made:
\* Provision returns with nothing started and without a Teardown.
ResolveFails(s) ==
  /\ BootGoes(s, "resolve", "settle")
  /\ UNCHANGED <<registry, docker>>

RegisterBackends(s) ==
  /\ BootGoes(s, "resolve", "up")
  /\ Add(s, TRUE)
  /\ UNCHANGED docker

\* `compose up --wait` has started to create the Stack.
UpCreates(s) ==
  /\ BootGoes(s, "up", "up")
  /\ stack[s] = "absent"
  /\ stack' = [stack EXCEPT ![s] = "broken"]
  /\ UNCHANGED <<registry, attached>>

UpSucceeds(s) ==
  /\ BootGoes(s, "up", "attach")
  /\ stack' = [stack EXCEPT ![s] = "healthy"]
  /\ UNCHANGED <<registry, attached>>

\* Mutant: the error path returns without a Teardown.
UpFails_NoTeardown(s) ==
  /\ BootGoes(s, "up", "settle")
  /\ \E left \in {stack[s], "broken"} : stack' = [stack EXCEPT ![s] = left]
  /\ UNCHANGED <<registry, attached>>

\* An unhealthy Stack, the boot limit, or the cancelled base context.
UpFails(s) ==
  /\ BootGoes(s, "up", "detach")
  /\ \E left \in {stack[s], "broken"} : stack' = [stack EXCEPT ![s] = left]
  /\ UNCHANGED <<registry, attached>>

AttachSucceeds(s) ==
  /\ BootGoes(s, "attach", "promote")
  /\ stack[s] # "absent"
  /\ attached' = attached \union {s}
  /\ UNCHANGED <<registry, stack>>

\* Mutant: the error of attachProxy is dropped.
AttachFails_Dropped(s) ==
  /\ BootGoes(s, "attach", "promote")
  /\ UNCHANGED <<registry, docker>>

\* The command can be killed after docker has already connected the network.
AttachFails(s) ==
  /\ BootGoes(s, "attach", "detach")
  /\ \/ UNCHANGED attached
     \/ stack[s] # "absent" /\ attached' = attached \union {s}
  /\ UNCHANGED <<registry, stack>>

Promotes(s) ==
  /\ BootGoes(s, "promote", "served")
  /\ Promote(s)
  /\ UNCHANGED docker

BootDetaches(s) ==
  /\ BootGoes(s, "detach", "down")
  /\ DetachProxy(s)
  /\ UNCHANGED <<registry, stack>>

BootDownSucceeds(s) ==
  /\ BootGoes(s, "down", "unroute")
  /\ DownSucceeds(s)
  /\ UNCHANGED <<registry, attached>>

\* Provision drops Teardown's error.
BootDownFails(s) ==
  /\ BootGoes(s, "down", "settle")
  /\ DownFails(s)
  /\ UNCHANGED <<registry, attached>>

BootUnroutes(s) ==
  /\ BootGoes(s, "unroute", "settle")
  /\ Remove(s)
  /\ UNCHANGED docker

\* Manager.boot after a Provision error.
BootSettles(s) ==
  /\ BootGoes(s, "settle", "aborted")
  /\ IF Cancelled THEN Remove(s) ELSE Fail(s, "failed")
  /\ UNCHANGED docker

BootStep(s) ==
  \/ ResolveFails(s) \/ RegisterBackends(s)
  \/ UpCreates(s) \/ UpSucceeds(s) \/ UpFails(s)
  \/ AttachSucceeds(s) \/ AttachFails(s) \/ Promotes(s)
  \/ BootDetaches(s) \/ BootDownSucceeds(s) \/ BootDownFails(s)
  \/ BootUnroutes(s) \/ BootSettles(s)

-----------------------------------------------------------------------------
(* Reaper.tick *)

\* The registry snapshot, and the clocks of Sessions that are gone pruned.
TickBegins ==
  /\ Alive /\ reaper = "idle"
  /\ reaper' = "scan"
  /\ present' = routes
  /\ tracked' = tracked \intersect Routed
  /\ unhealthy' = unhealthy \intersect Routed
  /\ lingering' = lingering \intersect Routed
  /\ UNCHANGED <<registry, docker, boot, admission, victim, verdict>>

TickEnds ==
  /\ Alive /\ reaper = "scan"
  /\ \A s \in Session : present[s] = "none"
  /\ reaper' = "idle"
  /\ UNCHANGED <<registry, docker, boot, admission, present, victim, verdict, clocks>>

\* The next route of the snapshot: Go's map order is random.
Visit(s, states) ==
  /\ Alive /\ reaper = "scan"
  /\ present[s] \in states
  /\ present' = [present EXCEPT ![s] = "none"]
  /\ UNCHANGED <<docker, boot, admission>>

LingerBegins(s) ==
  /\ Visit(s, Terminal)
  /\ s \notin lingering
  /\ lingering' = lingering \union {s}
  /\ tracked' = tracked \union {s}
  /\ UNCHANGED <<registry, reaper, victim, verdict, unhealthy>>

LingerContinues(s) ==
  /\ Visit(s, Terminal)
  /\ s \in lingering
  /\ UNCHANGED <<registry, reaper, victim, verdict, clocks>>

DropClock(s) ==
  /\ tracked' = tracked \ {s}
  /\ unhealthy' = unhealthy \ {s}
  /\ lingering' = lingering \ {s}

LingerExpires(s) ==
  /\ Visit(s, Terminal)
  /\ s \in lingering
  /\ Remove(s)
  /\ DropClock(s)
  /\ UNCHANGED <<reaper, victim, verdict>>

\* A booting Session, before max-runtime: nothing else applies to it.
SparesBooting(s) ==
  /\ Visit(s, {"booting"})
  /\ tracked' = tracked \union {s}
  /\ UNCHANGED <<registry, reaper, victim, verdict, unhealthy, lingering>>

\* reap and crash: the call of Teardown that the next steps carry out.
TeardownBegins(s, why) ==
  /\ reaper' = "detach"
  /\ victim' = s
  /\ verdict' = why
  /\ UNCHANGED <<registry, lingering>>

ReapsMaxRuntime(s) ==
  /\ Visit(s, IF ReapsBooting THEN {"booting", "live"} ELSE {"live"})
  /\ s \in tracked
  /\ TeardownBegins(s, "reap")
  /\ UNCHANGED <<tracked, unhealthy>>

\* detectCrash short of a crash: the check errs, or it starts, continues or
\* resets the grace window.
HealthChecked(s) ==
  \/ UNCHANGED unhealthy
  \/ stack[s] = "healthy" /\ unhealthy' = unhealthy \ {s}
  \/ stack[s] # "healthy" /\ unhealthy' = unhealthy \union {s}

SparesLive(s) ==
  /\ Visit(s, {"live"})
  /\ HealthChecked(s)
  /\ tracked' = tracked \union {s}
  /\ UNCHANGED <<registry, reaper, victim, verdict, lingering>>

ReapsIdle(s) ==
  /\ Visit(s, {"live"})
  /\ s \in tracked
  /\ HealthChecked(s)
  /\ TeardownBegins(s, "reap")
  /\ UNCHANGED tracked

DetectsCrash(s) ==
  /\ Visit(s, {"live"})
  /\ stack[s] # "healthy" /\ s \in unhealthy
  /\ TeardownBegins(s, "crash")
  /\ UNCHANGED <<tracked, unhealthy>>

ReaperGoes(from, to) ==
  /\ Alive
  /\ reaper = from
  /\ reaper' = to
  /\ IF to = "scan" THEN victim' = "none" /\ verdict' = "none"
                    ELSE UNCHANGED <<victim, verdict>>
  /\ UNCHANGED <<boot, admission, present>>

ReaperDetaches ==
  /\ ReaperGoes("detach", "down")
  /\ DetachProxy(victim)
  /\ UNCHANGED <<registry, stack, clocks>>

ReaperDownSucceeds ==
  /\ ReaperGoes("down", "unroute")
  /\ DownSucceeds(victim)
  /\ UNCHANGED <<registry, attached, clocks>>

\* Mutant: the error of `down` is dropped, as Provision does.
ReaperDownFails_Dropped ==
  /\ ReaperGoes("down", "unroute")
  /\ DownFails(victim)
  /\ UNCHANGED <<registry, attached, clocks>>

\* The route and the clock stay: the next tick retries.
ReaperDownFails ==
  /\ ReaperGoes("down", "scan")
  /\ DownFails(victim)
  /\ UNCHANGED <<registry, attached, clocks>>

\* Mutant: Teardown forgets the route.
ReaperUnroutes_KeepsRoute ==
  /\ ReaperGoes("unroute", IF verdict = "crash" THEN "fail" ELSE "scan")
  /\ IF verdict = "crash" THEN UNCHANGED clocks ELSE DropClock(victim)
  /\ UNCHANGED <<registry, docker>>

\* Teardown removes the route; reap then drops the clock, crash does not.
ReaperUnroutes ==
  /\ ReaperGoes("unroute", IF verdict = "crash" THEN "fail" ELSE "scan")
  /\ Remove(victim)
  /\ IF verdict = "crash" THEN UNCHANGED clocks ELSE DropClock(victim)
  /\ UNCHANGED docker

\* Mutant: a crash shows the page of a failed boot.
MarksCrashed_WrongPage ==
  /\ ReaperGoes("fail", "scan")
  /\ Fail(victim, "failed")
  /\ UNCHANGED <<docker, clocks>>

MarksCrashed ==
  /\ ReaperGoes("fail", "scan")
  /\ Fail(victim, "crashed")
  /\ UNCHANGED <<docker, clocks>>

ReaperVisit(s) ==
  \/ LingerBegins(s) \/ LingerContinues(s) \/ LingerExpires(s)
  \/ SparesBooting(s) \/ SparesLive(s)
  \/ ReapsMaxRuntime(s) \/ ReapsIdle(s) \/ DetectsCrash(s)

ReaperStep ==
  \/ TickBegins \/ TickEnds
  \/ \E s \in Session : ReaperVisit(s)
  \/ ReaperDetaches \/ ReaperDownSucceeds \/ ReaperDownFails
  \/ ReaperUnroutes \/ MarksCrashed

-----------------------------------------------------------------------------
(* main.run's shutdown *)

PhaseGoes(from, to) ==
  /\ phase = from
  /\ phase' = to
  /\ UNCHANGED <<registry, docker, boot, admit, reaperVars>>

\* A signal: srv.Shutdown accepts no new request.
ServerCloses == ShutsDown /\ PhaseGoes("serving", "closing")

\* srv.Shutdown returned an error: run returns and main exits at once.
ServerCloseFails == PhaseGoes("closing", "died")

\* Every handler has returned; sessions.Shutdown cancels baseCtx.
BootsCancelled ==
  /\ admit = "free"
  /\ PhaseGoes("closing", "cancelled")

\* Mutant: Shutdown does not wait for the boots it cancelled.
BootsDrained_NoWait == PhaseGoes("cancelled", "drained")

BootsDrained ==
  /\ \A s \in Session : boot[s] \in {"unborn", "served", "aborted"}
  /\ PhaseGoes("cancelled", "drained")

DrainDeadline ==
  /\ \E s \in Session : boot[s] \notin {"unborn", "served", "aborted"}
  /\ PhaseGoes("cancelled", "overdue")

\* main stops the reaper and waits for its tick to end.
ProcessExits ==
  /\ reaper = "idle"
  /\ PhaseGoes("drained", "exited") \/ PhaseGoes("overdue", "died")

ShutdownStep ==
  ServerCloses \/ ServerCloseFails \/ BootsCancelled \/ BootsDrained
    \/ DrainDeadline \/ ProcessExits

-----------------------------------------------------------------------------
(* The containers themselves, under their restart policy. *)

Sickens(s) ==
  /\ Alive /\ stack[s] = "healthy"
  /\ stack' = [stack EXCEPT ![s] = "broken"]
  /\ UNCHANGED <<registry, attached, boot, admission, reaperVars>>

Recovers(s) ==
  /\ Alive /\ stack[s] = "broken"
  /\ stack' = [stack EXCEPT ![s] = "healthy"]
  /\ UNCHANGED <<registry, attached, boot, admission, reaperVars>>

Terminated == ~Alive /\ UNCHANGED vars

Play == PlayRejected \/ PlayAdmitted \/ PlayMintFails \/ \E s \in Session : PlayRegisters(s)

Next ==
  \/ Play
  \/ \E s \in Session : BootStep(s) \/ Sickens(s) \/ Recovers(s)
  \/ ReaperStep
  \/ ShutdownStep
  \/ Terminated

Spec == Init /\ [][Next]_vars

-----------------------------------------------------------------------------
(* Properties *)

TypeOK ==
  /\ routes \in [Session -> RouteState]
  /\ staged \subseteq Session
  /\ stack \in [Session -> StackState]
  /\ attached \subseteq Session
  /\ boot \in [Session -> BootPc]
  /\ admit \in {"free", "checked"}
  /\ phase \in Phase
  /\ reaper \in ReaperPc
  /\ present \in [Session -> RouteState]
  /\ victim \in Session \union {"none"}
  /\ verdict \in {"none", "reap", "crash"}
  /\ tracked \subseteq Session
  /\ unhealthy \subseteq tracked
  /\ lingering \subseteq tracked

\* Play's admission: however boots, teardowns and Plays interleave, no more
\* than MaxSessions Sessions are booting or live.
ActiveWithinCap == MaxSessions > 0 => Cardinality(Active) <= MaxSessions

\* What the cap is for: as long as docker obeys, the host never carries more
\* than MaxSessions Stacks, the half-booted and half-removed ones included.
StacksWithinCap ==
  MaxSessions > 0 => Cardinality({s \in Session : stack[s] # "absent"}) <= MaxSessions

\* Teardown keeps the route of a Stack that did not come down: a Stack without
\* a booting or live route is what an aborted boot left, never a Stack that
\* was served.
ServedStacksStayVisible ==
  \A s \in Session :
    boot[s] = "served" /\ stack[s] # "absent" => routes[s] = "live"

\* Provision leaves nothing running on error: once the boot gave up, its Stack,
\* and Traefik's leg in its network, are gone before the route says so.
FailedBootLeavesNothing ==
  \A s \in Session :
    boot[s] \in {"settle", "aborted"} => stack[s] = "absent" /\ s \notin attached

\* A Guest is sent to the Stack's backends exactly while the Session is live;
\* they are staged before Promote and gone from every terminal route.
LiveHasBackends ==
  \A s \in Session : /\ routes[s] = "live" => s \in staged
                     /\ routes[s] \in Terminal \union {"none"} => s \notin staged

\* Traefik can reach every live Session's network, except while the reaper is
\* tearing that Session down.
LiveIsReachable ==
  \A s \in Session : routes[s] = "live" => s \in attached \/ victim = s

\* After a clean drain the only Stacks left behind are those of live Sessions.
CleanExit ==
  phase = "exited" =>
    \A s \in Session : stack[s] # "absent" => routes[s] = "live"

\* proxy.State's comments on Failed and Crashed: "The Stack is gone" under a
\* terminal route.
TerminalStackGone ==
  \A s \in Session : routes[s] \in Terminal => stack[s] = "absent"

\* session.go on Play: "teardowns only ever free slots", so that the count the
\* cap is checked against stays within the cap.
RoutesWithinCap == MaxSessions > 0 => Len <= MaxSessions

-----------------------------------------------------------------------------
(* The refinement of SessionLifecycle.  A boot that gave up is "aborting"   *)
(* until Manager.boot settles it, and a crash is "collapsing" between       *)
(* Teardown's Remove and Fail: in both the slot is already free.            *)

Life(s) ==
  CASE boot[s] = "unborn" -> "unborn"
    [] boot[s] \in Booting \union Cleaning -> "booting"
    [] boot[s] = "settle" -> "aborting"
    [] boot[s] = "aborted" -> IF routes[s] = "failed" THEN "failed" ELSE "gone"
    [] boot[s] = "served" /\ routes[s] # "none" -> routes[s]
    [] boot[s] = "served" /\ routes[s] = "none" ->
         IF reaper = "fail" /\ victim = s THEN "collapsing" ELSE "gone"

Lifecycle == INSTANCE SessionLifecycle WITH life <- [s \in Session |-> Life(s)]

\* The goroutines implement the lifecycle the ADR promises: in particular a
\* Play is admitted only into a free slot, also when the check of the cap and
\* the registration of the route are apart.
ImplementsLifecycle == Lifecycle!Spec

-----------------------------------------------------------------------------
(* Fairness: a goroutine that can go on does, and the lock's holder returns. *)
(* The strong conjuncts say that time passes for a Session the reaper keeps  *)
(* visiting, and that docker does not refuse a teardown for ever.            *)

Fairness ==
  /\ WF_vars(PlayMintFails \/ \E s \in Session : PlayRegisters(s))
  /\ \A s \in Session : WF_vars(BootStep(s))
  /\ WF_vars(ReaperStep)
  /\ \A s \in Session : SF_vars(LingerExpires(s)) /\ SF_vars(ReapsMaxRuntime(s))
  /\ \A s \in Session : /\ SF_vars(victim = s /\ ReaperDetaches /\ s \notin attached')
                         /\ SF_vars(victim = s /\ ReaperDownSucceeds)

FairSpec == Spec /\ Fairness

Closing == phase # "serving"

\* No Session is for ever, and with it no booting page and no slot of the cap:
\* a boot resolves, the reaper ends every live Session although its teardowns
\* fail again and again, and drops every failure page.
SessionsEnd ==
  \A s \in Session : boot[s] # "unborn" ~> routes[s] = "none" \/ Closing
=============================================================================
