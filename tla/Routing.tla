------------------------------- MODULE Routing -------------------------------
(***************************************************************************)
(* How a Guest reaches a Demo: the registry's routes, the dynamic          *)
(* configuration that proxy.ConfigHandler renders from them, Traefik,      *)
(* which polls it and routes by the last one it fetched, and the status    *)
(* page, which looks the Session up in the registry when it is asked.      *)
(*                                                                         *)
(* Abstractions.  Here docker obeys, and a boot and a teardown are the     *)
(* registry calls and the changes of what Traefik can reach, in the order  *)
(* of Provision and Teardown (Sessions has their failures).  A path is     *)
(* its sequence of segments; of a declared prefix the trailing slash is    *)
(* kept apart.  A Guest has one page per Session.                          *)
(***************************************************************************)
EXTENDS Naturals, Sequences

SE == INSTANCE SequencesExt   \* its Remove is not the registry's

CONSTANTS
  Session,    \* the Sessions that are played
  SlowBoots,  \* those whose boot can outlast MAX_RUNTIME
  Prefix,     \* per Session, the declared API prefixes in order
  Paths,      \* the paths Guests ask for, as sequences of segments
  Begins      \* the pairs of segments of which one begins the other's text

ASSUME RoutingAssumption ==
  /\ SlowBoots \subseteq Session /\ Session \intersect {"none", "status"} = {}
  /\ \A s \in Session : Prefix[s] \in Seq([segments : Seq(STRING), slash : BOOLEAN])

VARIABLES
  route,    \* Registry.routes: each Session's state, and whether it has backends
  boot,     \* each boot goroutine: "unborn", at "resolve", "up", "promote",
            \* "unroute" or "settle", and then "served" or "aborted"
  network,  \* each Stack: "none", "up", or "attached" to Traefik
  reaper,   \* the Session the reaper tears down, where it is, and why
  applied,  \* the configuration Traefik has fetched last
  page      \* what each Session's Guest sees, who served it, for which path

vars == <<route, boot, network, reaper, applied, page>>

NoRoute  == [state |-> "none", backends |-> FALSE]
Terminal == {"failed", "crashed"}
Idle     == [of |-> "none", at |-> "idle", why |-> "none"]
Nobody   == [session |-> "none", service |-> 0]
NoPage   == [shows |-> "none", by |-> Nobody, path |-> <<>>]

-----------------------------------------------------------------------------
(* ConfigHandler.build *)

\* Service 0 of a Session is its UI, service i its i-th API.
Router(s, segments, service, priority) ==
  [host |-> s, segments |-> segments, service |-> service, priority |-> priority]
Backend(s, i) == [session |-> s, service |-> i]
statusService == Backend("status", 0)
Status(s)     == Router(s, <<>>, statusService, 1)

Trimmed(prefix) == prefix.segments

LiveRouters(s) ==
  {Router(s, <<>>, Backend(s, 0), 1)} \union
  {Router(s, Trimmed(Prefix[s][i]), Backend(s, i), 100) : i \in DOMAIN Prefix[s]}

Routers(s) ==
  CASE route[s].state = "none" -> {}
    [] route[s].state = "live" -> LiveRouters(s)
    [] OTHER -> {Status(s)}

build == UNION {Routers(s) : s \in Session}

\* Mutant: a string prefix instead of a segment boundary.
apiPathRule_Raw(segments, path) ==
  \/ SE!IsPrefix(segments, path)
  \/ \E k \in 1..Len(segments) :
       /\ k = Len(segments) /\ k <= Len(path)
       /\ SE!Front(segments) = SubSeq(path, 1, k - 1)
       /\ <<segments[k], path[k]>> \in Begins

\* Path(`p`) || PathPrefix(`p/`)
apiPathRule(segments, path) == SE!IsPrefix(segments, path)

-----------------------------------------------------------------------------
(* A request: Traefik's choice of a router, and the page it leads to.      *)

Matching(s, path) == {r \in applied : r.host = s /\ apiPathRule(r.segments, path)}
Chosen(s, path) ==
  {r \in Matching(s, path) : \A q \in Matching(s, path) : q.priority <= r.priority}

\* Mutant: a route that has become live meanwhile is taken for gone.
StatusHandler_LiveEnded(state) ==
  CASE state \in {"none", "live"} -> "ended" [] state \in Terminal -> state [] OTHER -> "splash"

StatusHandler(state) ==
  CASE state = "none" -> "ended" [] state \in Terminal -> state [] OTHER -> "splash"

\* A backend answers while Traefik is attached to the Session's network.
Answer(r, path) ==
  IF r.service = statusService
  THEN [NoPage EXCEPT !.shows = StatusHandler(route[r.host].state), !.path = path]
  ELSE IF network[r.service.session] = "attached"
       THEN [shows |-> "demo", by |-> r.service, path |-> path]
       ELSE [NoPage EXCEPT !.shows = "502", !.path = path]

Answers(s, path) ==
  IF Chosen(s, path) = {} THEN {[NoPage EXCEPT !.shows = "404", !.path = path]}
  ELSE {Answer(r, path) : r \in Chosen(s, path)}

Requests(s, path) ==
  /\ \E answer \in Answers(s, path) : page' = [page EXCEPT ![s] = answer]
  /\ UNCHANGED <<route, boot, network, reaper, applied>>

\* The Guest follows a link or reloads, once Play has returned the URL.
Visits(s, path) == boot[s] # "unborn" /\ Requests(s, path)

\* Mutant: the status page has lost its refresh hint.
writePage_Static(shows) == FALSE

writePage(shows) == shows = "splash"

Refreshes(s) == writePage(page[s].shows) /\ Requests(s, page[s].path)

\* Traefik polls every second; a poll that fails changes nothing.
Polls ==
  /\ applied' = build
  /\ UNCHANGED <<route, boot, network, reaper, page>>

-----------------------------------------------------------------------------
(* The registry *)

Routed(s, state, backends) ==
  route' = [route EXCEPT ![s] = [state |-> state, backends |-> backends]]

Add(s, backends) == Routed(s, "booting", backends)
Remove(s)        == route' = [route EXCEPT ![s] = NoRoute]
Fail(s, state)   == Routed(s, state, FALSE)

\* Mutant: the presence check is dropped.
Promote_Absent(s) == route' = [route EXCEPT ![s].state = "live"]

Promote(s) ==
  route' = [route EXCEPT ![s].state = IF @ = "none" THEN "none" ELSE "live"]

-----------------------------------------------------------------------------
(* Manager.Play, Manager.boot and Compose.Provision *)

BootGoes(s, from, to) ==
  /\ boot[s] = from
  /\ boot' = [boot EXCEPT ![s] = to]
  /\ UNCHANGED <<reaper, applied, page>>

Play(s)             == BootGoes(s, "unborn", "resolve") /\ Add(s, FALSE) /\ UNCHANGED network
ResolveFails(s)     == BootGoes(s, "resolve", "settle") /\ UNCHANGED <<route, network>>
RegisterBackends(s) == BootGoes(s, "resolve", "up") /\ Add(s, TRUE) /\ UNCHANGED network

UpAndAttached(s) ==
  /\ BootGoes(s, "up", "promote")
  /\ network' = [network EXCEPT ![s] = "attached"]
  /\ UNCHANGED route

UpFails(s) ==
  /\ BootGoes(s, "up", "unroute")
  /\ network' = [network EXCEPT ![s] = "none"]
  /\ UNCHANGED route

Promotes(s)     == BootGoes(s, "promote", "served") /\ Promote(s) /\ UNCHANGED network
BootUnroutes(s) == BootGoes(s, "unroute", "settle") /\ Remove(s) /\ UNCHANGED network
BootSettles(s)  == BootGoes(s, "settle", "aborted") /\ Fail(s, "failed") /\ UNCHANGED network

BootStep(s) ==
  \/ ResolveFails(s) \/ RegisterBackends(s) \/ UpAndAttached(s) \/ UpFails(s)
  \/ Promotes(s) \/ BootUnroutes(s) \/ BootSettles(s)

-----------------------------------------------------------------------------
(* The reaper: one teardown at a time *)

ReaperTakes(s, why) ==
  /\ reaper = Idle
  /\ \/ route[s].state = "live"
     \/ route[s].state = "booting" /\ s \in SlowBoots /\ why = "reap"
  /\ reaper' = [of |-> s, at |-> "detach", why |-> why]
  /\ UNCHANGED <<route, boot, network, applied, page>>

ReaperGoes(from, to) ==
  /\ reaper.at = from
  /\ reaper' = IF to = "idle" THEN Idle ELSE [reaper EXCEPT !.at = to]
  /\ UNCHANGED <<boot, applied, page>>

ReaperDetaches ==
  /\ ReaperGoes("detach", "down")
  /\ network' = [network EXCEPT ![reaper.of] = IF @ = "none" THEN "none" ELSE "up"]
  /\ UNCHANGED route

ReaperDowns ==
  /\ ReaperGoes("down", "unroute")
  /\ network' = [network EXCEPT ![reaper.of] = "none"]
  /\ UNCHANGED route

ReaperUnroutes ==
  /\ ReaperGoes("unroute", IF reaper.why = "crash" THEN "mark" ELSE "idle")
  /\ Remove(reaper.of)
  /\ UNCHANGED network

MarksCrashed ==
  /\ ReaperGoes("mark", "idle")
  /\ Fail(reaper.of, "crashed")
  /\ UNCHANGED network

LingerExpires(s) ==
  /\ reaper = Idle
  /\ route[s].state \in Terminal
  /\ Remove(s)
  /\ UNCHANGED <<boot, network, reaper, applied, page>>

ReaperTearsDown == ReaperDetaches \/ ReaperDowns \/ ReaperUnroutes \/ MarksCrashed

Init ==
  /\ route = [s \in Session |-> NoRoute]
  /\ boot = [s \in Session |-> "unborn"]
  /\ network = [s \in Session |-> "none"]
  /\ reaper = Idle
  /\ applied = {}
  /\ page = [s \in Session |-> NoPage]

Next ==
  \/ \E s \in Session : Play(s) \/ BootStep(s) \/ Refreshes(s) \/ LingerExpires(s)
  \/ \E s \in Session, path \in Paths : Visits(s, path)
  \/ \E s \in Session, why \in {"reap", "crash"} : ReaperTakes(s, why)
  \/ ReaperTearsDown
  \/ Polls

Spec == Init /\ [][Next]_vars

\* A boot and a teardown that can go on do, Traefik keeps polling, and the
\* browser refreshes a page that asks for it.
Fairness ==
  /\ WF_vars(Polls)
  /\ WF_vars(ReaperTearsDown)
  /\ \A s \in Session : WF_vars(BootStep(s)) /\ WF_vars(Refreshes(s))

FairSpec == Spec /\ Fairness

-----------------------------------------------------------------------------
(* Properties *)

\* Whatever configuration Traefik still has, who answers a Session's host is a
\* service of that Session: an API for a path below its prefix, and the UI for
\* a path below none.
ServedByItsOwn ==
  \A s \in Session :
    LET by == page[s].by
        below(i) == SE!IsPrefix(Prefix[s][i].segments, page[s].path)
    IN page[s].shows = "demo" =>
         /\ by.session = s
         /\ IF by.service = 0 THEN \A i \in DOMAIN Prefix[s] : ~below(i) ELSE below(by.service)

\* Promote after the reaper's Remove re-creates nothing: a live route always
\* has the backends that Provision registered.
LiveHasBackends ==
  \A s \in Session : route[s].state = "live" => route[s].backends

\* A page without a refresh is the last one its Guest sees, so it is shown for
\* an ended Session only, although the status page is reached by an old
\* configuration and answers from the present registry.
FinalPagesAreFinal ==
  \A s \in Session \ SlowBoots :
    page[s].shows \in {"ended"} \union Terminal => route[s].state \notin {"booting", "live"}

Over(s) == boot[s] \in {"unroute", "settle", "aborted", "served"} /\ route[s].state # "live"

\* The booting page's refresh leads on: to the Demo, or away from the splash
\* of a Session that is over.
BootingPageResolves ==
  \A s \in Session \ SlowBoots :
    page[s].shows = "splash"
      ~> page[s].shows = "demo" \/ (page[s].shows # "splash" /\ Over(s))

\* session.go on Play: the route is registered "so the subdomain routes to the
\* splash the instant the Guest navigates".
SplashAtOnce ==
  \A s \in Session : page[s].shows = "404" => route[s].state # "booting"
=============================================================================
