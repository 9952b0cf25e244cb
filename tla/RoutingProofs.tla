---------------------------- MODULE RoutingProofs ----------------------------
(* What TLAPS proves about Routing for any Sessions, prefixes and paths.     *)
EXTENDS Routing, TLAPS

States == {"none", "booting", "live", "failed", "crashed"}
Boots  == {"unborn", "resolve", "up", "promote", "unroute", "settle", "served", "aborted"}
At     == {"idle", "detach", "down", "unroute", "mark"}

Routes == [state : States, backends : BOOLEAN]

TypeOK ==
  /\ route \in [Session -> Routes]
  /\ boot \in [Session -> Boots]
  /\ reaper \in [of : Session \union {"none"}, at : At, why : {"none", "reap", "crash"}]
  /\ page = [s \in Session |-> page[s]]

\* The route follows the boot goroutine: Provision has registered the backends
\* before anything is promoted, and the reaper marks as crashed only what was
\* served.
BootInv ==
  /\ \A s \in Session :
       /\ boot[s] \in {"up", "promote"} => route[s].state = "none" \/ route[s].backends
       /\ route[s].state = "live" => boot[s] = "served" /\ route[s].backends
       /\ boot[s] = "unborn" => page[s].shows = "none"
  /\ reaper.at = "mark" => reaper.why = "crash"
  /\ reaper.at # "idle" => reaper.of \in Session
  /\ reaper.why = "crash" => reaper.of \in Session /\ boot[reaper.of] = "served"

\* A boot that cannot outlast MAX_RUNTIME keeps its booting route to its end.
QuickInv ==
  \A s \in Session \ SlowBoots :
    /\ boot[s] \in {"resolve", "up", "promote", "unroute"} => route[s].state = "booting"
    /\ reaper.of = s => boot[s] = "served"

\* A fetched configuration has all the routers of a live Session, or its status
\* page alone.
Mine(s) == {r \in applied : r.host = s}
ConfigInv == \A s \in Session : Mine(s) \in {{}, {Status(s)}, LiveRouters(s)}

RouteInv == TypeOK /\ BootInv /\ QuickInv /\ FinalPagesAreFinal
PageInv  == ConfigInv /\ ServedByItsOwn
Inv      == RouteInv /\ PageInv

LEMMA InitInv == Init => Inv
<1> SUFFICES ASSUME Init PROVE Inv
  OBVIOUS
<1>1. RouteInv
  BY RoutingAssumption
  DEF Init, RouteInv, TypeOK, BootInv, QuickInv, FinalPagesAreFinal, States, Boots, At,
      NoRoute, Routes, Idle, NoPage, Terminal
<1>2. PageInv
  BY DEF Init, PageInv, ConfigInv, Mine, ServedByItsOwn, NoPage
<1> QED
  BY <1>1, <1>2 DEF Inv

-----------------------------------------------------------------------------
(* The routes *)

LEMMA BootKeepsRoutes ==
  ASSUME RouteInv, NEW s \in Session, Play(s) \/ BootStep(s)
  PROVE  RouteInv'
<1> USE RoutingAssumption DEF RouteInv, BootGoes
<1>1. UNCHANGED <<reaper, page>>
  BY DEF Play, BootStep, ResolveFails, RegisterBackends, UpAndAttached, UpFails, Promotes,
         BootUnroutes, BootSettles
<1>2. route[s] \in Routes
  BY DEF TypeOK
<1>3. PICK from \in Boots, to \in Boots, new \in Routes :
        /\ boot[s] = from /\ boot' = [boot EXCEPT ![s] = to]
        /\ route' = route \/ route' = [route EXCEPT ![s] = new]
  <2> DEFINE Given(state, backends) == [state |-> state, backends |-> backends]
  <2>1. CASE Play(s)
    <3>1. Given("booting", FALSE) \in Routes
      BY DEF Routes, States
    <3> QED
      BY <2>1, <3>1 DEF Play, Add, Routed, Boots
  <2>2. CASE ResolveFails(s) \/ UpAndAttached(s) \/ UpFails(s)
    BY <1>2, <2>2 DEF ResolveFails, UpAndAttached, UpFails, Boots
  <2>3. CASE RegisterBackends(s) \/ BootUnroutes(s) \/ BootSettles(s)
    <3>1. Given("booting", TRUE) \in Routes /\ NoRoute \in Routes /\ Given("failed", FALSE) \in Routes
      BY DEF Routes, States, NoRoute
    <3> QED
      BY <2>3, <3>1 DEF RegisterBackends, BootUnroutes, BootSettles, Add, Remove, Fail, Routed,
                        Boots
  <2>4. CASE Promotes(s)
    <3> DEFINE new == [route[s] EXCEPT !.state = IF @ = "none" THEN "none" ELSE "live"]
    <3>1. new \in Routes
      BY <1>2, Zenon DEF Routes, States
    <3>2. boot[s] = "promote" /\ boot' = [boot EXCEPT ![s] = "served"]
      BY <2>4 DEF Promotes
    <3>3. route' = [route EXCEPT ![s] = new]
      BY <2>4, Zenon DEF Promotes, Promote
    <3> QED
      BY <3>1, <3>2, <3>3, Zenon DEF Boots
  <2> QED
    BY <2>1, <2>2, <2>3, <2>4 DEF BootStep
<1>4. TypeOK'
  <2>1. boot' \in [Session -> Boots]
    BY <1>3, Zenon DEF TypeOK
  <2>2. route' \in [Session -> Routes]
    BY <1>3, Zenon DEF TypeOK
  <2> QED
    BY <1>1, <2>1, <2>2 DEF TypeOK
<1>5. \A t \in Session \ {s} : boot'[t] = boot[t] /\ route'[t] = route[t]
  BY <1>3 DEF TypeOK
<1>6. reaper.why = "crash" => reaper.of # s
  BY DEF Play, BootStep, ResolveFails, RegisterBackends, UpAndAttached, UpFails, Promotes,
         BootUnroutes, BootSettles, BootInv
<1> SUFFICES /\ boot'[s] \in {"up", "promote"} => route'[s].state = "none" \/ route'[s].backends
             /\ route'[s].state = "live" => boot'[s] = "served" /\ route'[s].backends
             /\ boot'[s] # "unborn"
             /\ s \notin SlowBoots =>
                  /\ boot'[s] \in {"resolve", "up", "promote", "unroute"} =>
                       route'[s].state = "booting"
                  /\ reaper.of # s
                  /\ page[s].shows \in {"ended"} \union Terminal =>
                       route'[s].state \notin {"booting", "live"}
  <2>1. BootInv'
    BY <1>1, <1>5, <1>6 DEF BootInv
  <2>2. QuickInv'
    BY <1>1, <1>5 DEF QuickInv
  <2>3. FinalPagesAreFinal'
    BY <1>1, <1>5 DEF FinalPagesAreFinal
  <2> QED
    BY <1>4, <2>1, <2>2, <2>3
<1>7. s \notin SlowBoots => reaper.of # s
  BY DEF Play, BootStep, ResolveFails, RegisterBackends, UpAndAttached, UpFails, Promotes,
         BootUnroutes, BootSettles, QuickInv
<1>8. CASE Play(s)
  BY <1>7, <1>8 DEF Play, Add, Routed, TypeOK, BootInv, Terminal
<1>9. CASE RegisterBackends(s)
  BY <1>7, <1>9 DEF RegisterBackends, Add, Routed, TypeOK, QuickInv, FinalPagesAreFinal, Terminal
<1>10. CASE ResolveFails(s) \/ UpAndAttached(s) \/ UpFails(s)
  BY <1>7, <1>10 DEF ResolveFails, UpAndAttached, UpFails, TypeOK, BootInv, QuickInv,
                     FinalPagesAreFinal
<1>11. CASE Promotes(s)
  BY <1>7, <1>11 DEF Promotes, Promote, TypeOK, BootInv, QuickInv, FinalPagesAreFinal
<1>12. CASE BootUnroutes(s) \/ BootSettles(s)
  BY <1>7, <1>12 DEF BootUnroutes, BootSettles, Remove, Fail, Routed, NoRoute, TypeOK
<1> QED
  BY <1>8, <1>9, <1>10, <1>11, <1>12 DEF BootStep

LEMMA ReaperKeepsRoutes ==
  ASSUME RouteInv,
         \/ ReaperTearsDown
         \/ \E s \in Session : LingerExpires(s) \/ \E why \in {"reap", "crash"} : ReaperTakes(s, why)
  PROVE  RouteInv'
<1> USE RoutingAssumption DEF RouteInv, ReaperGoes, Idle
<1>1. UNCHANGED <<boot, page>>
  BY DEF ReaperTearsDown, ReaperDetaches, ReaperDowns, ReaperUnroutes, MarksCrashed,
         LingerExpires, ReaperTakes
<1>2. ASSUME NEW s \in Session, NEW why \in {"reap", "crash"}, ReaperTakes(s, why)
      PROVE  RouteInv'
  <2>1. TypeOK'
    BY <1>2 DEF ReaperTakes, TypeOK, At
  <2>2. BootInv' /\ QuickInv' /\ FinalPagesAreFinal'
    BY <1>2 DEF ReaperTakes, TypeOK, BootInv, QuickInv, FinalPagesAreFinal
  <2> QED
    BY <2>1, <2>2
<1>3. ASSUME NEW s \in Session, LingerExpires(s)
      PROVE  RouteInv'
  <2>1. TypeOK'
    BY <1>3 DEF LingerExpires, Remove, NoRoute, TypeOK, Routes, States
  <2>2. BootInv' /\ QuickInv' /\ FinalPagesAreFinal'
    BY <1>3 DEF LingerExpires, Remove, NoRoute, Terminal, TypeOK, BootInv, QuickInv,
                FinalPagesAreFinal
  <2> QED
    BY <2>1, <2>2
<1>4. CASE ReaperDetaches \/ ReaperDowns
  <2>1. TypeOK'
    BY <1>1, <1>4 DEF ReaperDetaches, ReaperDowns, TypeOK, At
  <2>2. BootInv' /\ QuickInv' /\ FinalPagesAreFinal'
    BY <1>1, <1>4 DEF ReaperDetaches, ReaperDowns, TypeOK, BootInv, QuickInv, FinalPagesAreFinal
  <2> QED
    BY <2>1, <2>2
<1>5. CASE ReaperUnroutes
  <2>1. TypeOK'
    BY <1>1, <1>5 DEF ReaperUnroutes, Remove, NoRoute, TypeOK, Routes, States, At
  <2>2. BootInv' /\ QuickInv' /\ FinalPagesAreFinal'
    BY <1>1, <1>5 DEF ReaperUnroutes, Remove, NoRoute, TypeOK, BootInv, QuickInv,
                      FinalPagesAreFinal
  <2> QED
    BY <2>1, <2>2
<1>6. CASE MarksCrashed
  <2>1. TypeOK'
    <3>1. [state |-> "crashed", backends |-> FALSE] \in Routes
      BY DEF Routes, States
    <3>2. route' \in [Session -> Routes]
      BY <1>6, <3>1, Zenon DEF MarksCrashed, Fail, Routed, TypeOK
    <3> QED
      BY <1>1, <1>6, <3>2 DEF MarksCrashed, TypeOK, At
  <2>2. BootInv' /\ QuickInv' /\ FinalPagesAreFinal'
    BY <1>1, <1>6 DEF MarksCrashed, Fail, Routed, TypeOK, BootInv, QuickInv, FinalPagesAreFinal
  <2> QED
    BY <2>1, <2>2
<1> QED
  BY <1>2, <1>3, <1>4, <1>5, <1>6 DEF ReaperTearsDown

-----------------------------------------------------------------------------
(* The requests *)

\* A page without a refresh comes from a registry that has the Session no
\* longer, or as failed or crashed.
LEMMA AnswersFollowRoutes ==
  ASSUME NEW s \in Session, NEW path, NEW answer \in Answers(s, path)
  PROVE  /\ answer.shows \in {"ended"} \union Terminal =>
              route[s].state \in {"none"} \union Terminal
         /\ answer.shows = "demo" =>
              \E r \in Chosen(s, path) :
                /\ r.service # statusService
                /\ answer.by = r.service /\ answer.path = path
<1>1. CASE Chosen(s, path) = {}
  BY <1>1 DEF Answers, NoPage, Terminal
<1>2. CASE Chosen(s, path) # {}
  <2>1. PICK r \in Chosen(s, path) : answer = Answer(r, path)
    BY <1>2 DEF Answers
  <2>2. r.host = s
    BY DEF Chosen, Matching
  <2>3. CASE r.service = statusService
    BY <2>1, <2>2, <2>3 DEF Answer, StatusHandler, NoPage, Terminal
  <2>4. CASE r.service # statusService
    BY <2>1, <2>4 DEF Answer, NoPage, Terminal
  <2> QED
    BY <2>3, <2>4
<1> QED
  BY <1>1, <1>2

\* With all routers of the Session in the configuration, Traefik's priorities
\* send a path below a prefix to an API with such a prefix.
LEMMA ChosenServesItsOwn ==
  ASSUME ConfigInv, NEW s \in Session, NEW path, NEW r \in Chosen(s, path),
         r.service # statusService
  PROVE  /\ r.service.session = s
         /\ IF r.service.service = 0
            THEN \A i \in DOMAIN Prefix[s] : ~SE!IsPrefix(Prefix[s][i].segments, path)
            ELSE SE!IsPrefix(Prefix[s][r.service.service].segments, path)
<1> DEFINE ui == Router(s, <<>>, Backend(s, 0), 1)
           api(i) == Router(s, Prefix[s][i].segments, Backend(s, i), 100)
<1>1. r \in Mine(s) /\ apiPathRule(r.segments, path)
  BY DEF Chosen, Matching, Mine
<1>2. Mine(s) = LiveRouters(s)
  BY <1>1 DEF ConfigInv, Status, Router
<1>3. LiveRouters(s) = {ui} \union {api(i) : i \in DOMAIN Prefix[s]}
  BY DEF LiveRouters, Trimmed
<1>4. CASE r = ui
  <2>1. r.service.session = s /\ r.service.service = 0 /\ r.priority = 1
    BY <1>4 DEF Router, Backend
  <2>2. ASSUME NEW i \in DOMAIN Prefix[s], SE!IsPrefix(Prefix[s][i].segments, path)
        PROVE  FALSE
    <3>1. api(i) \in applied /\ api(i).host = s
      BY <1>2, <1>3 DEF Mine
    <3>2. api(i).segments = Prefix[s][i].segments /\ api(i).priority = 100
      BY DEF Router
    <3>3. api(i) \in Matching(s, path)
      BY <2>2, <3>1, <3>2 DEF Matching, apiPathRule
    <3>4. 100 <= 1
      BY <2>1, <3>2, <3>3 DEF Chosen
    <3> QED
      BY <3>4
  <2> QED
    BY <2>1, <2>2
<1>5. ASSUME NEW i \in DOMAIN Prefix[s], r = api(i)
      PROVE  /\ r.service.session = s /\ r.service.service # 0
             /\ SE!IsPrefix(Prefix[s][r.service.service].segments, path)
  <2>1. r.service.session = s /\ r.service.service = i /\ r.segments = Prefix[s][i].segments
    BY <1>5 DEF Router, Backend
  <2>2. i # 0
    BY RoutingAssumption
  <2> QED
    BY <1>1, <2>1, <2>2 DEF apiPathRule
<1> QED
  BY <1>1, <1>2, <1>3, <1>4, <1>5

LEMMA RequestsKeepInv ==
  ASSUME Inv, NEW s \in Session, NEW path, Requests(s, path), boot[s] # "unborn"
  PROVE  Inv'
<1>1. PICK answer \in Answers(s, path) : page' = [page EXCEPT ![s] = answer]
  BY DEF Requests
<1>2. UNCHANGED <<route, boot, network, reaper, applied>>
  BY DEF Requests
<1>3. /\ page'[s] = answer
      /\ \A t \in Session \ {s} : page'[t] = page[t]
      /\ page' = [t \in Session |-> page'[t]]
  BY <1>1 DEF Inv, RouteInv, TypeOK
<1>4. TypeOK' /\ BootInv' /\ QuickInv'
  BY <1>2, <1>3 DEF Inv, RouteInv, TypeOK, BootInv, QuickInv
<1>5. FinalPagesAreFinal'
  BY <1>2, <1>3, AnswersFollowRoutes DEF Inv, RouteInv, FinalPagesAreFinal, Terminal
<1>6. ConfigInv'
  BY <1>2 DEF Inv, PageInv, ConfigInv, Mine
<1>7. ServedByItsOwn'
  <2> SUFFICES ASSUME NEW t \in Session, page'[t].shows = "demo"
               PROVE  LET by == page'[t].by
                          below(i) == SE!IsPrefix(Prefix[t][i].segments, page'[t].path)
                      IN /\ by.session = t
                         /\ IF by.service = 0 THEN \A i \in DOMAIN Prefix[t] : ~below(i)
                            ELSE below(by.service)
    BY DEF ServedByItsOwn
  <2>1. CASE t = s
    <3>1. PICK r \in Chosen(s, path) : /\ r.service # statusService
                                       /\ answer.by = r.service /\ answer.path = path
      BY <1>3, <2>1, AnswersFollowRoutes
    <3> QED
      BY <1>3, <2>1, <3>1, ChosenServesItsOwn DEF Inv, PageInv
  <2>2. CASE t # s
    BY <1>3, <2>2 DEF Inv, PageInv, ServedByItsOwn
  <2> QED
    BY <2>1, <2>2
<1> QED
  BY <1>4, <1>5, <1>6, <1>7 DEF Inv, RouteInv, PageInv

\* What Traefik fetches has one Session's routers as one state of its route
\* renders them.
LEMMA PollKeepsInv ==
  ASSUME Inv, Polls
  PROVE  Inv'
<1>1. applied' = build /\ UNCHANGED <<route, boot, network, reaper, page>>
  BY DEF Polls
<1>2. RouteInv' /\ ServedByItsOwn'
  BY <1>1 DEF Inv, RouteInv, PageInv, TypeOK, BootInv, QuickInv, FinalPagesAreFinal,
              ServedByItsOwn
<1>3. ASSUME NEW s \in Session
      PROVE  Mine(s)' \in {{}, {Status(s)}, LiveRouters(s)}
  <2>1. \A t \in Session : \A r \in Routers(t) : r.host = t
    BY DEF Routers, LiveRouters, Status, Router
  <2>2. Mine(s)' = Routers(s)
    BY <1>1, <2>1 DEF Mine, build
  <2> QED
    BY <2>2 DEF Routers
<1> QED
  BY <1>2, <1>3 DEF Inv, PageInv, ConfigInv, Status, Router, LiveRouters

-----------------------------------------------------------------------------

LEMMA Inductive == Inv /\ [Next]_vars => Inv'
<1> SUFFICES ASSUME Inv, [Next]_vars PROVE Inv'
  OBVIOUS
<1>1. UNCHANGED <<applied, page>> => PageInv'
  BY DEF Inv, PageInv, ConfigInv, Mine, ServedByItsOwn
<1>2. CASE UNCHANGED vars
  BY <1>1, <1>2 DEF vars, Inv, RouteInv, TypeOK, BootInv, QuickInv, FinalPagesAreFinal
<1>3. ASSUME NEW s \in Session, Play(s) \/ BootStep(s) PROVE Inv'
  <2>1. UNCHANGED <<applied, page>>
    BY <1>3 DEF Play, BootStep, ResolveFails, RegisterBackends, UpAndAttached, UpFails,
                Promotes, BootUnroutes, BootSettles, BootGoes
  <2> QED
    BY <1>1, <1>3, <2>1, BootKeepsRoutes DEF Inv
<1>4. CASE \/ ReaperTearsDown
           \/ \E s \in Session : \/ LingerExpires(s)
                                 \/ \E why \in {"reap", "crash"} : ReaperTakes(s, why)
  <2>1. UNCHANGED <<applied, page>>
    BY <1>4 DEF ReaperTearsDown, ReaperDetaches, ReaperDowns, ReaperUnroutes, MarksCrashed,
                ReaperGoes, LingerExpires, ReaperTakes
  <2> QED
    BY <1>1, <1>4, <2>1, ReaperKeepsRoutes DEF Inv
<1>5. ASSUME NEW s \in Session, Refreshes(s) \/ \E path \in Paths : Visits(s, path)
      PROVE  Inv'
  <2>1. PICK path : Requests(s, path)
    BY <1>5 DEF Refreshes, Visits
  <2>2. boot[s] # "unborn"
    BY <1>5 DEF Refreshes, writePage, Visits, Inv, RouteInv, BootInv
  <2> QED
    BY <2>1, <2>2, RequestsKeepInv
<1>6. CASE Polls
  BY <1>6, PollKeepsInv
<1> QED
  BY <1>2, <1>3, <1>4, <1>5, <1>6 DEF Next

\* The routes' types: a boot, a route and the reaper are always where the code
\* can have left them.
THEOREM TypeCorrect == Spec => []TypeOK
<1>1. Inv => TypeOK
  BY DEF Inv, RouteInv
<1> QED
  BY InitInv, Inductive, <1>1, PTL DEF Spec

\* ConfigHandler, with the priorities and segment boundaries of its rules,
\* sends every path to a service of its Session that declared it, whatever
\* configuration Traefik still has.
THEOREM PathsFindTheirService == Spec => []ServedByItsOwn
<1>1. Inv => ServedByItsOwn
  BY DEF Inv, PageInv
<1> QED
  BY InitInv, Inductive, <1>1, PTL DEF Spec

\* Registry.Promote after the reaper's Remove gives no route without backends.
THEOREM LiveIsBacked == Spec => []LiveHasBackends
<1>1. Inv => LiveHasBackends
  BY DEF Inv, RouteInv, BootInv, LiveHasBackends
<1> QED
  BY InitInv, Inductive, <1>1, PTL DEF Spec

\* StatusHandler tells nobody that a Session has ended, failed or crashed which
\* is booting or live, or becomes so later.
THEOREM FinalPagesStay == Spec => []FinalPagesAreFinal
<1>1. Inv => FinalPagesAreFinal
  BY DEF Inv, RouteInv
<1> QED
  BY InitInv, Inductive, <1>1, PTL DEF Spec
=============================================================================
