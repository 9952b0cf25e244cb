--------------------------- MODULE SessionsProofs ---------------------------
(***************************************************************************)
(* Theorems about Sessions, for every set of Session ids, every cap and    *)
(* every behaviour of docker.                                              *)
(***************************************************************************)
EXTENDS Sessions, FiniteSetTheorems, TLAPS

LEMMA TypeInit == Init => TypeOK
  BY DEF Init, TypeOK, RouteState, StackState, BootPc, ReaperPc, Phase

LEMMA TypeStep == TypeOK /\ [Next]_vars => TypeOK'
<1> SUFFICES ASSUME TypeOK, [Next]_vars
             PROVE  TypeOK'
  OBVIOUS
<1> USE DEF registry, docker, admission, clocks, reaperVars, TypeOK, RouteState, StackState, BootPc, ReaperPc, Phase,
            Terminal, Booting, Cleaning
<1>1. CASE Play
  BY <1>1 DEF Play, PlayRejected, PlayAdmitted, PlayMintFails, PlayRegisters, Add, vars
<1>2. ASSUME NEW s \in Session, BootStep(s)
      PROVE  TypeOK'
  <2> USE DEF BootGoes, Add, Promote, Remove, Fail, DetachProxy, DownSucceeds, DownFails
  <2>1. CASE ResolveFails(s) \/ RegisterBackends(s) \/ Promotes(s)
    BY <2>1 DEF ResolveFails, RegisterBackends, Promotes
  <2>2. CASE UpCreates(s) \/ UpSucceeds(s) \/ UpFails(s)
    BY <2>2 DEF UpCreates, UpSucceeds, UpFails
  <2>3. CASE AttachSucceeds(s) \/ AttachFails(s)
    BY <2>3 DEF AttachSucceeds, AttachFails
  <2>4. CASE BootDetaches(s)
    BY <2>4 DEF BootDetaches
  <2>5. CASE BootDownSucceeds(s) \/ BootDownFails(s)
    BY <2>5 DEF BootDownSucceeds, BootDownFails
  <2>6. CASE BootUnroutes(s) \/ BootSettles(s)
    BY <2>6 DEF BootUnroutes, BootSettles
  <2> QED
    BY <1>2, <2>1, <2>2, <2>3, <2>4, <2>5, <2>6 DEF BootStep
<1>3. CASE ReaperStep
  <2> USE DEF Visit, TeardownBegins, ReaperGoes, Remove, Fail, DropClock, HealthChecked
  <2>1. CASE TickBegins \/ TickEnds
    BY <2>1 DEF TickBegins, TickEnds, Routed
  <2>2. ASSUME NEW s \in Session, ReaperVisit(s)
        PROVE  TypeOK'
    <3>1. CASE LingerBegins(s) \/ LingerContinues(s) \/ LingerExpires(s)
      BY <3>1 DEF LingerBegins, LingerContinues, LingerExpires
    <3>2. CASE SparesBooting(s) \/ SparesLive(s)
      BY <3>2 DEF SparesBooting, SparesLive
    <3>3. CASE ReapsMaxRuntime(s) \/ DetectsCrash(s)
      BY <3>3 DEF ReapsMaxRuntime, DetectsCrash
    <3>4. CASE ReapsIdle(s)
      BY <3>4 DEF ReapsIdle
    <3> QED
      BY <2>2, <3>1, <3>2, <3>3, <3>4 DEF ReaperVisit
  <2>3. CASE ReaperDetaches
    BY <2>3 DEF ReaperDetaches, DetachProxy
  <2>4. CASE ReaperDownSucceeds \/ ReaperDownFails
    BY <2>4 DEF ReaperDownSucceeds, ReaperDownFails, DownSucceeds, DownFails
  <2>5. CASE ReaperUnroutes
    BY <2>5 DEF ReaperUnroutes
  <2>6. CASE MarksCrashed
    BY <2>6 DEF MarksCrashed
  <2> QED
    BY <1>3, <2>1, <2>2, <2>3, <2>4, <2>5, <2>6 DEF ReaperStep
<1>4. CASE ShutdownStep
  BY <1>4 DEF ShutdownStep, ServerCloses, ServerCloseFails, BootsCancelled,
              BootsDrained, DrainDeadline, ProcessExits, PhaseGoes
<1>5. ASSUME NEW s \in Session, Sickens(s) \/ Recovers(s)
      PROVE  TypeOK'
  BY <1>5 DEF Sickens, Recovers
<1>6. CASE Terminated \/ UNCHANGED vars
  BY <1>6 DEF Terminated, vars
<1> QED
  BY <1>1, <1>2, <1>3, <1>4, <1>5, <1>6 DEF Next

\* Every handler, goroutine and docker step keeps the variables in their types;
\* in particular only a Session with a clock has a grace or linger clock.
THEOREM TypeCorrect == Spec => []TypeOK
  BY TypeInit, TypeStep, PTL DEF Spec

-----------------------------------------------------------------------------
(* Who may change a route.  While a boot runs only the boot does, once the  *)
(* Session is live only the reaper does: the snapshot of a tick is stale    *)
(* for booting routes alone.                                                *)

RouteFollowsBoot ==
  \A s \in Session :
    /\ boot[s] = "unborn" => routes[s] = "none"
    /\ boot[s] \in Booting \union Cleaning => routes[s] = "booting"
    /\ boot[s] = "settle" => routes[s] \in {"none", "booting"}
    /\ boot[s] = "aborted" => routes[s] \in {"none", "failed"}
    /\ boot[s] = "served" => routes[s] \in {"none", "live", "crashed"}

SnapshotCurrent ==
  \A s \in Session : present[s] \in {"live"} \union Terminal => routes[s] = present[s]

TeardownOfLive ==
  /\ reaper \in {"detach", "down", "unroute"} =>
       victim \in Session /\ routes[victim] = "live" /\ present[victim] = "none"
  /\ reaper = "fail" =>
       /\ victim \in Session /\ routes[victim] = "none"
       /\ present[victim] = "none" /\ boot[victim] = "served"
  /\ reaper \in {"unroute", "fail"} => stack[victim] = "absent"

RouteInv ==
  TypeOK /\ RouteFollowsBoot /\ SnapshotCurrent /\ TeardownOfLive /\ ServedStacksStayVisible

LEMMA RouteInvInit == Init => RouteInv
  BY DEF Init, RouteInv, TypeOK, RouteFollowsBoot, SnapshotCurrent, TeardownOfLive,
         ServedStacksStayVisible, RouteState, StackState, BootPc, ReaperPc, Phase,
         Terminal, Booting, Cleaning


LEMMA RouteInvStep == ~ReapsBooting /\ RouteInv /\ [Next]_vars => RouteInv'
<1> SUFFICES ASSUME ~ReapsBooting, RouteInv, [Next]_vars
             PROVE  RouteInv'
  OBVIOUS
<1>1. TypeOK /\ TypeOK'
  BY TypeStep DEF RouteInv
<1> USE <1>1
<1> USE DEF registry, docker, admission, clocks, reaperVars, RouteInv, TypeOK,
            RouteFollowsBoot, SnapshotCurrent, TeardownOfLive,
            ServedStacksStayVisible, RouteState, StackState, BootPc, ReaperPc,
            Terminal, Booting, Cleaning
<1>2. CASE Play
  BY <1>2 DEF Play, PlayRejected, PlayAdmitted, PlayMintFails, PlayRegisters, Add, vars
<1>3. ASSUME NEW s \in Session, BootStep(s)
      PROVE  RouteInv'
  <2> USE DEF BootGoes, Add, Promote, Remove, Fail, DetachProxy, DownSucceeds, DownFails
  <2>1. CASE ResolveFails(s) \/ RegisterBackends(s)
    BY <2>1 DEF ResolveFails, RegisterBackends
  <2>2. CASE UpCreates(s) \/ UpSucceeds(s) \/ UpFails(s)
    BY <2>2 DEF UpCreates, UpSucceeds, UpFails
  <2>3. CASE AttachSucceeds(s) \/ AttachFails(s)
    BY <2>3 DEF AttachSucceeds, AttachFails
  <2>4. CASE Promotes(s)
    BY <2>4 DEF Promotes
  <2>5. CASE BootDetaches(s)
    BY <2>5 DEF BootDetaches
  <2>6. CASE BootDownSucceeds(s)
    BY <2>6 DEF BootDownSucceeds
  <2>7. CASE BootDownFails(s)
    BY <2>7 DEF BootDownFails
  <2>8. CASE BootUnroutes(s)
    BY <2>8 DEF BootUnroutes
  <2>9. CASE BootSettles(s)
    BY <2>9 DEF BootSettles
  <2> QED
    BY <1>3, <2>1, <2>2, <2>3, <2>4, <2>5, <2>6, <2>7, <2>8, <2>9 DEF BootStep
<1>4. CASE ReaperStep
  <2> USE DEF Visit, TeardownBegins, ReaperGoes, Remove, Fail, DropClock, HealthChecked
  <2>1. CASE TickBegins \/ TickEnds
    BY <2>1 DEF TickBegins, TickEnds, Routed
  <2>2. ASSUME NEW s \in Session, ReaperVisit(s)
        PROVE  RouteInv'
    <3>1. CASE LingerBegins(s) \/ LingerContinues(s)
      BY <3>1 DEF LingerBegins, LingerContinues
    <3>2. CASE LingerExpires(s)
      BY <3>2 DEF LingerExpires
    <3>3. CASE SparesBooting(s) \/ SparesLive(s)
      BY <3>3 DEF SparesBooting, SparesLive
    <3>4. CASE ReapsMaxRuntime(s) \/ DetectsCrash(s)
      BY <3>4 DEF ReapsMaxRuntime, DetectsCrash
    <3>5. CASE ReapsIdle(s)
      BY <3>5 DEF ReapsIdle
    <3> QED
      BY <2>2, <3>1, <3>2, <3>3, <3>4, <3>5 DEF ReaperVisit
  <2>3. CASE ReaperDetaches
    BY <2>3 DEF ReaperDetaches, DetachProxy
  <2>4. CASE ReaperDownSucceeds
    BY <2>4 DEF ReaperDownSucceeds, DownSucceeds
  <2>5. CASE ReaperDownFails
    BY <2>5 DEF ReaperDownFails, DownFails
  <2>6. CASE ReaperUnroutes
    BY <2>6 DEF ReaperUnroutes
  <2>7. CASE MarksCrashed
    BY <2>7 DEF MarksCrashed
  <2> QED
    BY <1>4, <2>1, <2>2, <2>3, <2>4, <2>5, <2>6, <2>7 DEF ReaperStep
<1>5. CASE ShutdownStep
  BY <1>5 DEF ShutdownStep, ServerCloses, ServerCloseFails, BootsCancelled,
              BootsDrained, DrainDeadline, ProcessExits, PhaseGoes
<1>6. ASSUME NEW s \in Session, Sickens(s) \/ Recovers(s)
      PROVE  RouteInv'
  BY <1>6 DEF Sickens, Recovers
<1>7. CASE Terminated \/ UNCHANGED vars
  BY <1>7 DEF Terminated, vars
<1> QED
  BY <1>2, <1>3, <1>4, <1>5, <1>6, <1>7 DEF Next

\* The core of the argument: the goroutines agree on who owns a route.
THEOREM RouteOwnership == ~ReapsBooting /\ Spec => []RouteInv
<1>1. Init => RouteInv
  BY RouteInvInit
<1>2. CASE ReapsBooting
  BY <1>2
<1>3. CASE ~ReapsBooting
  <2>1. RouteInv /\ [Next]_vars => RouteInv'
    BY <1>3, RouteInvStep
  <2> QED
    BY <1>1, <2>1, PTL DEF Spec
<1> QED
  BY <1>2, <1>3

\* Whatever docker does, a Stack that was served has a live route until it is
\* gone: Teardown never drops the route of a Stack that did not come down.
THEOREM ServedStacksVisible == ~ReapsBooting /\ Spec => []ServedStacksStayVisible
<1>1. RouteInv => ServedStacksStayVisible
  BY DEF RouteInv
<1> QED
  BY <1>1, RouteOwnership, PTL

-----------------------------------------------------------------------------
(* The cap.  Only a registered Play adds an active Session; the count it    *)
(* checked can have fallen since, but not risen.                            *)

CapInv ==
  MaxSessions > 0 =>
    /\ Cardinality(Active) <= MaxSessions
    /\ admit = "checked" => Cardinality(Active) < MaxSessions

\* Registry.Len counts at least the active Sessions, and every set is finite.
LEMMA ActiveCounts ==
  /\ IsFiniteSet(Active) /\ Cardinality(Active) \in Nat
  /\ IsFiniteSet(Active') /\ Cardinality(Active') \in Nat
  /\ Len \in Nat /\ Cardinality(Active) <= Len
<1>1. IsFiniteSet(Session)
  BY SessionsAssumption
<1>2. Active \subseteq Routed /\ Routed \subseteq Session /\ Active' \subseteq Session
  BY DEF Active, Routed
<1>3. IsFiniteSet(Routed)
  BY <1>1, <1>2, FS_Subset
<1> QED
  BY <1>1, <1>2, <1>3, FS_Subset, FS_CardinalityType DEF Len

\* Every step but a registration keeps the active Sessions among those that
\* were: RegisterBackends and Promote re-use the slot the boot holds.
LEMMA OnlyPlaysActivate ==
  ASSUME RouteInv, [Next]_vars, \A s \in Session : ~PlayRegisters(s)
  PROVE  Active' \subseteq Active
<1> USE DEF registry, docker, admission, clocks, reaperVars, Active, RouteInv, TypeOK
<1>1. CASE PlayRejected \/ PlayAdmitted \/ PlayMintFails
  BY <1>1 DEF PlayRejected, PlayAdmitted, PlayMintFails, vars
<1>2. ASSUME NEW s \in Session, BootStep(s)
      PROVE  Active' \subseteq Active
  BY <1>2 DEF BootStep, BootGoes, Add, Promote, Remove, Fail, RouteFollowsBoot, Booting, Cleaning,
              ResolveFails, RegisterBackends, UpCreates, UpSucceeds, UpFails, AttachSucceeds,
              AttachFails, Promotes, BootDetaches, BootDownSucceeds, BootDownFails,
              BootUnroutes, BootSettles
<1>3. CASE ReaperStep
  <2>1. ASSUME NEW s \in Session, ReaperVisit(s)
        PROVE  Active' \subseteq Active
    BY <2>1 DEF ReaperVisit, Visit, TeardownBegins, Remove, LingerBegins, LingerContinues,
                LingerExpires, SparesBooting, SparesLive, ReapsMaxRuntime, ReapsIdle, DetectsCrash
  <2> QED
    BY <1>3, <2>1 DEF ReaperStep, ReaperGoes, Remove, Fail, TickBegins, TickEnds, ReaperDetaches,
                      ReaperDownSucceeds, ReaperDownFails, ReaperUnroutes, MarksCrashed
<1>4. CASE ShutdownStep
  BY <1>4 DEF ShutdownStep, ServerCloses, ServerCloseFails, BootsCancelled,
              BootsDrained, DrainDeadline, ProcessExits, PhaseGoes
<1>5. ASSUME NEW s \in Session, Sickens(s) \/ Recovers(s)
      PROVE  Active' \subseteq Active
  BY <1>5 DEF Sickens, Recovers
<1>6. CASE Terminated \/ UNCHANGED vars
  BY <1>6 DEF Terminated, vars
<1> QED
  BY <1>1, <1>2, <1>3, <1>4, <1>5, <1>6 DEF Next, Play

\* The lock: only PlayAdmitted sets admit, and it has checked the cap.
LEMMA OnlyPlaysAdmit ==
  ASSUME [Next]_vars, admit # "checked", admit' = "checked"
  PROVE  ~AtCapacity
<1> USE DEF admission
<1>1. ASSUME NEW s \in Session, BootStep(s) \/ Sickens(s) \/ Recovers(s) \/ PlayRegisters(s)
      PROVE  FALSE
  BY <1>1 DEF BootStep, BootGoes, ResolveFails, RegisterBackends, UpCreates, UpSucceeds, UpFails,
              AttachSucceeds, AttachFails, Promotes, BootDetaches, BootDownSucceeds,
              BootDownFails, BootUnroutes, BootSettles, Sickens, Recovers, PlayRegisters
<1>2. CASE ReaperStep
  <2>1. ASSUME NEW s \in Session, ReaperVisit(s)
        PROVE  FALSE
    BY <2>1 DEF ReaperVisit, Visit, LingerBegins, LingerContinues, LingerExpires,
                SparesBooting, SparesLive, ReapsMaxRuntime, ReapsIdle, DetectsCrash
  <2> QED
    BY <1>2, <2>1 DEF ReaperStep, ReaperGoes, TickBegins, TickEnds, ReaperDetaches,
                      ReaperDownSucceeds, ReaperDownFails, ReaperUnroutes, MarksCrashed
<1>3. CASE ShutdownStep
  BY <1>3 DEF ShutdownStep, ServerCloses, ServerCloseFails, BootsCancelled,
              BootsDrained, DrainDeadline, ProcessExits, PhaseGoes
<1>4. CASE PlayRejected \/ PlayAdmitted \/ PlayMintFails \/ Terminated \/ UNCHANGED vars
  BY <1>4 DEF PlayRejected, PlayAdmitted, PlayMintFails, Terminated, vars
<1> QED
  BY <1>1, <1>2, <1>3, <1>4 DEF Next, Play

LEMMA CapInvStep == RouteInv /\ CapInv /\ [Next]_vars => CapInv'
<1> SUFFICES ASSUME RouteInv, CapInv, [Next]_vars, MaxSessions > 0
             PROVE  CapInv'
  BY DEF CapInv
<1>1. MaxSessions \in Nat
  BY SessionsAssumption
<1>2. ASSUME NEW s \in Session, PlayRegisters(s)
      PROVE  CapInv'
  <2>1. Active' \subseteq Active \union {s}
    BY <1>2 DEF PlayRegisters, Add, Active, RouteInv, TypeOK
  <2>2. /\ IsFiniteSet(Active \union {s})
        /\ Cardinality(Active \union {s}) \in Nat
        /\ Cardinality(Active \union {s}) <= Cardinality(Active) + 1
    <3>1. IsFiniteSet(Active) /\ Cardinality(Active) \in Nat
      BY ActiveCounts
    <3>2. /\ IsFiniteSet(Active \union {s})
          /\ Cardinality(Active \union {s}) =
               IF s \in Active THEN Cardinality(Active) ELSE Cardinality(Active) + 1
      BY <3>1, FS_AddElement
    <3> QED
      BY <3>1, <3>2
  <2>3. Cardinality(Active') <= Cardinality(Active \union {s})
    BY <2>1, <2>2, FS_Subset
  <2>4. admit = "checked" /\ admit' = "free"
    BY <1>2 DEF PlayRegisters
  <2> QED
    BY <1>1, <2>2, <2>3, <2>4, ActiveCounts DEF CapInv
<1>3. CASE \A s \in Session : ~PlayRegisters(s)
  <2>1. Cardinality(Active') <= Cardinality(Active)
    BY <1>3, OnlyPlaysActivate, ActiveCounts, FS_Subset
  <2>2. admit' = "checked" => Cardinality(Active) < MaxSessions
    BY <1>1, OnlyPlaysAdmit, ActiveCounts DEF CapInv, AtCapacity
  <2> QED
    BY <1>1, <2>1, <2>2, ActiveCounts DEF CapInv
<1> QED
  BY <1>2, <1>3

LEMMA CapInvInit == Init => CapInv
<1> SUFFICES ASSUME Init
             PROVE  CapInv
  OBVIOUS
<1>1. Active = {}
  BY DEF Init, Active
<1> QED
  BY <1>1, FS_EmptySet, SessionsAssumption DEF CapInv, Init

LEMMA CapInvariant == ~ReapsBooting /\ Spec => []CapInv
<1>1. CASE ReapsBooting
  BY <1>1
<1>2. CASE ~ReapsBooting
  <2>1. Spec => []RouteInv
    BY <1>2, RouteOwnership
  <2>2. RouteInv /\ CapInv /\ [Next]_vars => CapInv'
    BY CapInvStep
  <2> QED
    BY <2>1, <2>2, CapInvInit, PTL DEF Spec
<1> QED
  BY <1>1, <1>2

\* The concurrency cap holds for every number of Plays, boots and teardowns at
\* once, although Play's lock orders it with other Plays only.
THEOREM CapHolds == ~ReapsBooting /\ Spec => []ActiveWithinCap
<1>1. CapInv => ActiveWithinCap
  BY DEF CapInv, ActiveWithinCap
<1> QED
  BY <1>1, CapInvariant, PTL

-----------------------------------------------------------------------------
(* While docker obeys: where a Stack and Traefik's leg in its network can   *)
(* be, for each step of the boot and of the reaper.                         *)

StackFollowsBoot ==
  \A s \in Session :
    /\ boot[s] \in {"unborn", "resolve", "unroute", "settle", "aborted"} => stack[s] = "absent"
    /\ boot[s] \notin {"promote", "served", "detach"} => s \notin attached
    /\ boot[s] = "promote" => s \in attached

ObedientInv ==
  /\ RouteInv
  /\ StackFollowsBoot
  /\ LiveIsReachable
  /\ reaper = "down" => victim \notin attached
  /\ reaper \in {"idle", "scan"} => victim = "none"

LEMMA ObedientInvInit == Init => ObedientInv
  BY RouteInvInit, SessionsAssumption DEF ObedientInv, StackFollowsBoot, LiveIsReachable, Init

LEMMA ObedientInvStep ==
  ASSUME ~ReapsBooting, ~DockerFails, ObedientInv, [Next]_vars
  PROVE  ObedientInv'
<1>1. RouteInv /\ RouteInv'
  BY RouteInvStep DEF ObedientInv
<1> USE <1>1, SessionsAssumption
<1> USE DEF registry, docker, admission, clocks, reaperVars, ObedientInv, RouteInv, TypeOK,
            RouteFollowsBoot, SnapshotCurrent, TeardownOfLive, StackFollowsBoot,
            LiveIsReachable, Terminal, Booting, Cleaning
<1>2. CASE Play
  BY <1>2 DEF Play, PlayRejected, PlayAdmitted, PlayMintFails, PlayRegisters, Add, vars
<1>3. ASSUME NEW s \in Session, BootStep(s)
      PROVE  ObedientInv'
  <2> USE DEF BootGoes, Add, Promote, Remove, Fail, DetachProxy, DownSucceeds, DownFails
  <2>1. CASE ResolveFails(s) \/ RegisterBackends(s) \/ Promotes(s)
    BY <2>1 DEF ResolveFails, RegisterBackends, Promotes
  <2>2. CASE UpCreates(s) \/ UpSucceeds(s) \/ UpFails(s)
    BY <2>2 DEF UpCreates, UpSucceeds, UpFails
  <2>3. CASE AttachSucceeds(s) \/ AttachFails(s)
    BY <2>3 DEF AttachSucceeds, AttachFails
  <2>4. CASE BootDetaches(s)
    BY <2>4 DEF BootDetaches
  <2>5. CASE BootDownSucceeds(s) \/ BootDownFails(s)
    BY <2>5 DEF BootDownSucceeds, BootDownFails
  <2>6. CASE BootUnroutes(s) \/ BootSettles(s)
    BY <2>6 DEF BootUnroutes, BootSettles
  <2> QED
    BY <1>3, <2>1, <2>2, <2>3, <2>4, <2>5, <2>6 DEF BootStep
<1>4. CASE ReaperStep
  <2> USE DEF Visit, TeardownBegins, ReaperGoes, Remove, Fail, HealthChecked
  <2>1. CASE TickBegins \/ TickEnds
    BY <2>1 DEF TickBegins, TickEnds
  <2>2. ASSUME NEW s \in Session, ReaperVisit(s)
        PROVE  ObedientInv'
    <3>1. CASE LingerBegins(s) \/ LingerContinues(s) \/ LingerExpires(s)
      BY <3>1 DEF LingerBegins, LingerContinues, LingerExpires
    <3>2. CASE SparesBooting(s) \/ SparesLive(s)
      BY <3>2 DEF SparesBooting, SparesLive
    <3>3. CASE ReapsMaxRuntime(s) \/ ReapsIdle(s) \/ DetectsCrash(s)
      BY <3>3 DEF ReapsMaxRuntime, ReapsIdle, DetectsCrash
    <3> QED
      BY <2>2, <3>1, <3>2, <3>3 DEF ReaperVisit
  <2>3. CASE ReaperDetaches
    BY <2>3 DEF ReaperDetaches, DetachProxy
  <2>4. CASE ReaperDownSucceeds \/ ReaperDownFails
    BY <2>4 DEF ReaperDownSucceeds, ReaperDownFails, DownSucceeds, DownFails
  <2>5. CASE ReaperUnroutes \/ MarksCrashed
    BY <2>5 DEF ReaperUnroutes, MarksCrashed
  <2> QED
    BY <1>4, <2>1, <2>2, <2>3, <2>4, <2>5 DEF ReaperStep
<1>5. CASE ShutdownStep
  BY <1>5 DEF ShutdownStep, ServerCloses, ServerCloseFails, BootsCancelled,
              BootsDrained, DrainDeadline, ProcessExits, PhaseGoes
<1>6. ASSUME NEW s \in Session, Sickens(s) \/ Recovers(s)
      PROVE  ObedientInv'
  BY <1>6 DEF Sickens, Recovers
<1>7. CASE Terminated \/ UNCHANGED vars
  BY <1>7 DEF Terminated, vars
<1> QED
  BY <1>2, <1>3, <1>4, <1>5, <1>6, <1>7 DEF Next

LEMMA Obedient == ~ReapsBooting /\ ~DockerFails /\ Spec => []ObedientInv
<1>1. CASE ReapsBooting \/ DockerFails
  BY <1>1
<1>2. CASE ~ReapsBooting /\ ~DockerFails
  <2>1. ObedientInv /\ [Next]_vars => ObedientInv'
    BY <1>2, ObedientInvStep
  <2> QED
    BY <2>1, ObedientInvInit, PTL DEF Spec
<1> QED
  BY <1>1, <1>2

\* ADR-0006, "a boot leaves nothing behind": a boot that gave up has no Stack,
\* and Traefik no leg in its network.
THEOREM BootsLeaveNothing == ~ReapsBooting /\ ~DockerFails /\ Spec => []FailedBootLeavesNothing
<1>1. ObedientInv => FailedBootLeavesNothing
  BY DEF ObedientInv, StackFollowsBoot, FailedBootLeavesNothing
<1> QED
  BY <1>1, Obedient, PTL

\* Traefik reaches every live Session that the reaper is not tearing down.
THEOREM LiveSessionsReachable == ~ReapsBooting /\ ~DockerFails /\ Spec => []LiveIsReachable
<1>1. ObedientInv => LiveIsReachable
  BY DEF ObedientInv
<1> QED
  BY <1>1, Obedient, PTL

\* The cap bounds what it is there to bound: the Stacks on the host.
THEOREM StacksBounded == ~ReapsBooting /\ ~DockerFails /\ Spec => []StacksWithinCap
<1>1. ObedientInv /\ CapInv => StacksWithinCap
  <2> SUFFICES ASSUME ObedientInv, CapInv, MaxSessions > 0
               PROVE  Cardinality({s \in Session : stack[s] # "absent"}) <= MaxSessions
    BY DEF StacksWithinCap
  <2> DEFINE Stacks == {s \in Session : stack[s] # "absent"}
  <2>1. Stacks \subseteq Active
    BY DEF Active, ObedientInv, RouteInv, StackFollowsBoot, RouteFollowsBoot,
           ServedStacksStayVisible, TypeOK, BootPc, Booting, Cleaning
  <2> HIDE DEF Stacks
  <2>2. IsFiniteSet(Active) /\ Cardinality(Active) \in Nat
    BY ActiveCounts
  <2>3. Cardinality(Stacks) <= Cardinality(Active) /\ IsFiniteSet(Stacks)
    BY <2>1, <2>2, FS_Subset
  <2>4. Cardinality(Stacks) \in Nat
    BY <2>3, FS_CardinalityType
  <2>5. Cardinality(Stacks) <= MaxSessions
    BY <2>2, <2>3, <2>4, SessionsAssumption DEF CapInv
  <2> QED
    BY <2>5 DEF Stacks
<1> QED
  BY <1>1, Obedient, CapInvariant, PTL

-----------------------------------------------------------------------------
(* Shutdown: once no Play is on its way, no boot is born, and a drained     *)
(* process has none that runs.                                              *)

DrainInv ==
  /\ phase \in {"cancelled", "drained", "overdue", "exited"} => admit = "free"
  /\ phase \in {"drained", "exited"} =>
       \A s \in Session : boot[s] \in {"unborn", "served", "aborted"}

LEMMA DrainInvStep == DrainInv /\ [Next]_vars => DrainInv'
<1> SUFFICES ASSUME DrainInv, [Next]_vars PROVE DrainInv'
  OBVIOUS
<1> USE DEF DrainInv, registry, docker, admission, clocks, reaperVars
<1>1. CASE Play
  BY <1>1 DEF Play, PlayRejected, PlayAdmitted, PlayMintFails, PlayRegisters, Add, vars
<1>2. ASSUME NEW s \in Session, BootStep(s)
      PROVE  DrainInv'
  <2>1. /\ UNCHANGED <<admit, phase>>
        /\ boot[s] \notin {"unborn", "served", "aborted"}
    BY <1>2 DEF BootStep, BootGoes, ResolveFails, RegisterBackends, UpCreates, UpSucceeds,
                UpFails, AttachSucceeds, AttachFails, Promotes, BootDetaches, BootDownSucceeds,
                BootDownFails, BootUnroutes, BootSettles
  <2> QED
    BY <2>1
<1>3. CASE ReaperStep \/ \E s \in Session : Sickens(s) \/ Recovers(s)
  <2>1. UNCHANGED <<admit, phase, boot>>
    BY <1>3 DEF ReaperStep, TickBegins, TickEnds, ReaperVisit, Visit, LingerBegins,
                LingerContinues, LingerExpires, SparesBooting, SparesLive, ReapsMaxRuntime,
                ReapsIdle, DetectsCrash, ReaperGoes, ReaperDetaches, ReaperDownSucceeds,
                ReaperDownFails, ReaperUnroutes, MarksCrashed, Sickens, Recovers
  <2> QED
    BY <2>1
<1>4. CASE ShutdownStep
  BY <1>4 DEF ShutdownStep, ServerCloses, ServerCloseFails, BootsCancelled, BootsDrained,
              DrainDeadline, ProcessExits, PhaseGoes
<1>5. CASE Terminated \/ UNCHANGED vars
  BY <1>5 DEF Terminated, vars
<1> QED
  BY <1>1, <1>2, <1>3, <1>4, <1>5 DEF Next

\* Manager.Shutdown waits for the boots it has cancelled: when the process
\* exits after it, the Stacks on the host are those of live Sessions.
THEOREM ExitIsClean == ~ReapsBooting /\ ~DockerFails /\ Spec => []CleanExit
<1>1. Init => DrainInv
  BY DEF Init, DrainInv
<1>2. ObedientInv /\ DrainInv => CleanExit
  BY DEF CleanExit, DrainInv, ObedientInv, StackFollowsBoot, RouteInv, ServedStacksStayVisible
<1>3. Spec => []DrainInv
  BY <1>1, DrainInvStep, PTL DEF Spec
<1> QED
  BY <1>2, <1>3, Obedient, PTL

-----------------------------------------------------------------------------
(* The backends *)

StagedInv ==
  /\ LiveHasBackends
  /\ \A s \in Session : boot[s] \in {"up", "attach", "promote"} => s \in staged

LEMMA StagedInvStep ==
  ASSUME RouteInv, StagedInv, [Next]_vars
  PROVE  StagedInv'
<1> USE DEF registry, docker, admission, clocks, reaperVars, RouteInv, TypeOK, RouteFollowsBoot,
            TeardownOfLive, StagedInv, LiveHasBackends, Terminal, Booting, Cleaning
<1>1. CASE Play
  BY <1>1 DEF Play, PlayRejected, PlayAdmitted, PlayMintFails, PlayRegisters, Add, vars
<1>2. ASSUME NEW s \in Session, BootStep(s)
      PROVE  StagedInv'
  <2> USE DEF BootGoes, Add, Promote, Remove, Fail
  <2>1. CASE ResolveFails(s) \/ RegisterBackends(s) \/ Promotes(s)
    BY <2>1 DEF ResolveFails, RegisterBackends, Promotes
  <2>2. CASE \/ UpCreates(s) \/ UpSucceeds(s) \/ UpFails(s) \/ AttachSucceeds(s) \/ AttachFails(s)
             \/ BootDetaches(s) \/ BootDownSucceeds(s) \/ BootDownFails(s)
    BY <2>2 DEF UpCreates, UpSucceeds, UpFails, AttachSucceeds, AttachFails, BootDetaches,
                BootDownSucceeds, BootDownFails
  <2>3. CASE BootUnroutes(s) \/ BootSettles(s)
    BY <2>3 DEF BootUnroutes, BootSettles
  <2> QED
    BY <1>2, <2>1, <2>2, <2>3 DEF BootStep
<1>3. CASE ReaperStep
  <2> USE DEF Visit, TeardownBegins, ReaperGoes, Remove, Fail
  <2>1. CASE TickBegins \/ TickEnds \/ ReaperDetaches \/ ReaperDownSucceeds \/ ReaperDownFails
    BY <2>1 DEF TickBegins, TickEnds, ReaperDetaches, ReaperDownSucceeds, ReaperDownFails
  <2>2. ASSUME NEW s \in Session, ReaperVisit(s)
        PROVE  StagedInv'
    BY <2>2 DEF ReaperVisit, LingerBegins, LingerContinues, LingerExpires, SparesBooting,
                SparesLive, ReapsMaxRuntime, ReapsIdle, DetectsCrash, SnapshotCurrent
  <2>3. CASE ReaperUnroutes \/ MarksCrashed
    BY <2>3 DEF ReaperUnroutes, MarksCrashed
  <2> QED
    BY <1>3, <2>1, <2>2, <2>3 DEF ReaperStep
<1>4. CASE ShutdownStep \/ \E s \in Session : Sickens(s) \/ Recovers(s)
  BY <1>4 DEF ShutdownStep, ServerCloses, ServerCloseFails, BootsCancelled, BootsDrained,
              DrainDeadline, ProcessExits, PhaseGoes, Sickens, Recovers
<1>5. CASE Terminated \/ UNCHANGED vars
  BY <1>5 DEF Terminated, vars
<1> QED
  BY <1>1, <1>2, <1>3, <1>4, <1>5 DEF Next

\* Registry.Promote keeps the backends that Provision registered, and no
\* terminal page has any, whatever docker refuses.
THEOREM LiveIsBacked == ~ReapsBooting /\ Spec => []LiveHasBackends
<1>1. CASE ReapsBooting
  BY <1>1
<1>2. CASE ~ReapsBooting
  <2>1. Init => StagedInv
    BY DEF Init, StagedInv, LiveHasBackends
  <2>2. RouteInv /\ StagedInv /\ [Next]_vars => StagedInv'
    BY StagedInvStep
  <2>3. StagedInv => LiveHasBackends
    BY DEF StagedInv
  <2>4. Spec => []RouteInv
    BY <1>2, RouteOwnership
  <2> QED
    BY <2>1, <2>2, <2>3, <2>4, PTL DEF Spec
<1> QED
  BY <1>1, <1>2

-----------------------------------------------------------------------------
(* The refinement: every step of the goroutines is a step of the lifecycle  *)
(* of one Session, or leaves every life as it is.                           *)

LifeMap == [s \in Session |-> Life(s)]

\* The moves SessionLifecycle allows one Session, the slot check aside.
LifeMove(from, to) ==
  \/ to = from
  \/ from = "booting" /\ to \in {"live", "aborting"}
  \/ from = "live" /\ to \in {"collapsing", "gone"}
  \/ from = "aborting" /\ to \in {"failed", "gone"}
  \/ from = "collapsing" /\ to = "crashed"
  \/ from \in {"failed", "crashed"} /\ to = "gone"

LEMMA MoveIsStep ==
  ASSUME NEW s \in Session, LifeMove(Life(s), Life(s)'),
         \A t \in Session : t # s => Life(t)' = Life(t)
  PROVE  [Lifecycle!Next]_LifeMap
<1>1. LifeMap' = [LifeMap EXCEPT ![s] = Life(s)'] /\ LifeMap[s] = Life(s)
  BY DEF LifeMap
<1>2. CASE Life(s)' = Life(s)
  BY <1>1, <1>2 DEF LifeMap
<1>3. CASE Life(s)' # Life(s)
  <2>1. \/ Lifecycle!Serve(s) \/ Lifecycle!Abort(s) \/ Lifecycle!Collapse(s) \/ Lifecycle!Reap(s)
        \/ Lifecycle!Judge(s) \/ Lifecycle!ShowCrash(s) \/ Lifecycle!Forget(s)
    BY <1>1, <1>3 DEF LifeMove, Lifecycle!Serve, Lifecycle!Abort, Lifecycle!Collapse,
                      Lifecycle!Reap, Lifecycle!Judge, Lifecycle!ShowCrash, Lifecycle!Forget,
                      Lifecycle!Becomes, LifeMap
  <2> QED
    BY <2>1 DEF Lifecycle!Next
<1> QED
  BY <1>2, <1>3

LEMMA SameCardinality == ASSUME NEW S PROVE Lifecycle!Cardinality(S) = Cardinality(S)
  BY DEF Lifecycle!Cardinality, Cardinality

LEMMA RegistrationIsAdmit ==
  ASSUME RouteInv, CapInv, NEW s \in Session, PlayRegisters(s)
  PROVE  Lifecycle!Admit(s)
<1>1. Life(s) = "unborn" /\ Life(s)' = "booting"
  BY DEF PlayRegisters, Life, RouteInv, TypeOK, Booting, Cleaning
<1>2. \A t \in Session : t # s => Life(t)' = Life(t)
  BY DEF PlayRegisters, Add, Life, RouteInv, TypeOK, reaperVars
<1>3. LifeMap' = [LifeMap EXCEPT ![s] = "booting"] /\ LifeMap[s] = "unborn"
  BY <1>1, <1>2 DEF LifeMap
<1>4. ASSUME MaxSessions > 0
      PROVE  Cardinality(Lifecycle!SlotHolders) < MaxSessions
  <2>1. Lifecycle!SlotHolders \subseteq Active
    BY DEF Lifecycle!SlotHolders, Active, Life, RouteInv, RouteFollowsBoot, TypeOK, BootPc
  <2>2. IsFiniteSet(Active) /\ Cardinality(Active) \in Nat
    BY ActiveCounts
  <2>3. IsFiniteSet(Lifecycle!SlotHolders)
          /\ Cardinality(Lifecycle!SlotHolders) <= Cardinality(Active)
    BY <2>1, <2>2, FS_Subset
  <2>4. Cardinality(Lifecycle!SlotHolders) \in Nat
    BY <2>3, FS_CardinalityType
  <2>5. Cardinality(Active) < MaxSessions
    BY <1>4 DEF CapInv, PlayRegisters
  <2> QED
    BY <2>2, <2>3, <2>4, <2>5, SessionsAssumption
<1> QED
  <2>1. Lifecycle!Becomes(s, {"unborn"}, "booting")
    BY <1>3 DEF Lifecycle!Becomes, LifeMap
  <2> QED
    BY <1>4, <2>1, SameCardinality DEF Lifecycle!Admit

\* A step that touches neither a boot's place nor a route, and no crash that is
\* about to be shown, leaves every life as it is.
LEMMA QuietStep ==
  ASSUME UNCHANGED <<boot, routes>>, reaper # "fail", reaper' # "fail"
  PROVE  [Lifecycle!Next]_LifeMap
<1>1. \A s \in Session : Life(s)' = Life(s)
  BY DEF Life
<1> QED
  BY <1>1 DEF LifeMap

LEMMA LifecycleStep ==
  ASSUME ~ReapsBooting, RouteInv, CapInv, [Next]_vars
  PROVE  [Lifecycle!Next]_LifeMap
<1> USE DEF registry, docker, admission, clocks, reaperVars, RouteInv, TypeOK
<1>1. CASE Play
  <2>1. CASE PlayRejected \/ PlayAdmitted \/ PlayMintFails
    <3>1. \A s \in Session : Life(s)' = Life(s)
      BY <2>1 DEF PlayRejected, PlayAdmitted, PlayMintFails, vars, Life
    <3> QED
      BY <3>1 DEF LifeMap
  <2>2. ASSUME NEW s \in Session, PlayRegisters(s)
        PROVE  [Lifecycle!Next]_LifeMap
    BY <2>2, RegistrationIsAdmit DEF Lifecycle!Next
  <2> QED
    BY <1>1, <2>1, <2>2 DEF Play
<1>2. ASSUME NEW s \in Session, BootStep(s)
      PROVE  [Lifecycle!Next]_LifeMap
  <2> USE DEF BootGoes, Add, Promote, Remove, Fail, Booting, Cleaning, RouteFollowsBoot
  <2>1. LifeMove(Life(s), Life(s)')
    <3>1. CASE ResolveFails(s) \/ RegisterBackends(s) \/ UpCreates(s) \/ UpSucceeds(s)
                 \/ UpFails(s) \/ AttachSucceeds(s) \/ AttachFails(s)
      BY <3>1 DEF ResolveFails, RegisterBackends, UpCreates, UpSucceeds, UpFails,
                  AttachSucceeds, AttachFails, Life, LifeMove
    <3>2. CASE Promotes(s)
      BY <3>2 DEF Promotes, Life, LifeMove
    <3>3. CASE BootDetaches(s) \/ BootDownSucceeds(s) \/ BootDownFails(s) \/ BootUnroutes(s)
      BY <3>3 DEF BootDetaches, BootDownSucceeds, BootDownFails, BootUnroutes, Life, LifeMove
    <3>4. CASE BootSettles(s)
      BY <3>4 DEF BootSettles, Life, LifeMove
    <3> QED
      BY <1>2, <3>1, <3>2, <3>3, <3>4 DEF BootStep
  <2>2. \A t \in Session : t # s => Life(t)' = Life(t)
    <3>1. \A t \in Session : t # s => boot'[t] = boot[t] /\ routes'[t] = routes[t]
      BY <1>2 DEF BootStep, ResolveFails, RegisterBackends, UpCreates, UpSucceeds, UpFails,
                  AttachSucceeds, AttachFails, Promotes, BootDetaches, BootDownSucceeds,
                  BootDownFails, BootUnroutes, BootSettles
    <3>2. reaper' = reaper /\ victim' = victim
      BY <1>2 DEF BootStep, ResolveFails, RegisterBackends, UpCreates, UpSucceeds, UpFails,
                  AttachSucceeds, AttachFails, Promotes, BootDetaches, BootDownSucceeds,
                  BootDownFails, BootUnroutes, BootSettles
    <3> QED
      BY <3>1, <3>2 DEF Life
  <2> QED
    BY <2>1, <2>2, MoveIsStep
<1>3. CASE ReaperStep
  <2> USE DEF Visit, TeardownBegins, ReaperGoes
  <2>1. CASE TickBegins \/ TickEnds \/ ReaperDetaches \/ ReaperDownSucceeds \/ ReaperDownFails
    BY <2>1, QuietStep DEF TickBegins, TickEnds, ReaperDetaches, ReaperDownSucceeds, ReaperDownFails
  <2>2. ASSUME NEW s \in Session, ReaperVisit(s), ~LingerExpires(s)
        PROVE  [Lifecycle!Next]_LifeMap
    BY <2>2, QuietStep DEF ReaperVisit, LingerBegins, LingerContinues, SparesBooting, SparesLive,
                           ReapsMaxRuntime, ReapsIdle, DetectsCrash
  <2>3. ASSUME NEW s \in Session, LingerExpires(s)
        PROVE  [Lifecycle!Next]_LifeMap
    <3>1. LifeMove(Life(s), Life(s)')
      BY <2>3 DEF LingerExpires, Remove, Life, LifeMove, RouteFollowsBoot, SnapshotCurrent,
                  Terminal, BootPc, Booting, Cleaning
    <3>2. \A t \in Session : t # s => Life(t)' = Life(t)
      BY <2>3 DEF LingerExpires, Remove, Life
    <3> QED
      BY <3>1, <3>2, MoveIsStep
  <2>4. CASE ReaperUnroutes \/ MarksCrashed
    <3>1. victim \in Session /\ boot[victim] = "served"
      BY <2>4 DEF ReaperUnroutes, MarksCrashed, TeardownOfLive, RouteFollowsBoot,
                  BootPc, Booting, Cleaning
    <3>2. LifeMove(Life(victim), LifeMap'[victim])
      BY <2>4, <3>1 DEF ReaperUnroutes, MarksCrashed, TeardownOfLive, Remove, Fail,
                        Life, LifeMove, LifeMap
    <3>3. \A t \in Session : t # victim => Life(t)' = Life(t)
      BY <2>4, <3>1 DEF ReaperUnroutes, MarksCrashed, TeardownOfLive, Remove, Fail, Life
    <3>4. PICK s \in Session : s = victim
      BY <3>1
    <3>5. LifeMap'[victim] = Life(s)'
      BY <3>4 DEF LifeMap
    <3> QED
      BY <3>2, <3>3, <3>4, <3>5, MoveIsStep
  <2> QED
    BY <1>3, <2>1, <2>2, <2>3, <2>4 DEF ReaperStep
<1>4. CASE ShutdownStep
  <2>1. \A s \in Session : Life(s)' = Life(s)
    BY <1>4 DEF ShutdownStep, ServerCloses, ServerCloseFails, BootsCancelled,
                BootsDrained, DrainDeadline, ProcessExits, PhaseGoes, Life
  <2> QED
    BY <2>1 DEF LifeMap
<1>5. ASSUME NEW s \in Session, Sickens(s) \/ Recovers(s)
      PROVE  [Lifecycle!Next]_LifeMap
  <2>1. \A t \in Session : Life(t)' = Life(t)
    BY <1>5 DEF Sickens, Recovers, Life
  <2> QED
    BY <2>1 DEF LifeMap
<1>6. CASE Terminated \/ UNCHANGED vars
  <2>1. \A s \in Session : Life(s)' = Life(s)
    BY <1>6 DEF Terminated, vars, Life
  <2> QED
    BY <2>1 DEF LifeMap
<1> QED
  BY <1>1, <1>2, <1>3, <1>4, <1>5, <1>6 DEF Next

\* The control plane implements the lifecycle ADR-0006 promises, slots included.
THEOREM LifecycleImplemented == ~ReapsBooting /\ Spec => ImplementsLifecycle
<1>1. Init => Lifecycle!Init
  <2>1. Init => \A s \in Session : Life(s) = "unborn"
    BY DEF Init, Life, Booting, Cleaning
  <2> QED
    BY <2>1 DEF Lifecycle!Init
<1>2. CASE ReapsBooting
  BY <1>2
<1>3. CASE ~ReapsBooting
  <2>1. RouteInv /\ CapInv /\ [Next]_vars => [Lifecycle!Next]_LifeMap
    BY <1>3, LifecycleStep
  <2>2. Spec => []RouteInv /\ []CapInv
    BY <1>3, RouteOwnership, CapInvariant
  <2> QED
    BY <1>1, <2>1, <2>2, PTL DEF Spec, ImplementsLifecycle, Lifecycle!Spec, LifeMap
<1> QED
  BY <1>2, <1>3
=============================================================================
