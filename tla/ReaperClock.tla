---------------------------- MODULE ReaperClock ----------------------------
(***************************************************************************)
(* The time arithmetic of session.Reaper, seen by one Session: the ticker, *)
(* the sessionClock, the Traefik request counter and the health check,     *)
(* against the time at which things really happened.  Sessions is the      *)
(* model of the same loop's interleavings, without time.                   *)
(*                                                                         *)
(* Abstractions.  Time is discrete.  A tick spends up to Work units on the *)
(* scrape and on other Sessions, before and after it visits this one, but  *)
(* reads the clock once.  Teardown takes no time of its own here, and the  *)
(* teardown of a Stack is one step that may fail.  Horizon bounds the      *)
(* time, MaxRequests the counter.                                          *)
(***************************************************************************)
EXTENDS Integers

CONSTANTS
  Idle, MaxRuntime, CrashGrace, FailureLinger, Interval,   \* ReaperConfig
  BootLimit,         \* how long a boot can take
  Work,              \* how long a tick can take
  ScrapeFails,       \* may RequestCounts return an error?
  CheckFails,        \* may the health check return an error?
  TeardownFails,     \* may Teardown return an error?
  TraefikRestarts,   \* may Traefik restart, and its counters with it?
  Horizon, MaxRequests

Knobs == {Idle, MaxRuntime, CrashGrace, FailureLinger, Interval, BootLimit}

ASSUME ReaperAssumption ==
  /\ Knobs \subseteq Nat \ {0}
  /\ {Work, Horizon, MaxRequests} \subseteq Nat
  /\ {ScrapeFails, CheckFails, TeardownFails, TraefikRestarts} \subseteq BOOLEAN
  /\ BootLimit < MaxRuntime   \* a boot ends before max-runtime

VARIABLES
  time,
  fired,     \* the ticker's channel holds a tick
  route,     \* the Session's route in the registry
  healthy,   \* is its Stack healthy?
  counter,   \* its requests, as Traefik counts them
  clock,     \* its sessionClock
  tick,      \* where Reaper.tick is, and the locals of it that concern the Session
  history    \* when things happened, for the properties

vars == <<time, fired, route, healthy, counter, clock, tick, history>>

Never    == -1
Terminal == {"failed", "crashed"}

\* tick's firstSeen: now, lastActive: now; the other fields are Go zero values.
NewClock(now) ==
  [tracked |-> TRUE, firstSeen |-> now, lastActive |-> now, lastCount |-> 0,
   seenCount |-> FALSE, unhealthySince |-> Never, failedSince |-> Never]

NoClock == [NewClock(Never) EXCEPT !.tracked = FALSE]

Init ==
  /\ time = 0
  /\ fired = FALSE
  /\ route = "gone"
  /\ healthy = FALSE
  /\ counter = 0
  /\ clock = NoClock
  /\ tick = [at |-> "waiting", now |-> 0, state |-> "gone", count |-> Never]
  /\ history = [added |-> Never, activity |-> Never, seenWell |-> Never,
                quietSince |-> Never, why |-> "none", faults |-> {}]

-----------------------------------------------------------------------------
(* Time.  The ticker's channel holds one tick; a busy loop loses the rest.  *)
(* The loop takes a tick at once when it is waiting, and ends it in time.   *)

\* The Session has come and gone: there is nothing left to watch.
Over == history.added # Never /\ route = "gone"

Elapse ==
  /\ time < Horizon /\ ~Over
  /\ ~(fired /\ tick.at = "waiting")
  /\ tick.at # "waiting" => time - tick.now < Work
  /\ route = "booting" => time - history.added < BootLimit
  /\ time' = time + 1
  /\ fired' = (fired \/ (time + 1) % Interval = 0)
  /\ UNCHANGED <<route, healthy, counter, clock, tick, history>>

-----------------------------------------------------------------------------
(* The world: the play, its boot, the containers, the Guest and Traefik. *)

\* At any time, also while a tick is busy with the Sessions of its snapshot.
PlayRegisters ==
  /\ history.added = Never
  /\ route' = "booting"
  /\ history' = [history EXCEPT !.added = time]
  /\ UNCHANGED <<time, fired, healthy, counter, clock, tick>>

BootSucceeds ==
  /\ route = "booting"
  /\ route' = "live" /\ healthy' = TRUE
  /\ history' = [history EXCEPT !.activity = time, !.seenWell = time]
  /\ UNCHANGED <<time, fired, counter, clock, tick>>

BootFails ==
  /\ route = "booting"
  /\ route' = "failed"
  /\ UNCHANGED <<time, fired, healthy, counter, clock, tick, history>>

HealthFlips ==
  /\ route = "live"
  /\ healthy' = ~healthy
  /\ UNCHANGED <<time, fired, route, counter, clock, tick, history>>

GuestRequests ==
  /\ route = "live" /\ counter < MaxRequests
  /\ counter' = counter + 1
  /\ history' = [history EXCEPT !.activity = time]
  /\ UNCHANGED <<time, fired, route, healthy, clock, tick>>

TraefikRestart ==
  /\ TraefikRestarts /\ counter > 0
  /\ counter' = 0
  /\ history' = [history EXCEPT !.activity = time, !.faults = @ \union {"restart"}]
  /\ UNCHANGED <<time, fired, route, healthy, clock, tick>>

-----------------------------------------------------------------------------
(* Reaper.tick *)

\* The ticker fires: snapshot, prune, scrape, and the one reading of the clock.
TickBegins ==
  /\ fired /\ tick.at = "waiting"
  /\ fired' = FALSE
  /\ \E count \in {counter} \union (IF ScrapeFails THEN {Never} ELSE {}) :
       /\ tick' = [at |-> "before", now |-> time, state |-> route, count |-> count]
       /\ history' = [history EXCEPT !.quietSince = history.activity,
                        !.faults = IF count = Never THEN @ \union {"scrape"} ELSE @]
  /\ clock' = IF route = "gone" THEN NoClock ELSE clock
  /\ UNCHANGED <<time, route, healthy, counter>>

\* No such Session, or it was visited: the rest of the tick is for others, and
\* its locals go.
TickEnds ==
  /\ \/ tick.at = "after"
     \/ tick.at = "before" /\ tick.state = "gone"
  /\ tick' = [tick EXCEPT !.at = "waiting", !.state = "gone", !.count = Never]
  /\ UNCHANGED <<time, fired, route, healthy, counter, clock, history>>

\* The clock tick works with: that of an earlier tick, or a new one.
Current == IF clock.tracked THEN clock ELSE NewClock(tick.now)

Visit(states) ==
  /\ tick.at = "before" /\ tick.state \in states
  /\ tick' = [tick EXCEPT !.at = "after"]
  /\ UNCHANGED <<time, fired, healthy, counter>>

\* reap and crash: the route after Teardown; a failure leaves route and clock.
TearsDown(why, to, kept, seen) ==
  \/ /\ route' = to
     /\ clock' = IF to = "gone" THEN NoClock ELSE kept
     /\ history' = [seen EXCEPT !.why = why]
  \/ /\ TeardownFails
     /\ clock' = kept
     /\ history' = [seen EXCEPT !.faults = @ \union {"teardown"}]
     /\ UNCHANGED route

\* Mutant: activity postpones the cap.
PastMaxRuntime_Active(now) == now - Current.lastActive >= MaxRuntime

PastMaxRuntime(now) == now - Current.firstSeen >= MaxRuntime

LingerBegins ==
  /\ Visit(Terminal)
  /\ Current.failedSince = Never
  /\ clock' = [Current EXCEPT !.failedSince = tick.now]
  /\ UNCHANGED <<route, history>>

LingerContinues ==
  /\ Visit(Terminal)
  /\ Current.failedSince # Never /\ tick.now - Current.failedSince < FailureLinger
  /\ UNCHANGED <<route, clock, history>>

LingerExpires ==
  /\ Visit(Terminal)
  /\ Current.failedSince # Never /\ tick.now - Current.failedSince >= FailureLinger
  /\ route' = "gone"
  /\ clock' = NoClock
  /\ UNCHANGED history

ReapsMaxRuntime ==
  /\ Visit({"booting", "live"})
  /\ PastMaxRuntime(tick.now)
  /\ TearsDown("max-runtime", "gone", Current, history)

SparesBooting ==
  /\ Visit({"booting"})
  /\ ~PastMaxRuntime(tick.now)
  /\ clock' = Current
  /\ UNCHANGED <<route, history>>

\* Mutant: a healthy check does not reset the grace.
Check_NoReset(c, now) ==
  {[clock |-> [c EXCEPT !.unhealthySince = IF ~healthy /\ @ = Never THEN now ELSE @],
    well |-> healthy,
    crashed |-> /\ ~healthy /\ c.unhealthySince # Never
                /\ now - c.unhealthySince >= CrashGrace]}

\* detectCrash: the clock after the health check, whether the check said
\* healthy, and whether the grace is over.  An error leaves the grace running.
Check(c, now) ==
  (IF CheckFails THEN {[clock |-> c, well |-> FALSE, crashed |-> FALSE]} ELSE {})
  \union
  {[clock |-> [c EXCEPT !.unhealthySince = IF healthy THEN Never
                                           ELSE IF @ = Never THEN now ELSE @],
    well |-> healthy,
    crashed |-> /\ ~healthy /\ c.unhealthySince # Never
                /\ now - c.unhealthySince >= CrashGrace]}

Seen(check) == [history EXCEPT !.seenWell = IF check.well THEN time ELSE @]

\* Is the count a baseline, or has it moved since the last one?
Moved(c, count) == count # Never /\ (~c.seenCount \/ count # c.lastCount)

IsIdle(c, now, count) ==
  count # Never /\ ~Moved(c, count) /\ now - c.lastActive >= Idle

\* Mutants: a moved count leaves lastActive; every tick is activity.
Counted_NotActive(c, now, count) ==
  IF Moved(c, count) THEN [c EXCEPT !.lastCount = count, !.seenCount = TRUE] ELSE c

Counted_AlwaysActive(c, now, count) ==
  [c EXCEPT !.lastCount = count, !.seenCount = TRUE, !.lastActive = now]

Counted(c, now, count) ==
  IF Moved(c, count)
  THEN [c EXCEPT !.lastCount = count, !.seenCount = TRUE, !.lastActive = now]
  ELSE c

Crashes ==
  /\ Visit({"live"})
  /\ ~PastMaxRuntime(tick.now)
  /\ \E check \in Check(Current, tick.now) :
       /\ check.crashed
       /\ TearsDown("crash", "crashed", check.clock, Seen(check))

ReapsIdle ==
  /\ Visit({"live"})
  /\ ~PastMaxRuntime(tick.now)
  /\ \E check \in Check(Current, tick.now) :
       /\ ~check.crashed
       /\ IsIdle(check.clock, tick.now, tick.count)
       /\ TearsDown("idle", "gone", check.clock, Seen(check))

SparesLive ==
  /\ Visit({"live"})
  /\ ~PastMaxRuntime(tick.now)
  /\ \E check \in Check(Current, tick.now) :
       /\ ~check.crashed
       /\ ~IsIdle(check.clock, tick.now, tick.count)
       /\ clock' = Counted(check.clock, tick.now, tick.count)
       /\ history' = Seen(check)
  /\ UNCHANGED route

\* The Session is over, or the bound on time is reached.
Finished == (Over \/ time = Horizon) /\ UNCHANGED vars

Next ==
  \/ Elapse \/ Finished
  \/ PlayRegisters \/ BootSucceeds \/ BootFails \/ HealthFlips \/ GuestRequests \/ TraefikRestart
  \/ TickBegins \/ TickEnds
  \/ LingerBegins \/ LingerContinues \/ LingerExpires
  \/ ReapsMaxRuntime \/ SparesBooting \/ Crashes \/ ReapsIdle \/ SparesLive

Spec == Init /\ [][Next]_vars

-----------------------------------------------------------------------------
(* Properties *)

Time == 0..Horizon
Stamp == Time \union {Never}

Clocks == [tracked: BOOLEAN, firstSeen: Stamp, lastActive: Stamp, lastCount: 0..MaxRequests,
           seenCount: BOOLEAN, unhealthySince: Stamp, failedSince: Stamp]

Ticks == [at: {"waiting", "before", "after"}, now: Time,
          state: {"booting", "live", "gone"} \union Terminal, count: Never..MaxRequests]

Histories == [added: Stamp, activity: Stamp, seenWell: Stamp, quietSince: Stamp,
              why: {"none", "max-runtime", "crash", "idle"},
              faults: SUBSET {"scrape", "teardown", "restart"}]

TypeOK ==
  /\ time \in Time
  /\ fired \in BOOLEAN
  /\ route \in {"booting", "live", "gone"} \union Terminal
  /\ healthy \in BOOLEAN
  /\ counter \in 0..MaxRequests
  /\ clock \in Clocks
  /\ clock.tracked => clock.firstSeen \in Time
  /\ tick \in Ticks
  /\ history \in Histories

\* A Session is torn down as idle only if its counter had not moved, by a
\* request or a reset, for Idle before the tick's scrape: booting time, failed
\* scrapes and the first count never pass for idleness.  A Traefik restart is
\* the exception: a counter that is back at the last count hides its requests.
IdleReapsQuiet ==
  [][route = "live" /\ route' # "live" /\ history'.why = "idle"
       => \/ tick.now - history.quietSince >= Idle
          \/ "restart" \in history.faults]_vars

\* A Session is torn down as crashed only after CrashGrace without a check
\* that saw it healthy: a recovery the reaper sees restarts the grace, a check
\* that fails neither restarts nor ends it.
CrashHonoursGrace ==
  [][route = "live" /\ route' = "crashed"
       => tick.now - history.seenWell >= CrashGrace]_vars

\* Two ticks begin at most this far apart: a period of the ticker, or a tick
\* that takes longer than that.
Period == IF Interval >= Work THEN Interval ELSE Work

\* The unconditional backstop: unless a teardown failed, no route is booting or
\* live for longer than max-runtime, the time to see it first, and the time
\* from one visit to the end of the next.
LifetimeBounded ==
  route \in {"booting", "live"} /\ "teardown" \notin history.faults
    => time - history.added < MaxRuntime + 2 * Period + Work

\* The cost lever: while scrapes and teardowns succeed, a live Session whose
\* counter rests is gone in bounded time: the time to count its last request,
\* Idle, and the time from one visit to the end of the next.
IdleBounded ==
  route = "live" /\ history.faults \subseteq {"restart"}
    => time - history.activity < Idle + 2 * Period + Work

=============================================================================
