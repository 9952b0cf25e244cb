-------------------------- MODULE ReaperClockProofs --------------------------
(* What TLAPS proves about ReaperClock for all knobs and tick lengths.       *)
EXTENDS ReaperClock, TLAPS

-----------------------------------------------------------------------------
(* The arithmetic of the ticker, and what the helpers of tick return *)

LEMMA Modulo ==
  ASSUME NEW t \in Nat, NEW n \in Nat \ {0}, (t + 1) % n # 0
  PROVE  (t + 1) % n = (t % n) + 1
<1>1. t % n \in 0 .. n-1 /\ (t + 1) % n <= (t % n) + 1 /\ (t + 1) % n >= (t % n) + 1
  OBVIOUS
<1>2. (t + 1) % n \in Int
  OBVIOUS
<1> QED
  BY <1>1, <1>2

LEMMA Currents ==
  ASSUME TypeOK
  PROVE  /\ Current \in Clocks /\ Current.tracked /\ Current.firstSeen \in Time
         /\ Current.firstSeen = IF clock.tracked THEN clock.firstSeen ELSE tick.now
         /\ Current.unhealthySince = IF clock.tracked THEN clock.unhealthySince ELSE Never
         /\ Current.seenCount => clock.tracked /\ Current = clock
<1>1. CASE clock.tracked
  BY <1>1 DEF Current, TypeOK
<1>2. CASE ~clock.tracked
  <2>1. tick.now \in Time
    BY DEF TypeOK, Ticks
  <2>2. NewClock(tick.now) \in Clocks
    BY <2>1, ReaperAssumption DEF NewClock, Clocks, Time, Stamp, Never
  <2> QED
    BY <1>2, <2>1, <2>2 DEF Current, NewClock
<1> QED
  BY <1>1, <1>2

\* What a clock remembers of the request counter.
SameCount(c, d) ==
  /\ c.seenCount = d.seenCount
  /\ c.lastCount = d.lastCount
  /\ c.lastActive = d.lastActive

LEMMA Counting ==
  /\ \A c : SameCount(c, c)
  /\ \A c, d : SameCount(c, d) /\ c.seenCount => d.seenCount
  /\ \A c, d, e : SameCount(c, d) /\ SameCount(d, e) => SameCount(c, e)
  BY Zenon DEF SameCount

LEMMA Checks ==
  ASSUME NEW c \in Clocks, NEW now \in Time, NEW check \in Check(c, now), healthy \in BOOLEAN
  PROVE  /\ check.clock \in Clocks
         /\ check.clock.tracked = c.tracked
         /\ check.clock.firstSeen = c.firstSeen
         /\ SameCount(check.clock, c)
         /\ check.clock.unhealthySince # Never =>
              ~check.well /\ check.clock.unhealthySince \in {c.unhealthySince, now}
         /\ check.crashed => /\ ~check.well /\ c.unhealthySince # Never
                             /\ now - c.unhealthySince >= CrashGrace
<1> DEFINE since == IF healthy THEN Never
                    ELSE IF c.unhealthySince = Never THEN now ELSE c.unhealthySince
           set == [c EXCEPT !.unhealthySince = since]
<1>1. \/ check = [clock |-> c, well |-> FALSE, crashed |-> FALSE]
      \/ check = [clock |-> set, well |-> healthy,
                  crashed |-> /\ ~healthy /\ c.unhealthySince # Never
                              /\ now - c.unhealthySince >= CrashGrace]
  BY DEF Check
<1>2. since \in Stamp
  BY DEF Clocks, Stamp
<1>3. set \in Clocks /\ set.unhealthySince = since /\ set.tracked = c.tracked
        /\ set.firstSeen = c.firstSeen /\ SameCount(set, c)
  BY <1>2, Zenon DEF Clocks, SameCount
<1>4. CASE check = [clock |-> c, well |-> FALSE, crashed |-> FALSE]
  <2>1. check.clock = c /\ ~check.well /\ ~check.crashed
    BY <1>4
  <2> QED
    BY <2>1, Zenon DEF SameCount
<1>5. CASE check = [clock |-> set, well |-> healthy,
                    crashed |-> /\ ~healthy /\ c.unhealthySince # Never
                                /\ now - c.unhealthySince >= CrashGrace]
  <2> HIDE DEF set
  <2>1. /\ check.clock = set /\ check.well = healthy
        /\ check.crashed => /\ ~healthy /\ c.unhealthySince # Never
                            /\ now - c.unhealthySince >= CrashGrace
    BY <1>5, Zenon
  <2>2. set.unhealthySince # Never => ~healthy /\ since \in {c.unhealthySince, now}
    BY <1>3
  <2> QED
    BY <1>3, <2>1, <2>2
<1> QED
  BY <1>1, <1>4, <1>5

LEMMA Counts ==
  ASSUME NEW c \in Clocks, NEW now \in Time, NEW count \in Never..MaxRequests
  PROVE  LET d == Counted(c, now, count)
         IN /\ d \in Clocks /\ d.tracked = c.tracked
            /\ d.firstSeen = c.firstSeen /\ d.unhealthySince = c.unhealthySince
            /\ \/ SameCount(d, c)
               \/ count # Never /\ d.lastCount = count /\ d.lastActive = now
            /\ Moved(c, count) => d.seenCount /\ d.lastCount = count /\ d.lastActive = now
            /\ ~Moved(c, count) => d = c
<1>1. CASE Moved(c, count)
  <2>1. count \in 0..MaxRequests /\ now \in Stamp
    BY <1>1, ReaperAssumption DEF Moved, Never, Stamp
  <2>2. count # Never
    BY <1>1 DEF Moved
  <2> QED
    BY <1>1, <2>1, <2>2, Zenon DEF Counted, Clocks
<1>2. CASE ~Moved(c, count)
  BY <1>2, Zenon DEF Counted, SameCount
<1> QED
  BY <1>1, <1>2

LEMMA NoClockType == NoClock \in Clocks /\ ~NoClock.tracked /\ NoClock.unhealthySince = Never
                                            /\ ~NoClock.seenCount
<1>1. Never \in Stamp /\ 0 \in 0..MaxRequests
  BY ReaperAssumption DEF Stamp
<1> DEFINE new == NewClock(Never)
<1>2. new \in Clocks /\ new.unhealthySince = Never /\ new.seenCount = FALSE
  BY <1>1, Zenon DEF NewClock, Clocks
<1> HIDE DEF new
<1>3. NoClock = [new EXCEPT !.tracked = FALSE]
  BY Zenon DEF NoClock, new
<1>4. NoClock \in Clocks /\ NoClock.tracked = FALSE /\ NoClock.unhealthySince = new.unhealthySince
        /\ NoClock.seenCount = new.seenCount
  BY <1>2, <1>3, Zenon DEF Clocks
<1> QED
  BY <1>2, <1>4

LEMMA HistoryType ==
  ASSUME NEW h \in Histories, NEW t \in Time
  PROVE  /\ [h EXCEPT !.activity = t] \in Histories
         /\ [h EXCEPT !.activity = t, !.seenWell = t] \in Histories
         /\ [h EXCEPT !.activity = t, !.faults = @ \union {"restart"}] \in Histories
         /\ [h EXCEPT !.added = t] \in Histories
         /\ \A w \in {"max-runtime", "crash", "idle"} : [h EXCEPT !.why = w] \in Histories
         /\ [h EXCEPT !.faults = @ \union {"teardown"}] \in Histories
<1>1. t \in Stamp
  BY DEF Stamp
<1>2. /\ h.faults \union {"restart"} \in SUBSET {"scrape", "teardown", "restart"}
      /\ h.faults \union {"teardown"} \in SUBSET {"scrape", "teardown", "restart"}
  BY DEF Histories
<1> QED
  BY <1>1, <1>2, Zenon DEF Histories

-----------------------------------------------------------------------------
(* What a visit does *)

LEMMA TornDown ==
  ASSUME TypeOK, NEW why \in {"max-runtime", "crash", "idle"}, NEW to \in {"gone", "crashed"},
         NEW kept \in Clocks, kept.tracked => kept.firstSeen \in Time, NEW seen \in Histories,
         TearsDown(why, to, kept, seen)
  PROVE  /\ route' \in {route, to} /\ history' \in Histories
         /\ clock' \in Clocks /\ clock' \in {kept, NoClock}
         /\ route' = to \/ "teardown" \in history'.faults
         /\ history'.seenWell = seen.seenWell /\ history'.added = seen.added
         /\ seen.faults \subseteq history'.faults
         /\ history'.activity = seen.activity
         /\ route' # route => history'.why = why
<1>1. time \in Time
  BY DEF TypeOK
<1>2. CASE /\ route' = to
           /\ clock' = IF to = "gone" THEN NoClock ELSE kept
           /\ history' = [seen EXCEPT !.why = why]
  <2>1. history' \in Histories
    BY <1>1, <1>2, HistoryType
  <2>2. /\ history'.seenWell = seen.seenWell /\ history'.added = seen.added
        /\ history'.faults = seen.faults /\ history'.activity = seen.activity
        /\ history'.why = why
    BY <1>2 DEF Histories
  <2> QED
    BY <1>2, <2>1, <2>2, NoClockType
<1>3. CASE /\ clock' = kept
           /\ history' = [seen EXCEPT !.faults = @ \union {"teardown"}]
           /\ route' = route
  <2>1. history' \in Histories
    BY <1>1, <1>3, HistoryType
  <2>2. /\ history'.seenWell = seen.seenWell /\ history'.added = seen.added
        /\ history'.faults = seen.faults \union {"teardown"}
        /\ history'.activity = seen.activity
    BY <1>3 DEF Histories
  <2> QED
    BY <1>3, <2>1, <2>2
<1> QED
  BY <1>2, <1>3 DEF TearsDown

Visits ==
  \/ LingerBegins \/ LingerContinues \/ LingerExpires
  \/ ReapsMaxRuntime \/ SparesBooting \/ Crashes \/ ReapsIdle \/ SparesLive

\* The clock has taken the tick's count over, and the Session is not idle.
Absorbed ==
  /\ clock'.seenCount /\ clock'.lastCount = tick.count
  /\ tick.now - clock'.lastActive < Idle
  /\ \/ Current.seenCount /\ clock'.lastActive = Current.lastActive
     \/ /\ ~Current.seenCount \/ tick.count # Current.lastCount
        /\ clock'.lastActive = tick.now

\* What a visit leaves of the clock and the route.
Visited ==
  /\ route' \in {route, "gone", "crashed"}
  /\ clock' \in Clocks /\ (clock'.tracked => clock'.firstSeen \in Time)
  /\ history' \in Histories /\ history'.added = history.added
  /\ history.faults \subseteq history'.faults
  /\ history'.seenWell \in {history.seenWell, time}
  /\ tick.state # "live" => history'.seenWell = history.seenWell
  /\ clock'.unhealthySince # Never =>
       /\ history'.seenWell = history.seenWell
       /\ \/ clock'.unhealthySince = Current.unhealthySince
          \/ tick.state = "live" /\ clock'.unhealthySince = tick.now
  /\ route' \in {"booting", "live"} =>
       \/ tick.state \in Terminal \/ "teardown" \in history'.faults
       \/ /\ clock'.tracked /\ clock'.firstSeen = Current.firstSeen
          /\ tick.now - Current.firstSeen < MaxRuntime
  /\ route = "live" /\ route' = "crashed" =>
       Current.unhealthySince # Never /\ tick.now - Current.unhealthySince >= CrashGrace
  /\ history'.activity = history.activity
  /\ clock'.seenCount =>
       \/ Current.seenCount /\ SameCount(clock', Current)
       \/ /\ tick.state = "live" /\ tick.count # Never
          /\ clock'.lastCount = tick.count /\ clock'.lastActive = tick.now
  /\ clock'.tracked \/ clock' = NoClock
  /\ tick.state = "booting" /\ route' \in {"booting", "live"} =>
       "teardown" \in history'.faults \/ clock' = Current
  /\ tick.state = "live" /\ tick.count # Never /\ route' = "live" =>
       "teardown" \in history'.faults \/ Absorbed
  /\ route' # route /\ history'.why = "idle" =>
       \/ tick.state \in Terminal
       \/ /\ tick.state = "live" /\ tick.count # Never
          /\ Current.seenCount /\ tick.count = Current.lastCount
          /\ tick.now - Current.lastActive >= Idle

\* The health check of a visit to a live Session: the clock it leaves, and what
\* the world has seen by then.
Examined(c, h) ==
  /\ c \in Clocks /\ h \in Histories
  /\ c.tracked /\ c.firstSeen = Current.firstSeen
  /\ h.added = history.added /\ h.faults = history.faults /\ h.activity = history.activity
  /\ SameCount(c, Current)
  /\ h.seenWell \in {history.seenWell, time}
  /\ c.unhealthySince # Never => /\ c.unhealthySince \in {Current.unhealthySince, tick.now}
                                 /\ h.seenWell = history.seenWell

LEMMA CheckExamines ==
  ASSUME TypeOK, NEW check \in Check(Current, tick.now)
  PROVE  /\ Examined(check.clock, Seen(check))
         /\ check.crashed => /\ Seen(check).seenWell = history.seenWell
                             /\ Current.unhealthySince # Never
                             /\ tick.now - Current.unhealthySince >= CrashGrace
<1>1. /\ tick.now \in Time /\ time \in Time /\ healthy \in BOOLEAN /\ history \in Histories
      /\ Current \in Clocks /\ Current.tracked
  BY Currents DEF TypeOK, Ticks
<1>2. /\ check.clock \in Clocks /\ check.clock.tracked /\ check.clock.firstSeen = Current.firstSeen
      /\ SameCount(check.clock, Current)
      /\ check.clock.unhealthySince # Never =>
           ~check.well /\ check.clock.unhealthySince \in {Current.unhealthySince, tick.now}
      /\ check.crashed => /\ ~check.well /\ Current.unhealthySince # Never
                          /\ tick.now - Current.unhealthySince >= CrashGrace
  BY <1>1, Checks
<1> DEFINE w == IF check.well THEN time ELSE history.seenWell
<1>3. Seen(check) = [history EXCEPT !.seenWell = w]
  BY DEF Seen
<1>4. w \in Stamp
  BY <1>1 DEF Histories, Stamp
<1>5. Seen(check) \in Histories /\ Seen(check).seenWell = w /\ Seen(check).added = history.added
        /\ Seen(check).faults = history.faults /\ Seen(check).activity = history.activity
  BY <1>1, <1>3, <1>4, Zenon DEF Histories
<1> QED
  BY <1>2, <1>5 DEF Examined

LEMMA LingerVisits ==
  ASSUME TypeOK, LingerBegins \/ LingerContinues \/ LingerExpires
  PROVE  Visited
<1> USE DEF Visit
<1>1. Current \in Clocks /\ Current.tracked /\ Current.firstSeen \in Time
  BY Currents
<1>2. tick.state \in Terminal /\ tick.now \in Stamp
  BY DEF LingerBegins, LingerContinues, LingerExpires, TypeOK, Ticks, Stamp
<1>3. UNCHANGED history /\ history \in Histories
  BY DEF LingerBegins, LingerContinues, LingerExpires, TypeOK
<1>4. CASE LingerBegins
  <2>1. route' = route /\ clock' = [Current EXCEPT !.failedSince = tick.now]
    BY <1>4 DEF LingerBegins
  <2>2. /\ clock' \in Clocks /\ clock'.firstSeen = Current.firstSeen
        /\ clock'.unhealthySince = Current.unhealthySince
        /\ SameCount(clock', Current) /\ clock'.seenCount = Current.seenCount
    BY <1>1, <1>2, <2>1, Zenon DEF Clocks, SameCount
  <2> QED
    BY <1>1, <1>2, <1>3, <2>1, <2>2 DEF Visited, TypeOK, Terminal
<1>5. CASE LingerContinues
  <2>1. UNCHANGED <<route, clock>>
    BY <1>5 DEF LingerContinues
  <2>2. clock.tracked
    BY <1>5 DEF LingerContinues, Current, NewClock
  <2>3. Current = clock /\ clock.firstSeen \in Time
    BY <2>2 DEF Current, TypeOK
  <2>4. SameCount(clock, clock)
    BY DEF SameCount
  <2> QED
    BY <1>2, <1>3, <2>1, <2>2, <2>3, <2>4 DEF Visited, TypeOK, Terminal
<1>6. CASE LingerExpires
  <2>1. route' = "gone" /\ clock' = NoClock
    BY <1>6 DEF LingerExpires
  <2> QED
    BY <1>2, <1>3, <2>1, NoClockType DEF Visited, Terminal
<1> QED
  BY <1>4, <1>5, <1>6

LEMMA SpareVisits ==
  ASSUME TypeOK, SparesBooting \/ SparesLive
  PROVE  Visited
<1> USE DEF Visit
<1>1. /\ Current \in Clocks /\ Current.tracked /\ Current.firstSeen \in Time
      /\ route \in {"booting", "live", "gone"} \union Terminal /\ history \in Histories
  BY Currents DEF TypeOK
<1>2. tick.now - Current.firstSeen < MaxRuntime
  <2>1. tick.now \in Int /\ Current.firstSeen \in Int /\ MaxRuntime \in Int
    BY <1>1, ReaperAssumption DEF TypeOK, Ticks, Time, Knobs
  <2>2. ~(tick.now - Current.firstSeen >= MaxRuntime)
    BY DEF SparesBooting, SparesLive, PastMaxRuntime
  <2> QED
    BY <2>1, <2>2
<1>3. CASE SparesBooting
  <2>1. UNCHANGED <<route, history>> /\ clock' = Current /\ tick.state = "booting"
    BY <1>3 DEF SparesBooting
  <2> QED
    BY <1>1, <1>2, <2>1, Counting DEF Visited
<1>4. CASE SparesLive
  <2>1. PICK check \in Check(Current, tick.now) :
          /\ ~IsIdle(check.clock, tick.now, tick.count)
          /\ clock' = Counted(check.clock, tick.now, tick.count)
          /\ history' = Seen(check)
    BY <1>4 DEF SparesLive
  <2>2. Examined(check.clock, Seen(check))
    BY CheckExamines
  <2>3. tick.now \in Time /\ tick.count \in Never..MaxRequests
    BY DEF TypeOK, Ticks
  <2>4. /\ clock' \in Clocks /\ clock'.tracked /\ clock'.firstSeen = Current.firstSeen
        /\ clock'.unhealthySince = check.clock.unhealthySince
    BY <2>1, <2>2, <2>3, Counts DEF Examined
  <2>5. route' = route /\ tick.state = "live"
    BY <1>4 DEF SparesLive
  <2>6. \/ SameCount(clock', Current)
        \/ tick.count # Never /\ clock'.lastCount = tick.count /\ clock'.lastActive = tick.now
    BY <2>1, <2>2, <2>3, Counts, Counting DEF Examined
  <2>7. clock'.seenCount =>
          \/ Current.seenCount /\ SameCount(clock', Current)
          \/ tick.count # Never /\ clock'.lastCount = tick.count /\ clock'.lastActive = tick.now
    BY <2>6, Counting
  <2>8. ASSUME tick.count # Never PROVE Absorbed
    <3>1. ~IsIdle(check.clock, tick.now, tick.count)
      BY <2>1
    <3>2. SameCount(check.clock, Current)
      BY <2>2 DEF Examined
    <3>3. /\ check.clock.seenCount = Current.seenCount
          /\ check.clock.lastCount = Current.lastCount
          /\ check.clock.lastActive = Current.lastActive
      BY <3>2 DEF SameCount
    <3>4. check.clock \in Clocks /\ tick.now \in Int /\ Idle \in Nat \ {0}
      BY <2>2, <2>3, ReaperAssumption DEF Examined, Time, Knobs
    <3>5. CASE Moved(check.clock, tick.count)
      <4>1. clock'.seenCount /\ clock'.lastCount = tick.count /\ clock'.lastActive = tick.now
        BY <2>1, <2>3, <3>4, <3>5, Counts
      <4>2. ~Current.seenCount \/ tick.count # Current.lastCount
        BY <3>3, <3>5 DEF Moved
      <4> QED
        BY <3>4, <4>1, <4>2 DEF Absorbed
    <3>6. CASE ~Moved(check.clock, tick.count)
      <4>1. clock' = check.clock
        BY <2>1, <2>3, <3>4, <3>6, Counts
      <4>2. check.clock.seenCount /\ tick.count = check.clock.lastCount
        BY <2>8, <3>6 DEF Moved
      <4>3. ~(tick.now - check.clock.lastActive >= Idle)
        BY <2>8, <3>1, <3>6 DEF IsIdle
      <4>4. check.clock.lastActive \in Int
        BY <3>4 DEF Clocks, Stamp, Time, Never
      <4>5. tick.now - clock'.lastActive < Idle
        BY <3>4, <4>1, <4>3, <4>4
      <4> QED
        BY <3>3, <4>1, <4>2, <4>5 DEF Absorbed
    <3> QED
      BY <3>5, <3>6
  <2> QED
    BY <1>1, <1>2, <2>1, <2>2, <2>4, <2>5, <2>7, <2>8 DEF Visited, Examined
<1> QED
  BY <1>3, <1>4

LEMMA ReapVisits ==
  ASSUME TypeOK, ReapsMaxRuntime \/ Crashes \/ ReapsIdle
  PROVE  Visited
<1> USE DEF Visit
<1>1. /\ Current \in Clocks /\ Current.tracked /\ Current.firstSeen \in Time
      /\ route \in {"booting", "live", "gone"} \union Terminal /\ history \in Histories
  BY Currents DEF TypeOK
<1>2. CASE ReapsMaxRuntime
  <2>1. TearsDown("max-runtime", "gone", Current, history)
    BY <1>2 DEF ReapsMaxRuntime
  <2>2. /\ route' \in {route, "gone"} /\ history' \in Histories
        /\ clock' \in Clocks /\ clock' \in {Current, NoClock}
        /\ route' = "gone" \/ "teardown" \in history'.faults
        /\ history'.seenWell = history.seenWell /\ history'.added = history.added
        /\ history.faults \subseteq history'.faults
        /\ history'.activity = history.activity
        /\ route' # route => history'.why = "max-runtime"
    BY <1>1, <2>1, TornDown
  <2> QED
    BY <1>1, <2>2, NoClockType, Counting DEF Visited
<1>3. CASE Crashes \/ ReapsIdle
  <2>1. PICK check \in Check(Current, tick.now), why \in {"crash", "idle"}, to \in {"gone", "crashed"} :
          /\ TearsDown(why, to, check.clock, Seen(check))
          /\ to = "crashed" => check.crashed
          /\ why = "idle" => IsIdle(check.clock, tick.now, tick.count)
    BY <1>3 DEF Crashes, ReapsIdle
  <2>2. /\ Examined(check.clock, Seen(check))
        /\ check.crashed => /\ Seen(check).seenWell = history.seenWell
                            /\ Current.unhealthySince # Never
                            /\ tick.now - Current.unhealthySince >= CrashGrace
    BY CheckExamines
  <2>3. /\ route' \in {route, to} /\ history' \in Histories
        /\ clock' \in Clocks /\ clock' \in {check.clock, NoClock}
        /\ route' = to \/ "teardown" \in history'.faults
        /\ history'.seenWell = Seen(check).seenWell /\ history'.added = Seen(check).added
        /\ Seen(check).faults \subseteq history'.faults
        /\ history'.activity = Seen(check).activity
        /\ route' # route => history'.why = why
    BY <1>1, <2>1, <2>2, TornDown DEF Examined
  <2>4. tick.state = "live"
    BY <1>3 DEF Crashes, ReapsIdle
  <2>5. clock'.seenCount => Current.seenCount /\ SameCount(clock', Current)
    BY <2>2, <2>3, NoClockType, Counting DEF Examined
  <2>6. why = "idle" => /\ tick.count # Never
                        /\ check.clock.seenCount /\ tick.count = check.clock.lastCount
                        /\ tick.now - check.clock.lastActive >= Idle
    BY <2>1 DEF IsIdle, Moved
  <2>7. why = "idle" => /\ tick.count # Never
                        /\ Current.seenCount /\ tick.count = Current.lastCount
                        /\ tick.now - Current.lastActive >= Idle
    <3>1. SameCount(check.clock, Current)
      BY <2>2 DEF Examined
    <3>2. /\ check.clock.seenCount => Current.seenCount
          /\ check.clock.lastCount = Current.lastCount
          /\ check.clock.lastActive = Current.lastActive
      BY <3>1, Counting DEF SameCount
    <3> QED
      BY <2>6, <3>2
  <2> QED
    BY <1>1, <2>1, <2>2, <2>3, <2>4, <2>5, <2>7, NoClockType DEF Visited, Examined
<1> QED
  BY <1>2, <1>3

-----------------------------------------------------------------------------
(* The invariants *)

\* The ticker: nothing elapses with a tick waiting to be taken, so that the next
\* one begins a period, or a tick, after the last.
LagInv ==
  /\ history.added <= time /\ tick.now <= time
  /\ tick.at # "waiting" => time - tick.now <= Work
  /\ tick.at = "waiting" => time - tick.now <= Interval \/ time - tick.now <= Work
  /\ ~fired => time - (time % Interval) <= tick.now
  /\ tick.at = "before" =>
       /\ route = "live" => tick.state \in {"booting", "live", "gone"}
       /\ route = "booting" => tick.state \in {"booting", "gone"}

\* Nothing is known of a Session that is not registered yet; one that is has
\* come after the tick that does not know it.
FreshInv ==
  /\ history.added = Never =>
       /\ route = "gone" /\ clock = NoClock
       /\ tick.at # "after" /\ (tick.at = "before" => tick.state = "gone")
  /\ history.added # Never /\ tick.at = "before" /\ tick.state = "gone"
       /\ route \in {"booting", "live"} => clock = NoClock /\ tick.now <= history.added

\* The grace starts after the last check that saw the Stack healthy.
GraceInv ==
  /\ route = "booting" => clock.unhealthySince = Never
  /\ history.seenWell <= time
  /\ tick.at = "before" /\ tick.state = "live" => history.seenWell <= tick.now
  /\ clock.unhealthySince # Never => history.seenWell <= clock.unhealthySince

\* The first tick tracks the Session, and every visit since has found it before
\* max-runtime.
SpanInv ==
  route \in {"booting", "live"} /\ "teardown" \notin history.faults =>
    /\ ~clock.tracked => /\ tick.at # "after" /\ tick.now <= history.added + Period
                         /\ tick.at = "waiting" => tick.now <= history.added
    /\ clock.tracked =>
         /\ clock.firstSeen <= history.added + Period
         /\ tick.at # "before" => tick.now - clock.firstSeen < MaxRuntime
         /\ tick.now - clock.firstSeen < MaxRuntime + Period

\* As long as Traefik counts on, a counter that is where the clock has last seen
\* it has not moved since then.
QuietInv ==
  "restart" \notin history.faults =>
    /\ route = "booting" => ~clock.seenCount
    /\ history.activity <= time
    /\ clock.seenCount =>
         /\ clock.lastCount <= counter
         /\ clock.lastCount = counter => history.activity <= clock.lastActive
    /\ tick.at = "before" /\ tick.state = "live" /\ tick.count # Never =>
         /\ tick.count <= counter /\ history.quietSince <= tick.now
         /\ tick.count = counter => history.activity <= tick.now
         /\ clock.seenCount /\ clock.lastCount = tick.count =>
              history.quietSince <= clock.lastActive

\* As long as every scrape and teardown succeeds: what the clock takes for the
\* last activity was a period after it at most, and every tick that has visited
\* a live Session, and left it, came before Idle was over; and whatever moved
\* the counter since a tick read it happened after that tick began.
RestInv ==
  history.faults \subseteq {"restart"} =>
    /\ history.activity <= time
    /\ clock.seenCount => clock.tracked
    /\ route = "booting" \/ (tick.at = "before" /\ tick.state = "booting") => ~clock.seenCount
    /\ route = "live" =>
         /\ clock.seenCount => clock.lastActive <= history.activity + Period
         /\ tick.at # "before" =>
              /\ clock.seenCount => tick.now - clock.lastActive < Idle
              /\ ~clock.seenCount \/ counter # clock.lastCount => tick.now <= history.activity
         /\ tick.at = "before" =>
              /\ clock.seenCount => tick.now - clock.lastActive < Idle + Period
              /\ ~clock.seenCount \/ tick.count # clock.lastCount
                   => tick.now <= history.activity + Period
              /\ tick.state # "live" => tick.now <= history.activity
              /\ tick.state = "live" =>
                   tick.count # Never /\ (counter # tick.count => tick.now <= history.activity)

Inv == TypeOK /\ LagInv /\ FreshInv /\ GraceInv /\ SpanInv /\ QuietInv /\ RestInv

LEMMA Numbers ==
  ASSUME TypeOK
  PROVE  /\ {time, tick.now} \subseteq Nat
         /\ {history.added, history.seenWell, clock.unhealthySince, clock.firstSeen} \subseteq Int
         /\ {history.activity, history.quietSince, clock.lastActive} \subseteq Int
         /\ {counter, clock.lastCount} \subseteq Nat /\ tick.count \in Int
         /\ {Interval, MaxRuntime, CrashGrace, Idle} \subseteq Nat \ {0} /\ Work \in Nat
         /\ Period \in Nat /\ Interval <= Period /\ Work <= Period
<1>1. /\ {Interval, MaxRuntime, CrashGrace, Idle} \subseteq Nat \ {0} /\ Work \in Nat
  BY ReaperAssumption DEF Knobs
<1>2. Period \in Nat /\ Interval <= Period /\ Work <= Period
  BY <1>1 DEF Period
<1> QED
  BY <1>1, <1>2, ReaperAssumption DEF TypeOK, Ticks, Histories, Clocks, Time, Stamp, Never

LEMMA InitInv == Init => Inv
<1> SUFFICES ASSUME Init PROVE Inv
  OBVIOUS
<1>1. 0 \in Time /\ Never \in Stamp /\ 0 \in 0..MaxRequests /\ Never \in Never..MaxRequests
  BY ReaperAssumption DEF Time, Stamp, Never
<1>2. history \in Histories /\ tick \in Ticks
  BY <1>1 DEF Init, Histories, Ticks, Terminal
<1>3. TypeOK
  BY <1>1, <1>2, NoClockType DEF Init, TypeOK
<1>4. 0 % Interval = 0
  BY ReaperAssumption DEF Knobs
<1>5. LagInv /\ GraceInv
  BY <1>4, NoClockType, ReaperAssumption DEF Init, LagInv, GraceInv, Never, Knobs
<1>6. SpanInv /\ FreshInv
  BY NoClockType, ReaperAssumption DEF Init, SpanInv, FreshInv, Knobs
<1>7. QuietInv
  BY NoClockType DEF Init, QuietInv, Never
<1>8. RestInv
  BY NoClockType DEF Init, RestInv, Never
<1> QED
  BY <1>3, <1>5, <1>6, <1>7, <1>8 DEF Inv

LEMMA ElapseInv == ASSUME Inv, Elapse PROVE Inv'
<1>1. /\ time' = time + 1 /\ time < Horizon
      /\ fired' = (fired \/ (time + 1) % Interval = 0)
      /\ ~(fired /\ tick.at = "waiting")
      /\ tick.at # "waiting" => time - tick.now < Work
      /\ UNCHANGED <<route, healthy, counter, clock, tick, history>>
  BY DEF Elapse
<1>2. TypeOK'
  <2>1. time' \in Time
    BY <1>1, ReaperAssumption DEF Inv, TypeOK, Time
  <2>2. fired' \in BOOLEAN
    BY <1>1, Zenon
  <2> QED
    BY <1>1, <2>1, <2>2 DEF Inv, TypeOK
<1>3. /\ time \in Nat /\ tick.now \in Nat /\ {history.added, history.seenWell} \subseteq Int
      /\ Interval \in Nat \ {0} /\ Work \in Nat
  BY Numbers DEF Inv
<1> DEFINE r == time % Interval
           s == (time + 1) % Interval
<1>4. r \in 0..Interval-1
  BY <1>3
<1>5. s # 0 => s = r + 1
  BY <1>3, Modulo
<1>6. ~fired' => ~fired /\ s # 0
  BY <1>1
<1>7. ~fired => time - r <= tick.now
  BY DEF Inv, LagInv
<1> HIDE DEF r, s
<1>8. ~fired' => time' - s <= tick.now
  BY <1>1, <1>3, <1>4, <1>5, <1>6, <1>7
<1>9. time' % Interval = s
  BY <1>1 DEF s
<1>10. tick.at = "waiting" => time' - tick.now <= Interval
  BY <1>1, <1>3, <1>4, <1>7
<1>11. LagInv'
  <2>1. history.added <= time /\ tick.now <= time
    BY DEF Inv, LagInv
  <2>2. history.added <= time' /\ tick.now <= time' /\ (tick.at # "waiting" => time' - tick.now <= Work)
    BY <1>1, <1>3, <2>1
  <2>3. tick.at = "before" => /\ route = "live" => tick.state \in {"booting", "live", "gone"}
                              /\ route = "booting" => tick.state \in {"booting", "gone"}
    BY DEF Inv, LagInv
  <2> QED
    BY <1>1, <1>8, <1>9, <1>10, <2>1, <2>2, <2>3 DEF LagInv
<1>12. GraceInv'
  BY <1>1, <1>3 DEF Inv, GraceInv
<1>13. SpanInv' /\ FreshInv'
  BY <1>1 DEF Inv, SpanInv, FreshInv
<1>14. QuietInv'
  BY <1>1, Numbers DEF Inv, QuietInv
<1>15. RestInv'
  <2> SUFFICES ASSUME history.faults \subseteq {"restart"} PROVE RestInv'
    BY <1>1 DEF RestInv
  <2>1. history.activity <= time'
    BY <1>1, Numbers DEF Inv, RestInv
  <2> QED
    BY <1>1, <2>1 DEF Inv, RestInv
<1> QED
  BY <1>2, <1>11, <1>12, <1>13, <1>14, <1>15 DEF Inv

LEMMA RegisterInv == ASSUME Inv, PlayRegisters PROVE Inv'
<1>1. /\ history.added = Never /\ route' = "booting"
      /\ history' = [history EXCEPT !.added = time]
      /\ UNCHANGED <<time, fired, healthy, counter, clock, tick>>
  BY DEF PlayRegisters
<1>2. history \in Histories /\ time \in Time
  BY DEF Inv, TypeOK
<1>3. /\ history' \in Histories /\ history'.added = time
      /\ history'.activity = history.activity /\ history'.seenWell = history.seenWell
      /\ history'.faults = history.faults /\ history'.quietSince = history.quietSince
  <2>1. history' \in Histories
    BY <1>1, <1>2, HistoryType
  <2> QED
    BY <1>1, <1>2, <2>1 DEF Histories
<1>4. /\ route = "gone" /\ clock = NoClock /\ tick.at # "after"
      /\ tick.at = "before" => tick.state = "gone"
  BY <1>1 DEF Inv, FreshInv
<1>5. ~clock.tracked /\ clock.unhealthySince = Never /\ ~clock.seenCount
  BY <1>4, NoClockType
<1>6. TypeOK'
  BY <1>1, <1>3 DEF Inv, TypeOK
<1>7. LagInv' /\ FreshInv'
  BY <1>1, <1>2, <1>3, <1>4, Numbers DEF Inv, LagInv, FreshInv, Time, Never
<1>8. GraceInv' /\ QuietInv'
  BY <1>1, <1>3, <1>4, <1>5 DEF Inv, GraceInv, QuietInv
<1>9. SpanInv'
  BY <1>1, <1>3, <1>4, <1>5, Numbers DEF Inv, LagInv, SpanInv
<1>10. RestInv'
  BY <1>1, <1>3, <1>4, <1>5 DEF Inv, RestInv
<1> QED
  BY <1>6, <1>7, <1>8, <1>9, <1>10 DEF Inv

LEMMA WorldInv ==
  ASSUME Inv, BootSucceeds \/ BootFails \/ HealthFlips \/ GuestRequests \/ TraefikRestart
  PROVE  Inv'
<1>1. UNCHANGED <<time, fired, clock, tick>>
  BY DEF BootSucceeds, BootFails, HealthFlips, GuestRequests, TraefikRestart
<1>2. history \in Histories /\ time \in Time
  BY DEF Inv, TypeOK
<1>3. /\ history' \in Histories /\ history'.added = history.added
      /\ history.faults \subseteq history'.faults
      /\ history'.seenWell = history.seenWell \/ (route = "booting" /\ history'.seenWell = time)
      /\ history'.quietSince = history.quietSince
      /\ history'.activity \in {history.activity, time}
  <2>1. CASE BootSucceeds
    <3>1. history' = [history EXCEPT !.activity = time, !.seenWell = time] /\ route = "booting"
      BY <2>1 DEF BootSucceeds
    <3>2. history' \in Histories
      BY <1>2, <3>1, HistoryType
    <3> QED
      BY <1>2, <3>1, <3>2 DEF Histories
  <2>2. CASE BootFails
    BY <1>2, <2>2 DEF BootFails
  <2>3. CASE HealthFlips
    BY <1>2, <2>3 DEF HealthFlips
  <2>4. CASE GuestRequests
    <3>1. history' = [history EXCEPT !.activity = time]
      BY <2>4 DEF GuestRequests
    <3>2. history' \in Histories
      BY <1>2, <3>1, HistoryType
    <3> QED
      BY <1>2, <3>1, <3>2 DEF Histories
  <2>5. CASE TraefikRestart
    <3>1. history' = [history EXCEPT !.activity = time, !.faults = @ \union {"restart"}]
      BY <2>5 DEF TraefikRestart
    <3>2. history' \in Histories
      BY <1>2, <3>1, HistoryType
    <3> QED
      BY <1>2, <3>1, <3>2 DEF Histories
  <2> QED
    BY <2>1, <2>2, <2>3, <2>4, <2>5
<1>4. /\ route' = route \/ (route = "booting" /\ route' \in {"live", "failed"})
      /\ healthy' \in BOOLEAN /\ counter' \in 0..MaxRequests
  <2>1. route' = route \/ (route = "booting" /\ route' \in {"live", "failed"})
    BY DEF BootSucceeds, BootFails, HealthFlips, GuestRequests, TraefikRestart
  <2>2. healthy' \in BOOLEAN
    BY Zenon
    DEF BootSucceeds, BootFails, HealthFlips, GuestRequests, TraefikRestart, Inv, TypeOK
  <2>3. counter' \in 0..MaxRequests
    BY ReaperAssumption
    DEF BootSucceeds, BootFails, HealthFlips, GuestRequests, TraefikRestart, Inv, TypeOK
  <2> QED
    BY <2>1, <2>2, <2>3
<1>5. TypeOK'
  BY <1>1, <1>3, <1>4 DEF Inv, TypeOK, Terminal
<1>6. LagInv'
  BY <1>1, <1>3, <1>4 DEF Inv, LagInv
<1>7. GraceInv'
  BY <1>1, <1>3, <1>4, Numbers DEF Inv, GraceInv, LagInv
<1>8. SpanInv' /\ FreshInv'
  BY <1>1, <1>3, <1>4 DEF Inv, SpanInv, FreshInv
<1>9. \/ UNCHANGED counter /\ (route = "booting" \/ history'.activity = history.activity)
      \/ counter' = counter + 1 /\ UNCHANGED route
      \/ "restart" \in history'.faults
  <2>1. CASE BootSucceeds \/ BootFails
    BY <2>1 DEF BootSucceeds, BootFails
  <2>2. CASE HealthFlips \/ GuestRequests
    BY <2>2 DEF HealthFlips, GuestRequests
  <2>3. CASE TraefikRestart
    BY <1>2, <2>3 DEF TraefikRestart, Histories
  <2> QED
    BY <2>1, <2>2, <2>3
<1>10. QuietInv'
  <2> SUFFICES ASSUME "restart" \notin history'.faults PROVE QuietInv'
    BY DEF QuietInv
  <2>1. QuietInv /\ "restart" \notin history.faults
    BY <1>3 DEF Inv
  <2>2. CASE route = "booting" /\ UNCHANGED counter
    BY <1>1, <1>3, <1>4, <2>1, <2>2, Numbers DEF Inv, QuietInv, LagInv
  <2>3. CASE UNCHANGED counter /\ history'.activity = history.activity
    BY <1>1, <1>3, <1>4, <2>1, <2>3 DEF QuietInv
  <2>4. CASE counter' = counter + 1 /\ UNCHANGED route
    BY <1>1, <1>3, <2>1, <2>4, Numbers DEF Inv, QuietInv
  <2> QED
    BY <1>9, <2>2, <2>3, <2>4
<1>11. RestInv'
  <2> SUFFICES ASSUME history'.faults \subseteq {"restart"} PROVE RestInv'
    BY DEF RestInv
  <2>1. history.faults \subseteq {"restart"} /\ RestInv
    BY <1>3 DEF Inv
  <2>2. /\ history.activity <= history'.activity /\ history'.activity <= time
        /\ route = "live" /\ counter' # counter => history'.activity = time
        /\ route = "booting" /\ route' = "live" => history'.activity = time
    <3>1. history.activity <= time /\ {time, history.activity} \subseteq Int
      BY <2>1, Numbers DEF Inv, RestInv
    <3>2. history.activity <= history'.activity /\ history'.activity <= time
      BY <1>3, <3>1
    <3>3. CASE BootSucceeds
      BY <1>2, <3>2, <3>3 DEF BootSucceeds, Histories
    <3>4. CASE BootFails \/ HealthFlips
      BY <3>2, <3>4 DEF BootFails, HealthFlips
    <3>5. CASE GuestRequests \/ TraefikRestart
      BY <1>2, <3>2, <3>5 DEF GuestRequests, TraefikRestart, Histories
    <3> QED
      BY <3>3, <3>4, <3>5
  <2>3. tick.now <= time
    BY DEF Inv, LagInv
  <2>4. CASE route' # "live"
    BY <1>1, <1>4, <2>1, <2>2, <2>4 DEF RestInv
  <2>5. CASE route = "live" /\ route' = "live"
    BY <1>1, <1>3, <2>1, <2>2, <2>3, <2>5, Numbers DEF Inv, RestInv
  <2>6. CASE route = "booting" /\ route' = "live"
    BY <1>1, <1>3, <2>1, <2>2, <2>3, <2>6, Numbers DEF Inv, RestInv, LagInv
  <2> QED
    BY <1>4, <2>4, <2>5, <2>6
<1> QED
  BY <1>5, <1>6, <1>7, <1>8, <1>10, <1>11 DEF Inv

LEMMA TickInv == ASSUME Inv, TickBegins \/ TickEnds PROVE Inv'
<1> USE DEF Inv
<1>1. CASE TickBegins
  <2>1. PICK count \in {counter, Never} :
          /\ tick' = [at |-> "before", now |-> time, state |-> route, count |-> count]
          /\ history' = [history EXCEPT !.quietSince = history.activity,
                           !.faults = IF count = Never THEN @ \union {"scrape"} ELSE @]
    BY <1>1 DEF TickBegins
  <2>2. /\ fired /\ tick.at = "waiting" /\ fired' = FALSE
        /\ clock' = IF route = "gone" THEN NoClock ELSE clock
        /\ UNCHANGED <<time, route, healthy, counter>>
    BY <1>1 DEF TickBegins
  <2>3. time \in Time /\ history \in Histories /\ count \in Never..MaxRequests
          /\ route \in {"booting", "live", "gone"} \union Terminal
    BY ReaperAssumption DEF TypeOK, Never
  <2>4. tick' \in Ticks
    BY <2>1, <2>3 DEF Ticks
  <2>5. history' \in Histories
    <3>1. history.activity \in Stamp
            /\ (IF count = Never THEN history.faults \union {"scrape"} ELSE history.faults)
                 \in SUBSET {"scrape", "teardown", "restart"}
      BY <2>3 DEF Histories
    <3> QED
      BY <2>1, <2>3, <3>1, Zenon DEF Histories
  <2>6. /\ history'.added = history.added /\ history'.seenWell = history.seenWell
        /\ history.faults \subseteq history'.faults
    BY <2>1, <2>3 DEF Histories
  <2>7. clock' \in Clocks /\ (clock'.tracked => clock'.firstSeen \in Time)
    BY <2>2, NoClockType DEF TypeOK
  <2>8. TypeOK'
    BY <2>2, <2>4, <2>5, <2>7 DEF TypeOK
  <2>9. tick'.at = "before" /\ tick'.now = time /\ tick'.state = route
    BY <2>1
  <2>10. LagInv'
    <3>1. history.added <= time /\ time \in Nat /\ Work \in Nat
      BY Numbers DEF LagInv
    <3>2. time % Interval \in 0 .. Interval-1
      BY Numbers
    <3>3. time - (time % Interval) <= time
      BY <3>1, <3>2, Numbers
    <3> QED
      BY <2>2, <2>6, <2>9, <3>1, <3>3 DEF LagInv
  <2>11. GraceInv'
    BY <2>2, <2>6, <2>9, NoClockType DEF GraceInv
  <2>12. SpanInv' /\ FreshInv'
    <3>1. time <= tick.now + Period
      BY <2>2, Numbers DEF LagInv
    <3>2. ASSUME route \in {"booting", "live"}, "teardown" \notin history.faults
          PROVE  /\ ~clock.tracked => time <= history.added + Period
                 /\ clock.tracked => /\ clock.firstSeen <= history.added + Period
                                     /\ time - clock.firstSeen < MaxRuntime + Period
      BY <2>2, <3>1, <3>2, Numbers DEF SpanInv
    <3>3. SpanInv'
      BY <2>2, <2>6, <2>9, <3>2 DEF SpanInv
    <3>4. FreshInv'
      BY <2>2, <2>6, <2>9 DEF FreshInv
    <3> QED
      BY <3>3, <3>4
  <2>13. QuietInv'
    <3>1. history'.activity = history.activity /\ history'.quietSince = history.activity
      BY <2>1, <2>3 DEF Histories
    <3>2. tick'.count # Never => tick'.count = counter
      BY <2>1
    <3> QED
      BY <2>2, <2>6, <2>9, <3>1, <3>2, Numbers, NoClockType DEF QuietInv
  <2>14. RestInv'
    <3> SUFFICES ASSUME history'.faults \subseteq {"restart"} PROVE RestInv'
      BY DEF RestInv
    <3>1. /\ history'.activity = history.activity /\ history.faults \subseteq {"restart"}
          /\ count # Never
      BY <2>1, <2>3, <2>6 DEF Histories
    <3>2. tick'.count = counter
      BY <2>1, <3>1
    <3>3. time <= tick.now + Period
      BY <2>2, Numbers DEF LagInv
    <3>4. CASE route = "gone"
      BY <2>2, <2>9, <3>1, <3>4, NoClockType DEF RestInv
    <3>5. CASE route # "gone"
      <4>1. clock' = clock
        BY <2>2, <3>5
      <4>2. ASSUME route = "live"
            PROVE  /\ clock.seenCount => time - clock.lastActive < Idle + Period
                   /\ ~clock.seenCount \/ counter # clock.lastCount
                        => time <= history.activity + Period
        BY <2>2, <3>1, <3>3, <4>2, Numbers DEF RestInv
      <4> QED
        BY <2>2, <2>9, <3>1, <3>2, <4>1, <4>2 DEF RestInv
    <3> QED
      BY <3>4, <3>5
  <2> QED
    BY <2>8, <2>10, <2>11, <2>12, <2>13, <2>14
<1>2. CASE TickEnds
  <2>1. /\ tick' = [tick EXCEPT !.at = "waiting", !.state = "gone", !.count = Never]
        /\ tick.at = "after" \/ (tick.at = "before" /\ tick.state = "gone")
        /\ UNCHANGED <<time, fired, route, healthy, counter, clock, history>>
    BY <1>2 DEF TickEnds
  <2>2. tick' \in Ticks /\ tick'.at = "waiting" /\ tick'.now = tick.now
    <3>1. Never \in Never..MaxRequests
      BY ReaperAssumption DEF Never
    <3> QED
      BY <2>1, <3>1, Zenon DEF TypeOK, Ticks
  <2>3. TypeOK' /\ GraceInv'
    BY <2>1, <2>2 DEF TypeOK, GraceInv
  <2>4. LagInv'
    BY <2>1, <2>2 DEF LagInv
  <2>5. SpanInv' /\ FreshInv'
    BY <2>1, <2>2, NoClockType, Numbers DEF SpanInv, FreshInv, LagInv
  <2>6. QuietInv'
    BY <2>1, <2>2 DEF QuietInv
  <2>7. RestInv'
    <3>1. tick.at \in {"after", "before"} /\ (tick.at = "before" => tick.state = "gone")
      BY <2>1
    <3>2. tick.at = "before" /\ route = "live" => clock = NoClock
      BY <3>1 DEF LagInv, FreshInv
    <3> QED
      BY <2>1, <2>2, <3>1, <3>2, NoClockType DEF RestInv
  <2> QED
    BY <2>3, <2>4, <2>5, <2>6, <2>7
<1> QED
  BY <1>1, <1>2

LEMMA VisitInv == ASSUME Inv, Visits PROVE Inv' /\ Visited
<1> USE DEF Inv
<1>1. /\ tick.at = "before" /\ tick' = [tick EXCEPT !.at = "after"] /\ tick.state # "gone"
      /\ UNCHANGED <<time, fired, healthy, counter>>
  BY DEF Visits, Visit, LingerBegins, LingerContinues, LingerExpires, ReapsMaxRuntime,
         SparesBooting, Crashes, ReapsIdle, SparesLive, Terminal
<1>2. Visited
  BY LingerVisits, SpareVisits, ReapVisits DEF Visits
<1>3. tick' \in Ticks /\ tick'.at = "after" /\ tick'.now = tick.now /\ tick'.state = tick.state
  BY <1>1 DEF TypeOK, Ticks
<1>4. TypeOK'
  BY <1>1, <1>2, <1>3 DEF TypeOK, Visited, Terminal
<1>5. LagInv' /\ FreshInv'
  BY <1>1, <1>2, <1>3 DEF LagInv, FreshInv, Visited
<1>6. Current.unhealthySince = IF clock.tracked THEN clock.unhealthySince ELSE Never
  BY Currents
<1>7. GraceInv'
  <2>1. route' = "booting" => clock'.unhealthySince = Never
    BY <1>1, <1>2, <1>6 DEF GraceInv, LagInv, Visited
  <2>2. history'.seenWell <= time'
    BY <1>1, <1>2, Numbers DEF GraceInv, Visited
  <2>3. clock'.unhealthySince # Never => history'.seenWell <= clock'.unhealthySince
    BY <1>1, <1>2, <1>6 DEF GraceInv, Visited
  <2> QED
    BY <1>3, <2>1, <2>2, <2>3 DEF GraceInv
<1>8. SpanInv'
  <2> SUFFICES ASSUME route' \in {"booting", "live"}, "teardown" \notin history'.faults
               PROVE  /\ clock'.tracked /\ clock'.firstSeen <= history'.added + Period
                      /\ tick.now - clock'.firstSeen < MaxRuntime
    <3>1. clock'.firstSeen \in Int
      BY <1>4 DEF TypeOK, Clocks, Stamp, Time, Never
    <3> QED
      BY <1>3, <3>1, Numbers DEF SpanInv
  <2>1. route \in {"booting", "live"} /\ "teardown" \notin history.faults
    BY <1>2 DEF Visited
  <2>2. tick.state \notin Terminal
    BY <1>1, <2>1 DEF LagInv, Terminal
  <2>3. /\ clock'.tracked /\ clock'.firstSeen = Current.firstSeen
        /\ tick.now - Current.firstSeen < MaxRuntime
    BY <1>2, <2>2 DEF Visited
  <2>4. Current.firstSeen <= history.added + Period
    BY <1>1, <2>1, Currents DEF SpanInv
  <2> QED
    BY <1>2, <2>3, <2>4 DEF Visited
<1>9. QuietInv'
  <2> SUFFICES ASSUME "restart" \notin history'.faults
               PROVE  /\ route' = "booting" => ~clock'.seenCount
                      /\ history'.activity <= time'
                      /\ clock'.seenCount =>
                           /\ clock'.lastCount <= counter'
                           /\ clock'.lastCount = counter' => history'.activity <= clock'.lastActive
    BY <1>3 DEF QuietInv
  <2>1. "restart" \notin history.faults /\ history'.activity = history.activity
    BY <1>2 DEF Visited
  <2>2. route' = "booting" => ~clock'.seenCount
    BY <1>1, <1>2, <2>1, Currents DEF Visited, QuietInv, LagInv
  <2>3. history'.activity <= time'
    BY <1>1, <2>1 DEF QuietInv
  <2>4. CASE clock'.seenCount /\ Current.seenCount /\ SameCount(clock', Current)
    BY <1>1, <2>1, <2>2, <2>3, <2>4, Currents DEF QuietInv, SameCount
  <2>5. CASE /\ tick.state = "live" /\ tick.count # Never
             /\ clock'.lastCount = tick.count /\ clock'.lastActive = tick.now
    BY <1>1, <2>1, <2>2, <2>3, <2>5 DEF QuietInv
  <2> QED
    BY <1>2, <2>2, <2>3, <2>4, <2>5 DEF Visited
<1>10. RestInv'
  <2> SUFFICES ASSUME history'.faults \subseteq {"restart"} PROVE RestInv'
    BY DEF RestInv
  <2>1. /\ history.faults \subseteq {"restart"} /\ "teardown" \notin history'.faults
        /\ history'.activity = history.activity
    BY <1>2 DEF Visited
  <2>2. history.activity <= time /\ (clock.seenCount => clock.tracked)
    BY <2>1 DEF RestInv
  <2>3. Current.seenCount = clock.seenCount /\ (clock.seenCount => Current = clock)
    <3>1. CASE clock.tracked
      BY <3>1 DEF Current
    <3>2. CASE ~clock.tracked
      <4>1. TypeOK
        BY DEF Inv
      <4>2. Current.seenCount \in BOOLEAN /\ clock.seenCount \in BOOLEAN
        BY <4>1, Currents DEF TypeOK, Clocks
      <4>3. ~Current.seenCount /\ ~clock.seenCount
        BY <2>2, <3>2, <4>1, Currents
      <4> QED
        BY <4>2, <4>3, Zenon
    <3> QED
      BY <3>1, <3>2
  <2>4. clock'.seenCount => clock'.tracked
    BY <1>2, NoClockType DEF Visited
  <2>5. ASSUME tick.state = "booting", route' \in {"booting", "live"} PROVE ~clock'.seenCount
    BY <1>1, <1>2, <2>1, <2>3, <2>5 DEF Visited, RestInv
  <2>6. route' = "booting" => ~clock'.seenCount
    BY <1>1, <1>2, <2>5 DEF Visited, LagInv
  <2>7. ASSUME route' = "live"
        PROVE  /\ clock'.seenCount => clock'.lastActive <= history.activity + Period
               /\ clock'.seenCount => tick.now - clock'.lastActive < Idle
               /\ ~clock'.seenCount \/ counter # clock'.lastCount => tick.now <= history.activity
    <3>1. route = "live" /\ tick.state \in {"booting", "live"}
      BY <1>1, <1>2, <2>7 DEF Visited, LagInv
    <3>2. CASE tick.state = "booting"
      BY <1>1, <2>1, <2>5, <2>7, <3>1, <3>2 DEF RestInv
    <3>3. CASE tick.state = "live"
      <4>1. tick.count # Never /\ (counter # tick.count => tick.now <= history.activity)
        BY <1>1, <2>1, <3>1, <3>3 DEF RestInv
      <4>2. Absorbed
        BY <1>2, <2>1, <2>7, <3>3, <4>1 DEF Visited
      <4>3. /\ clock.seenCount => clock.lastActive <= history.activity + Period
            /\ ~clock.seenCount \/ tick.count # clock.lastCount
                 => tick.now <= history.activity + Period
        BY <1>1, <2>1, <3>1 DEF RestInv
      <4> QED
        BY <2>3, <4>1, <4>2, <4>3 DEF Absorbed
    <3> QED
      BY <3>1, <3>2, <3>3
  <2> QED
    BY <1>1, <1>3, <2>1, <2>2, <2>4, <2>6, <2>7 DEF RestInv
<1> QED
  BY <1>2, <1>4, <1>5, <1>7, <1>8, <1>9, <1>10

LEMMA Inductive == Inv /\ [Next]_vars => Inv'
<1> SUFFICES ASSUME Inv, [Next]_vars PROVE Inv'
  OBVIOUS
<1>1. CASE Finished \/ UNCHANGED vars
  BY <1>1 DEF Finished, vars, Inv, TypeOK, LagInv, FreshInv, GraceInv, SpanInv, QuietInv, RestInv
<1> QED
  BY <1>1, ElapseInv, RegisterInv, WorldInv, TickInv, VisitInv DEF Next, Visits

\* Reaper and world keep their types, whatever the knobs are.
THEOREM TypeCorrect == Spec => []TypeOK
<1>1. Inv => TypeOK
  BY DEF Inv
<1> QED
  BY InitInv, Inductive, <1>1, PTL DEF Spec

\* session.Reaper's backstop: for all knobs, and however late its ticks come, no
\* route is booting or live for max-runtime, two periods (to the first tick that
\* sees it, and between two visits) and the length of a tick, unless a Teardown
\* has failed.
THEOREM LifetimeIsBounded == Spec => []LifetimeBounded
<1>1. Inv => LifetimeBounded
  <2> SUFFICES ASSUME Inv, route \in {"booting", "live"}, "teardown" \notin history.faults
               PROVE  time - history.added < MaxRuntime + 2 * Period + Work
    BY DEF LifetimeBounded
  <2>1. /\ tick.at # "waiting" => time - tick.now <= Work
        /\ tick.at = "waiting" => time - tick.now <= Period
    BY Numbers DEF Inv, LagInv
  <2>2. tick.at \in {"waiting", "before", "after"}
    BY DEF Inv, TypeOK, Ticks
  <2>3. CASE ~clock.tracked
    <3>1. tick.now <= history.added + Period
      BY <2>3 DEF Inv, SpanInv
    <3> QED
      BY <2>1, <2>2, <3>1, Numbers DEF Inv
  <2>4. CASE clock.tracked
    <3>1. /\ clock.firstSeen <= history.added + Period
          /\ tick.at # "before" => tick.now - clock.firstSeen < MaxRuntime
          /\ tick.now - clock.firstSeen < MaxRuntime + Period
      BY <2>4 DEF Inv, SpanInv
    <3> QED
      BY <2>1, <2>2, <3>1, Numbers DEF Inv
  <2> QED
    BY <2>3, <2>4
<1> QED
  BY InitInv, Inductive, <1>1, PTL DEF Spec

\* The cost lever: for all knobs, a live Session is gone before Idle, two periods
\* and the length of a tick are over, counted from its last activity, as long as
\* scrapes and teardowns succeed.
THEOREM IdleIsBounded == Spec => []IdleBounded
<1>1. Inv => IdleBounded
  <2> SUFFICES ASSUME Inv, route = "live", history.faults \subseteq {"restart"}
               PROVE  time - history.activity < Idle + 2 * Period + Work
    BY DEF IdleBounded
  <2>1. /\ tick.at # "waiting" => time - tick.now <= Work
        /\ tick.at = "waiting" => time - tick.now <= Period
    BY Numbers DEF Inv, LagInv
  <2>2. tick.at \in {"waiting", "before", "after"}
    BY DEF Inv, TypeOK, Ticks
  <2>3. clock.seenCount => clock.lastActive <= history.activity + Period
    BY DEF Inv, RestInv
  <2>4. CASE tick.at = "before"
    <3>1. /\ clock.seenCount => tick.now - clock.lastActive < Idle + Period
          /\ ~clock.seenCount => tick.now <= history.activity + Period
      BY <2>4 DEF Inv, RestInv
    <3> QED
      BY <2>1, <2>3, <2>4, <3>1, Numbers DEF Inv
  <2>5. CASE tick.at # "before"
    <3>1. /\ clock.seenCount => tick.now - clock.lastActive < Idle
          /\ ~clock.seenCount => tick.now <= history.activity
      BY <2>5 DEF Inv, RestInv
    <3> QED
      BY <2>1, <2>2, <2>3, <2>5, <3>1, Numbers DEF Inv
  <2> QED
    BY <2>4, <2>5
<1> QED
  BY InitInv, Inductive, <1>1, PTL DEF Spec

\* detectCrash's grace: for all knobs, a Session is torn down as crashed only if
\* no check has seen it healthy for CrashGrace.
THEOREM GraceIsHonoured == Spec => CrashHonoursGrace
<1>1. ASSUME Inv, Next, route = "live", route' = "crashed"
      PROVE  tick.now - history.seenWell >= CrashGrace
  <2>1. Visits
    BY <1>1 DEF Next, Elapse, Finished, vars, PlayRegisters, BootSucceeds, BootFails, HealthFlips,
                GuestRequests, TraefikRestart, TickBegins, TickEnds, Visits
  <2>2. Current.unhealthySince # Never /\ tick.now - Current.unhealthySince >= CrashGrace
    BY <1>1, <2>1, VisitInv DEF Visited
  <2>3. history.seenWell <= Current.unhealthySince /\ Current.unhealthySince \in Int
    BY <1>1, <2>2, Currents, Numbers DEF Inv, GraceInv
  <2> QED
    BY <1>1, <2>2, <2>3, Numbers, ReaperAssumption DEF Inv, TypeOK, Ticks, Time
<1>2. Inv /\ [Next]_vars => [route = "live" /\ route' = "crashed" =>
                              tick.now - history.seenWell >= CrashGrace]_vars
  BY <1>1
<1> QED
  BY InitInv, Inductive, <1>2, PTL DEF Spec, CrashHonoursGrace

\* The idle verdict: for all knobs, a Session is torn down as idle only if its
\* counter had rested for Idle, Traefik's restarts aside.
THEOREM IdleIsQuiet == Spec => IdleReapsQuiet
<1>1. ASSUME Inv, Next, route = "live", route' # "live", history'.why = "idle",
             "restart" \notin history.faults
      PROVE  tick.now - history.quietSince >= Idle
  <2>1. Visits
    BY <1>1 DEF Next, Elapse, Finished, vars, PlayRegisters, BootSucceeds, BootFails, HealthFlips,
                GuestRequests, TraefikRestart, TickBegins, TickEnds, Visits, Inv, FreshInv
  <2>2. tick.at = "before" /\ tick.state \notin Terminal
    BY <1>1, <2>1 DEF Visits, Visit, LingerBegins, LingerContinues, LingerExpires, ReapsMaxRuntime,
         SparesBooting, Crashes, ReapsIdle, SparesLive, Inv, LagInv, Terminal
  <2>3. /\ tick.state = "live" /\ tick.count # Never
        /\ Current.seenCount /\ tick.count = Current.lastCount
        /\ tick.now - Current.lastActive >= Idle
    BY <1>1, <2>1, <2>2, VisitInv DEF Visited
  <2>4. Current = clock
    BY <2>3, Currents, <1>1 DEF Inv
  <2>5. history.quietSince <= clock.lastActive
    BY <1>1, <2>2, <2>3, <2>4 DEF Inv, QuietInv
  <2>6. Idle \in Nat
    BY ReaperAssumption DEF Knobs
  <2> QED
    BY <1>1, <2>3, <2>4, <2>5, <2>6, Numbers DEF Inv
<1>2. Inv /\ [Next]_vars =>
        [route = "live" /\ route' # "live" /\ history'.why = "idle"
           => \/ tick.now - history.quietSince >= Idle
              \/ "restart" \in history.faults]_vars
  BY <1>1
<1> QED
  BY InitInv, Inductive, <1>2, PTL DEF Spec, IdleReapsQuiet

=============================================================================
