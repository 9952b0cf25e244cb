-------------------------- MODULE SessionLifecycle --------------------------
(***************************************************************************)
(* What the control plane promises about the life of a Session (ADR-0006), *)
(* whatever goroutines, locks and docker commands carry it out: it boots   *)
(* into a slot, it is live or gives its slot up, a failed boot and a crash *)
(* each end on a page of their own, every page goes away, and nothing that *)
(* has ended comes back.  Only booting and live Sessions hold a slot.      *)
(***************************************************************************)
EXTENDS Naturals, FiniteSets

CONSTANTS Session, MaxSessions

VARIABLE life

Lives == {"unborn", "booting", "live", "aborting", "collapsing",
          "failed", "crashed", "gone"}

SlotHolders == {s \in Session : life[s] \in {"booting", "live"}}

Init == life = [s \in Session |-> "unborn"]

Becomes(s, from, to) == life[s] \in from /\ life' = [life EXCEPT ![s] = to]

Admit(s) ==
  /\ MaxSessions > 0 => Cardinality(SlotHolders) < MaxSessions
  /\ Becomes(s, {"unborn"}, "booting")

Serve(s)    == Becomes(s, {"booting"}, "live")
Abort(s)    == Becomes(s, {"booting"}, "aborting")
Collapse(s) == Becomes(s, {"live"}, "collapsing")
Reap(s)     == Becomes(s, {"live"}, "gone")

\* The failure page of a boot that did not come up, or none in a shutdown.
Judge(s) == Becomes(s, {"aborting"}, "failed") \/ Becomes(s, {"aborting"}, "gone")

ShowCrash(s) == Becomes(s, {"collapsing"}, "crashed")
Forget(s)    == Becomes(s, {"failed", "crashed"}, "gone")

Next ==
  \E s \in Session :
    \/ Admit(s) \/ Serve(s) \/ Abort(s) \/ Collapse(s)
    \/ Reap(s) \/ Judge(s) \/ ShowCrash(s) \/ Forget(s)

Spec == Init /\ [][Next]_life
=============================================================================
