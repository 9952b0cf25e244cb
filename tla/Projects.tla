------------------------------ MODULE Projects ------------------------------
(***************************************************************************)
(* Publishing a Project: the HTTP handlers project.Handlers (Publish and   *)
(* Update), the goroutines of project.Publisher (build and the recovery    *)
(* sweep), and the SQL statements of store.Store they run on the row of    *)
(* one Project.  Every statement is atomic; between two of them anything   *)
(* else may run.                                                           *)
(*                                                                         *)
(* Abstractions.  A manifest is known by the number of its services.  A    *)
(* pinned commit is known by the Publish that built it, and the time stamp *)
(* build_started_at by the Publish whose StartBuild wrote it.  Name, slug  *)
(* and build_error are left out, and so is a rename, which changes nothing *)
(* else.                                                                   *)
(***************************************************************************)
EXTENDS Naturals, FiniteSets

CONSTANTS
  Publish,      \* the publish requests the Owner may send
  Manifest,     \* the manifests the Owner edits the Project to
  Grace,        \* BUILD_REAP_GRACE, in units of BUILD_TIMEOUT
  LongQueues,   \* may a build wait for the Builder's lock beyond its bound?
  DbFails       \* may a statement of the Publisher fail?

ASSUME ProjectsAssumption ==
  /\ "none" \notin Publish
  /\ Manifest \subseteq Nat \ {0} /\ Manifest # {}
  /\ Grace \in Nat
  /\ LongQueues \in BOOLEAN
  /\ DbFails \in BOOLEAN

VARIABLES
  manifest,    \* the row: projects.manifest
  published,   \* projects.published, what lets a Guest play the Project
  pinned,      \* commit_sha and service_commits: the Publish that built them
  buildState,  \* projects.build_state
  started,     \* build_started_at: the Publish that wrote it
  overdue,     \* has the sweep's window on that time stamp passed?
  pc,          \* where each publish request, then its build, is
  built,       \* the manifest each Publish has read
  server,      \* the process: "up", "closing", "cancelled" or "down"
  calm         \* history: no edit met a Publish in flight, no statement of the
               \* Publisher failed, no build waited for the lock too long

row  == <<manifest, published, pinned, buildState, started, overdue>>
vars == <<manifest, published, pinned, buildState, started, overdue, pc, built, server,
          calm>>

BuildState == {"idle", "building", "failed", "published"}
PublishPc  == {"unsent", "read", "building", "record", "mark", "done"}
InFlight   == {"building", "record", "mark"}   \* Publisher.inflight
Pending    == InFlight \union {"read"}          \* holds a manifest it will build

Init ==
  /\ manifest \in Manifest
  /\ published = FALSE
  /\ pinned = "none"
  /\ buildState = "idle"
  /\ started = "none"
  /\ overdue = FALSE
  /\ pc = [p \in Publish |-> "unsent"]
  /\ built = [p \in Publish |-> 0]
  /\ server = "up"
  /\ calm = TRUE

PublishGoes(p, from, to) ==
  /\ pc[p] = from
  /\ pc' = [pc EXCEPT ![p] = to]
  /\ UNCHANGED server

-----------------------------------------------------------------------------
(* The statements of store.Store on the row. *)

\* Mutant: the guard on build_state is dropped.
StartBuild_Unguarded(p) ==
  /\ buildState' = "building"
  /\ started' = p
  /\ overdue' = FALSE
  /\ UNCHANGED <<manifest, published, pinned>>

StartBuild(p) ==
  /\ buildState # "building"
  /\ buildState' = "building"
  /\ started' = p
  /\ overdue' = FALSE
  /\ UNCHANGED <<manifest, published, pinned>>

PublishProject(p) ==
  /\ published' = TRUE
  /\ buildState' = "published"
  /\ pinned' = p
  /\ UNCHANGED <<manifest, started, overdue>>

\* Mutant: a failed build takes the Project off the Portfolio.
MarkBuildFailed_Unpublishes ==
  /\ buildState' = "failed"
  /\ published' = FALSE
  /\ UNCHANGED <<manifest, pinned, started, overdue>>

MarkBuildFailed ==
  /\ buildState' = "failed"
  /\ UNCHANGED <<manifest, published, pinned, started, overdue>>

\* Mutant: an edit leaves the Project published.
UpdateProject_KeepsPublished(m) ==
  /\ m # manifest
  /\ manifest' = m
  /\ buildState' = "idle"
  /\ UNCHANGED <<published, pinned, started, overdue>>

UpdateProject(m) ==
  /\ m # manifest
  /\ manifest' = m
  /\ published' = FALSE
  /\ pinned' = "none"
  /\ buildState' = "idle"
  /\ UNCHANGED <<started, overdue>>

\* Mutants: the sweep does not look at build_started_at, or passes over a
\* Project that is published.
ReclaimStuckBuilds_Eager ==
  /\ buildState = "building" /\ started # "none"
  /\ buildState' = "failed"
  /\ UNCHANGED <<manifest, published, pinned, started, overdue>>

ReclaimStuckBuilds_Unpublished ==
  /\ buildState = "building" /\ started # "none"
  /\ overdue /\ ~published
  /\ buildState' = "failed"
  /\ UNCHANGED <<manifest, published, pinned, started, overdue>>

ReclaimStuckBuilds ==
  /\ buildState = "building" /\ started # "none"
  /\ overdue
  /\ buildState' = "failed"
  /\ UNCHANGED <<manifest, published, pinned, started, overdue>>

-----------------------------------------------------------------------------
(* Handlers.Publish *)

\* GetOwnerProject; the repositories' access checks go to GitHub after it.
PublishReads(p) ==
  /\ server = "up"
  /\ PublishGoes(p, "unsent", "read")
  /\ built' = [built EXCEPT ![p] = manifest]
  /\ UNCHANGED <<row, calm>>

\* 422 or an internal error, or a 409 when a build is in flight already.
PublishRejected(p) ==
  /\ PublishGoes(p, "read", "done")
  /\ UNCHANGED <<row, built, calm>>

\* StartBuild and Publisher.Start.
PublishLaunches(p) ==
  /\ PublishGoes(p, "read", "building")
  /\ StartBuild(p)
  /\ UNCHANGED <<built, calm>>

\* The request's context ends while StartBuild runs: the row has changed, the
\* handler sees an error and launches nothing.
PublishStranded(p) ==
  /\ PublishGoes(p, "read", "done")
  /\ StartBuild(p)
  /\ UNCHANGED <<built, calm>>

-----------------------------------------------------------------------------
(* Publisher.build *)

BuildSucceeds(p) ==
  /\ PublishGoes(p, "building", "record")
  /\ UNCHANGED <<row, built, calm>>

\* A build that Shutdown cancelled leaves the row to the recovery sweep.
BuildFails(p) ==
  /\ PublishGoes(p, "building", IF server = "cancelled" THEN "done" ELSE "mark")
  /\ UNCHANGED <<row, built, calm>>

RecordsPublish(p) ==
  /\ PublishGoes(p, "record", "done")
  /\ PublishProject(p)
  /\ UNCHANGED <<built, calm>>

\* The connection can be lost before or after the statement took effect.
RecordFails(p) ==
  /\ DbFails
  /\ PublishGoes(p, "record", "mark")
  /\ PublishProject(p) \/ UNCHANGED row
  /\ calm' = FALSE
  /\ UNCHANGED built

MarksFailed(p) ==
  /\ PublishGoes(p, "mark", "done")
  /\ MarkBuildFailed
  /\ UNCHANGED <<built, calm>>

MarkFails(p) ==
  /\ DbFails
  /\ PublishGoes(p, "mark", "done")
  /\ calm' = FALSE
  /\ UNCHANGED <<row, built>>

-----------------------------------------------------------------------------
(* Handlers.Update, the recovery sweep, and time. *)

Edits(m) ==
  /\ server = "up"
  /\ UpdateProject(m)
  /\ calm' = (calm /\ \A p \in Publish : pc[p] \notin Pending)
  /\ UNCHANGED <<pc, built, server>>

\* The bound of a whole build, in units of BUILD_TIMEOUT.
Bound(m) == m + 1

Running(p) == p \in Publish /\ pc[p] \in InFlight

\* A build of p may take longer than the sweep allows the manifest in the row.
Outsized(p) == Bound(built[p]) > Bound(manifest) + Grace

\* now() passes build_started_at plus the window of the manifest in the row.
\* A build that is still running by then was made from a longer manifest, or
\* has waited for the Builder's lock.
WindowPasses ==
  /\ buildState = "building" /\ ~overdue
  /\ Running(started) => LongQueues \/ Outsized(started)
  /\ overdue' = TRUE
  /\ calm' = (calm /\ (Running(started) => Outsized(started)))
  /\ UNCHANGED <<manifest, published, pinned, buildState, started, pc, built, server>>

Sweeps ==
  /\ server # "down"
  /\ ReclaimStuckBuilds
  /\ UNCHANGED <<pc, built, server, calm>>

-----------------------------------------------------------------------------
(* main.run's shutdown, and the process's death *)

ServerGoes(from, to) ==
  /\ server = from
  /\ server' = to
  /\ UNCHANGED <<row, built, calm>>

ServerCloses == ServerGoes("up", "closing") /\ UNCHANGED pc

\* srv.Shutdown has waited for the handlers; Publisher.Shutdown cancels baseCtx.
BuildsCancelled ==
  /\ \A p \in Publish : pc[p] # "read"
  /\ ServerGoes("closing", "cancelled")
  /\ UNCHANGED pc

\* A crash, a failed srv.Shutdown, or the end of the drain (complete or not):
\* whatever is still in flight is gone.
Stops ==
  /\ server # "down"
  /\ server' = "down"
  /\ pc' = [p \in Publish |-> IF pc[p] = "unsent" THEN "unsent" ELSE "done"]
  /\ UNCHANGED <<row, built, calm>>

Restarts == ServerGoes("down", "up") /\ UNCHANGED pc

BuildStep(p) ==
  \/ BuildSucceeds(p) \/ BuildFails(p) \/ RecordsPublish(p) \/ RecordFails(p)
  \/ MarksFailed(p) \/ MarkFails(p)

Next ==
  \/ \E p \in Publish : \/ PublishReads(p) \/ PublishRejected(p)
                        \/ PublishLaunches(p) \/ PublishStranded(p) \/ BuildStep(p)
  \/ \E m \in Manifest : Edits(m)
  \/ WindowPasses \/ Sweeps
  \/ ServerCloses \/ BuildsCancelled \/ Stops \/ Restarts

Spec == Init /\ [][Next]_vars

-----------------------------------------------------------------------------
(* Properties *)

\* The types, and what every statement keeps of the row: a published Project
\* has its commits, and a building one its time stamp.
TypeOK ==
  /\ published <=> pinned # "none"
  /\ buildState = "building" => started # "none"
  /\ manifest \in Manifest
  /\ published \in BOOLEAN
  /\ pinned \in Publish \union {"none"}
  /\ buildState \in BuildState
  /\ started \in Publish \union {"none"}
  /\ overdue \in BOOLEAN
  /\ pc \in [Publish -> PublishPc]
  /\ built \in [Publish -> Manifest \union {0}]
  /\ server \in {"up", "closing", "cancelled", "down"}
  /\ calm \in BOOLEAN

\* Publish's comment on StartBuild: "only one build of a Project runs at a time".
\* Its guard on build_state is enough as long as the row stays that of the build:
\* an edit, or a failed write, sets build_state back under a running build.
OneBuildAtATime ==
  calm => \A p, q \in Publish : Running(p) /\ Running(q) => p = q

\* What the Owner is told is what Guests get: under the same condition a Project
\* whose last build "succeeded" is published, at the commit of the build that
\* was started last.
ReportedBuildIsPinned ==
  calm /\ buildState = "published" => published /\ pinned = started

\* UpdateProject's comment: "a stale build can never outlive an edited run
\* contract": what Guests play was built from the manifest in the row.  The code
\* keeps this only for edits that meet no Publish in flight.
PublishedMatchesManifest == calm /\ published => built[pinned] = manifest

\* What Guests play changes only when the Owner edits the Project or a build of
\* it has succeeded: a failed, cancelled or reclaimed build changes nothing.
GuestsKeepTheirVersion ==
  [][<<published, pinned>>' # <<published, pinned>> =>
       \/ manifest' # manifest
       \/ published' /\ pinned' \in Publish /\ pc[pinned'] = "record"]_vars

\* ReclaimStuckBuilds' comment: "a live build is never reclaimed no matter how
\* many services it declares".
LiveBuildNotReclaimed == [][calm /\ Sweeps => ~Running(started)]_vars

-----------------------------------------------------------------------------
(* Fairness: goroutines go on, time passes, the process is restarted, and the *)
(* sweep runs.  Sweeps competes with Stops: a process that is always killed   *)
(* before its startup sweep would recover nothing.                            *)
Fairness ==
  /\ \A p \in Publish : WF_vars(BuildStep(p))
  /\ WF_vars(WindowPasses) /\ SF_vars(Sweeps) /\ WF_vars(Restarts)

FairSpec == Spec /\ Fairness

\* No build is reported "in progress" for ever, whatever fails: the Owner can
\* always publish again.
BuildsSettle == buildState = "building" ~> buildState # "building"
=============================================================================
