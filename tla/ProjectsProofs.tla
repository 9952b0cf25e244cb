--------------------------- MODULE ProjectsProofs ---------------------------
(***************************************************************************)
(* Theorems about Projects.  TypeCorrect and VersionKept hold whatever     *)
(* fails and whatever the Owner edits.  The others say what still holds    *)
(* while the history is calm: edits have met no Publish in flight, the     *)
(* Builder's lock was not waited for beyond the sweep's window, and the    *)
(* database answered the Publisher.  Their inductive invariant is CalmInv: *)
(* whatever is in flight read the manifest in the row, and the running     *)
(* build is the one that the row tells of, with the sweep's window open.   *)
(***************************************************************************)
EXTENDS Projects, TLAPS

\* What a running build may rely on.
RowTellsOfBuild ==
  \A p \in Publish :
    Running(p) => buildState = "building" /\ started = p /\ ~overdue

BuildsTheRow == \A p \in Publish : pc[p] \in Pending => built[p] = manifest

CalmInv ==
  /\ TypeOK
  /\ calm => BuildsTheRow /\ RowTellsOfBuild
  /\ ReportedBuildIsPinned
  /\ PublishedMatchesManifest

-----------------------------------------------------------------------------
\* The types, that a published row has its commits, and that a building row has
\* its time stamp: every statement of store.Store keeps them.
LEMMA TypeInit == Init => TypeOK
BY ProjectsAssumption
   DEF Init, TypeOK, BuildState, PublishPc

LEMMA TypeStep == TypeOK /\ [Next]_vars => TypeOK'
<1> SUFFICES ASSUME TypeOK, [Next]_vars PROVE TypeOK'
  OBVIOUS
<1> USE ProjectsAssumption DEF TypeOK, BuildState, PublishPc, row
<1>1. ASSUME NEW p \in Publish, PublishReads(p) PROVE TypeOK'
  BY <1>1 DEF PublishReads, PublishGoes
<1>2. ASSUME NEW p \in Publish, PublishRejected(p) PROVE TypeOK'
  BY <1>2 DEF PublishRejected, PublishGoes
<1>3. ASSUME NEW p \in Publish, PublishLaunches(p) PROVE TypeOK'
  BY <1>3 DEF PublishLaunches, PublishGoes, StartBuild
<1>4. ASSUME NEW p \in Publish, PublishStranded(p) PROVE TypeOK'
  BY <1>4 DEF PublishStranded, PublishGoes, StartBuild
<1>5. ASSUME NEW p \in Publish, BuildStep(p) PROVE TypeOK'
  <2>1. CASE BuildSucceeds(p)
    BY <2>1 DEF BuildSucceeds, PublishGoes
  <2>2. CASE BuildFails(p)
    BY <2>2 DEF BuildFails, PublishGoes
  <2>3. CASE RecordsPublish(p)
    BY <2>3 DEF RecordsPublish, PublishGoes, PublishProject
  <2>4. CASE RecordFails(p)
    <3>1. CASE PublishProject(p)
      BY <2>4, <3>1 DEF RecordFails, PublishGoes, PublishProject
    <3>2. CASE UNCHANGED row
      BY <2>4, <3>2 DEF RecordFails, PublishGoes
    <3> QED BY <2>4, <3>1, <3>2 DEF RecordFails
  <2>5. CASE MarksFailed(p)
    BY <2>5 DEF MarksFailed, PublishGoes, MarkBuildFailed
  <2>6. CASE MarkFails(p)
    BY <2>6 DEF MarkFails, PublishGoes
  <2> QED BY <1>5, <2>1, <2>2, <2>3, <2>4, <2>5, <2>6 DEF BuildStep
<1>6. ASSUME NEW m \in Manifest, Edits(m) PROVE TypeOK'
  BY <1>6 DEF Edits, UpdateProject
<1>7. CASE WindowPasses
  BY <1>7 DEF WindowPasses
<1>8. CASE Sweeps
  BY <1>8 DEF Sweeps, ReclaimStuckBuilds
<1>9. CASE ServerCloses \/ BuildsCancelled \/ Restarts
  BY <1>9 DEF ServerCloses, BuildsCancelled, Restarts, ServerGoes
<1>10. CASE Stops
  BY <1>10 DEF Stops
<1>11. CASE UNCHANGED vars
  BY <1>11 DEF vars
<1> QED
  BY <1>1, <1>2, <1>3, <1>4, <1>5, <1>6, <1>7, <1>8, <1>9, <1>10, <1>11 DEF Next

\* Whatever fails and whatever is edited: a published Project has its commits,
\* and a building one the time stamp the recovery sweep needs.
THEOREM TypeCorrect == Spec => []TypeOK
<1>1. QED BY TypeInit, TypeStep, PTL DEF Spec

-----------------------------------------------------------------------------
\* Only a statement of Update, or the PublishProject of a build that succeeded,
\* changes what Guests play.
LEMMA VersionStep ==
  [Next]_vars =>
    (<<published, pinned>>' # <<published, pinned>> =>
       \/ manifest' # manifest
       \/ published' /\ pinned' \in Publish /\ pc[pinned'] = "record")
<1> SUFFICES ASSUME [Next]_vars, <<published, pinned>>' # <<published, pinned>>
             PROVE  \/ manifest' # manifest
                    \/ published' /\ pinned' \in Publish /\ pc[pinned'] = "record"
  OBVIOUS
<1>1. ASSUME NEW p \in Publish, RecordsPublish(p) \/ RecordFails(p)
      PROVE  published' /\ pinned' \in Publish /\ pc[pinned'] = "record"
  BY <1>1 DEF RecordsPublish, RecordFails, PublishGoes, PublishProject, row
<1>2. ASSUME NEW m \in Manifest, Edits(m) PROVE manifest' # manifest
  BY <1>2 DEF Edits, UpdateProject
<1>3. ASSUME NEW p \in Publish,
             PublishReads(p) \/ PublishRejected(p) \/ PublishLaunches(p) \/ PublishStranded(p)
      PROVE  FALSE
  BY <1>3 DEF PublishReads, PublishRejected, PublishLaunches, PublishStranded,
              StartBuild, row
<1>4. ASSUME NEW p \in Publish,
             BuildSucceeds(p) \/ BuildFails(p) \/ MarksFailed(p) \/ MarkFails(p)
      PROVE  FALSE
  BY <1>4 DEF BuildSucceeds, BuildFails, MarksFailed, MarkFails, MarkBuildFailed, row
<1>5. ASSUME WindowPasses \/ Sweeps PROVE FALSE
  BY <1>5 DEF WindowPasses, Sweeps, ReclaimStuckBuilds
<1>6. ASSUME ServerCloses \/ BuildsCancelled \/ Stops \/ Restarts PROVE FALSE
  BY <1>6 DEF ServerCloses, BuildsCancelled, Stops, Restarts, ServerGoes, row
<1>7. ASSUME UNCHANGED vars PROVE FALSE
  BY <1>7 DEF vars
<1> QED
  BY <1>1, <1>2, <1>3, <1>4, <1>5, <1>6, <1>7 DEF Next, BuildStep

\* A failed, cancelled, stranded or reclaimed build never changes whether, or at
\* which commits, Guests play the Project.
THEOREM VersionKept == Spec => GuestsKeepTheirVersion
<1>1. [Next]_vars =>
        [<<published, pinned>>' # <<published, pinned>> =>
           \/ manifest' # manifest
           \/ published' /\ pinned' \in Publish /\ pc[pinned'] = "record"]_vars
  BY VersionStep
<1> QED BY <1>1, PTL DEF Spec, GuestsKeepTheirVersion

-----------------------------------------------------------------------------
LEMMA CalmInit == Init => CalmInv
<1>1. Init => BuildsTheRow /\ RowTellsOfBuild
  BY DEF Init, BuildsTheRow, RowTellsOfBuild, Running, InFlight, Pending
<1>2. Init => ReportedBuildIsPinned /\ PublishedMatchesManifest
  BY DEF Init, ReportedBuildIsPinned, PublishedMatchesManifest
<1> QED BY <1>1, <1>2, TypeInit DEF CalmInv

LEMMA CalmStep == CalmInv /\ [Next]_vars => CalmInv'
<1> SUFFICES ASSUME CalmInv, [Next]_vars PROVE CalmInv'
  OBVIOUS
<1>0. TypeOK'
  BY TypeStep DEF CalmInv
<1> SUFFICES ASSUME calm'
             PROVE  (BuildsTheRow /\ RowTellsOfBuild /\ ReportedBuildIsPinned
                      /\ PublishedMatchesManifest)'
  BY <1>0 DEF CalmInv, ReportedBuildIsPinned, PublishedMatchesManifest
<1> DEFINE Kept == (BuildsTheRow /\ RowTellsOfBuild /\ ReportedBuildIsPinned
                     /\ PublishedMatchesManifest)'
<1>c. calm
  BY DEF CalmInv, TypeOK, Next, BuildStep, PublishReads, PublishRejected, PublishLaunches,
         PublishStranded, BuildSucceeds, BuildFails, RecordsPublish, RecordFails, MarksFailed,
         MarkFails, Edits, WindowPasses, Sweeps, ServerCloses, BuildsCancelled, Stops, Restarts,
         ServerGoes, vars
<1> USE <1>c, ProjectsAssumption
    DEF CalmInv, TypeOK, BuildState, PublishPc, InFlight, Pending, Running, row,
        BuildsTheRow, RowTellsOfBuild, ReportedBuildIsPinned, PublishedMatchesManifest
<1>1. ASSUME NEW p \in Publish, PublishReads(p) PROVE Kept
  BY <1>0, <1>1 DEF PublishReads, PublishGoes
<1>2. ASSUME NEW p \in Publish, PublishRejected(p) PROVE Kept
  BY <1>0, <1>2 DEF PublishRejected, PublishGoes
<1>3. ASSUME NEW p \in Publish, PublishLaunches(p) PROVE Kept
  <2>1. \A q \in Publish : ~Running(q)
    BY <1>3 DEF PublishLaunches, StartBuild
  <2>2. \A q \in Publish : Running(q)' => q = p
    BY <1>3, <2>1 DEF PublishLaunches, PublishGoes
  <2> QED BY <1>0, <1>3, <2>2 DEF PublishLaunches, PublishGoes, StartBuild
<1>4. ASSUME NEW p \in Publish, PublishStranded(p) PROVE Kept
  <2>1. \A q \in Publish : ~Running(q)
    BY <1>4 DEF PublishStranded, StartBuild
  <2>2. \A q \in Publish : ~Running(q)'
    BY <1>4, <2>1 DEF PublishStranded, PublishGoes
  <2> QED BY <1>0, <1>4, <2>2 DEF PublishStranded, PublishGoes, StartBuild
<1>5. ASSUME NEW p \in Publish, BuildStep(p) PROVE Kept
  <2>1. CASE BuildSucceeds(p)
    BY <1>0, <2>1 DEF BuildSucceeds, PublishGoes
  <2>2. CASE BuildFails(p)
    BY <1>0, <2>2 DEF BuildFails, PublishGoes
  <2>3. CASE RecordsPublish(p)
    <3>1. started = p /\ \A q \in Publish : ~Running(q)'
      BY <2>3 DEF RecordsPublish, PublishGoes
    <3> QED BY <1>0, <2>3, <3>1 DEF RecordsPublish, PublishGoes, PublishProject
  <2>4. CASE MarksFailed(p)
    <3>1. \A q \in Publish : ~Running(q)'
      BY <2>4 DEF MarksFailed, PublishGoes
    <3> QED BY <1>0, <2>4, <3>1 DEF MarksFailed, PublishGoes, MarkBuildFailed
  <2>5. CASE RecordFails(p) \/ MarkFails(p)
    BY <2>5 DEF RecordFails, MarkFails
  <2> QED BY <1>5, <2>1, <2>2, <2>3, <2>4, <2>5 DEF BuildStep
<1>6. ASSUME NEW m \in Manifest, Edits(m) PROVE Kept
  BY <1>0, <1>6 DEF Edits, UpdateProject
<1>7. CASE WindowPasses
  <2>1. ~Running(started)
    <3> SUFFICES ASSUME Running(started) PROVE FALSE
      OBVIOUS
    <3>1. built[started] = manifest /\ manifest \in Nat
      OBVIOUS
    <3> QED BY <1>7, <3>1 DEF WindowPasses, Outsized, Bound
  <2>2. \A q \in Publish : ~Running(q)'
    BY <1>7, <2>1 DEF WindowPasses
  <2> QED BY <1>0, <1>7, <2>2 DEF WindowPasses
<1>8. CASE Sweeps
  <2>1. \A q \in Publish : ~Running(q)'
    BY <1>8 DEF Sweeps, ReclaimStuckBuilds
  <2> QED BY <1>0, <1>8, <2>1 DEF Sweeps, ReclaimStuckBuilds
<1>9. CASE ServerCloses \/ BuildsCancelled \/ Restarts
  BY <1>0, <1>9 DEF ServerCloses, BuildsCancelled, Restarts, ServerGoes
<1>10. CASE Stops
  BY <1>0, <1>10 DEF Stops
<1>11. CASE UNCHANGED vars
  BY <1>0, <1>11 DEF vars
<1> QED
  BY <1>1, <1>2, <1>3, <1>4, <1>5, <1>6, <1>7, <1>8, <1>9, <1>10, <1>11 DEF Next

\* Until an edit, a failed write or a long queue meets a build, at most one
\* build of the Project is in flight: StartBuild's guard is enough.
THEOREM BuildsAreExclusive == Spec => []OneBuildAtATime
<1>1. CalmInv => OneBuildAtATime
  BY DEF CalmInv, RowTellsOfBuild, OneBuildAtATime
<1> QED BY CalmInit, CalmStep, <1>1, PTL DEF Spec

\* ... the build the Owner sees as "published" is the one Guests play.
THEOREM ReportIsTrue == Spec => []ReportedBuildIsPinned
<1>1. CalmInv => ReportedBuildIsPinned
  BY DEF CalmInv
<1> QED BY CalmInit, CalmStep, <1>1, PTL DEF Spec

\* ... what Guests play was built from the manifest in the row.
THEOREM ManifestIsPlayed == Spec => []PublishedMatchesManifest
<1>1. CalmInv => PublishedMatchesManifest
  BY DEF CalmInv
<1> QED BY CalmInit, CalmStep, <1>1, PTL DEF Spec

\* ... and the recovery sweep never reclaims a build that is still running.
THEOREM SweepSparesLiveBuilds == Spec => LiveBuildNotReclaimed
<1>1. CalmInv => [calm /\ Sweeps => ~Running(started)]_vars
  BY DEF CalmInv, RowTellsOfBuild, Running, Sweeps, ReclaimStuckBuilds
<1> QED BY CalmInit, CalmStep, <1>1, PTL DEF Spec, LiveBuildNotReclaimed
=============================================================================
