------------------------------- MODULE Images -------------------------------
(***************************************************************************)
(* Images from commits: builder.Builder's cache and sandbox, shared by the *)
(* publish builds of main's ProjectBuilder and by the plays that resolve   *)
(* through project.Source and builder.BuildingSource.  Owners push to the  *)
(* repositories meanwhile, and the process may restart.                    *)
(*                                                                         *)
(* Abstractions.  A commit is its number in its repository's history; a    *)
(* tag is the image name and the commit.  Of the ticks of the entries the   *)
(* model keeps their order: which name was used before which.  A deadline  *)
(* or cancelled context, an error of GitHub, of the Dockerfile or of       *)
(* docker are failures of the step they hit.  That a Project has one publish build at a time is the   *)
(* claim of Projects.  The manifest is fixed, and the sandbox's container  *)
(* of a process that died is left out.  MaxCommit bounds the pushes.       *)
(***************************************************************************)
EXTENDS Naturals, Sequences, FiniteSets

CONSTANTS
  Play, Publish,   \* the boots and the publish builds that may run at a time
  Services,        \* each Project's services, in manifest order
  RepoOf,          \* the repository of each <<project, service>>
  MaxCommit,
  Pushed,          \* the repositories that are pushed to
  MaxImages,       \* Builder.max
  Restarts         \* may the process restart?

Job == Play \union Publish
Project == DOMAIN Services
Name == UNION {{<<p, Services[p][i]>> : i \in DOMAIN Services[p]} : p \in Project}
Repo == {RepoOf[n] : n \in Name}
Commit == 1..MaxCommit
None == 0

ASSUME ImagesAssumption ==
  /\ Play \intersect Publish = {} /\ "none" \notin Job
  /\ IsFiniteSet(Name) /\ DOMAIN RepoOf = Name
  /\ \A p \in Project : /\ Len(Services[p]) \in Nat \ {0}   \* Validate wants one ui
                         /\ DOMAIN Services[p] = 1..Len(Services[p])
  /\ {MaxCommit, MaxImages} \subseteq Nat \ {0}   \* New raises max to 1
  /\ Pushed \subseteq Repo
  /\ Restarts \in BOOLEAN

VARIABLES
  head,     \* each repository's default-branch HEAD
  pinned,   \* each Project's row: published, commit_sha and service_commits
  job,      \* the goroutine of each build or play
  lock,     \* Builder.mu: its holder, or "none"
  cache,    \* the version cached under each image name
  recent,   \* the order of the entries' ticks: <<m, n>> when m's is below n's
  host,     \* the images in docker's store: <<name, commit>>
  box       \* the container of the sandboxed build

vars == <<head, pinned, job, lock, cache, recent, host, box>>

Commits == [Name -> Commit \union {None}]
NoCommits == [n \in Name |-> None]

Idle == [at |-> "idle", project |-> "none", step |-> 1, commit |-> None,
         commits |-> NoCommits, images |-> NoCommits, built |-> FALSE]

\* A row published before service_commits existed has a headline commit only.
Init ==
  /\ head = [r \in Repo |-> 1]
  /\ pinned \in [Project -> {[published |-> FALSE, commit |-> None, commits |-> NoCommits],
                             [published |-> TRUE, commit |-> 1, commits |-> NoCommits]}]
  /\ job = [j \in Job |-> Idle]
  /\ lock = "none"
  /\ cache = NoCommits
  /\ recent = {}
  /\ host = {}
  /\ box = "none"

-----------------------------------------------------------------------------
(* Where a job is. *)

\* The image name its loop over the services has come to.
At(j) == <<job[j].project, Services[job[j].project][job[j].step]>>

LastStep(j) == job[j].step = Len(Services[job[j].project])

\* Mutant: a service without its own commit is built at HEAD.
Wanted_Head(j) ==
  IF job[j].commits[At(j)] # None THEN job[j].commits[At(j)] ELSE head[RepoOf[At(j)]]

\* BuildingSource.Project and gitBuildSpec: the service's own commit, or the
\* Project's, or the default-branch HEAD.
Wanted(j) ==
  CASE job[j].commits[At(j)] # None -> job[j].commits[At(j)]
    [] job[j].commits[At(j)] = None /\ job[j].commit # None -> job[j].commit
    [] OTHER -> head[RepoOf[At(j)]]

Becomes(j, new) == job' = [job EXCEPT ![j] = new]
Goes(j, to) == Becomes(j, [job[j] EXCEPT !.at = to])

\* Build returned the tag of c: the next service, or what the images are for.
Returned(j, c) ==
  LET next == [job[j] EXCEPT !.images[At(j)] = c, !.built = FALSE] IN
  IF LastStep(j)
  THEN [next EXCEPT !.at = IF j \in Play THEN "up" ELSE "record", !.step = 1]
  ELSE [next EXCEPT !.at = "build", !.step = @ + 1]

-----------------------------------------------------------------------------
(* The jobs. *)

\* project.Source: the row's manifest and commits, in one read.
PlayReads(j) ==
  /\ j \in Play /\ job[j].at = "idle"
  /\ \E p \in Project :
       /\ pinned[p].published
       /\ Becomes(j, [Idle EXCEPT !.at = "build", !.project = p,
                      !.commit = pinned[p].commit, !.commits = pinned[p].commits])
  /\ UNCHANGED <<head, pinned, lock, cache, recent, host, box>>

\* docker compose up finds its images, or the boot fails.
PlayBoots(j) ==
  /\ job[j].at = "up" /\ j \in Play
  /\ Becomes(j, Idle)
  /\ UNCHANGED <<head, pinned, lock, cache, recent, host, box>>

PublishBegins(j) ==
  /\ j \in Publish /\ job[j].at = "idle"
  /\ \E p \in Project :
       /\ \A k \in Publish : job[k].project # p
       /\ Becomes(j, [Idle EXCEPT !.at = "resolve", !.project = p])
  /\ UNCHANGED <<head, pinned, lock, cache, recent, host, box>>

\* repoHEAD: the commit the services of the same repository got, or the HEAD.
Resolved(j) ==
  LET same == {n \in Name : n[1] = job[j].project /\ RepoOf[n] = RepoOf[At(j)]
                            /\ job[j].commits[n] # None}
  IN  IF same = {} THEN head[RepoOf[At(j)]]
      ELSE job[j].commits[CHOOSE n \in same : TRUE]

PublishResolves(j) ==
  /\ job[j].at = "resolve"
  /\ Becomes(j, [job[j] EXCEPT
                   !.commits[At(j)] = Resolved(j),
                   !.step = IF LastStep(j) THEN 1 ELSE @ + 1,
                   !.at = IF LastStep(j) THEN "build" ELSE "resolve"])
  /\ UNCHANGED <<head, pinned, lock, cache, recent, host, box>>

\* PublishProject: the headline is the first service's.
PublishRecords(j) ==
  /\ job[j].at = "record" /\ j \in Publish
  /\ pinned' = [pinned EXCEPT ![job[j].project] =
       [published |-> TRUE, commits |-> job[j].commits,
        commit |-> job[j].commits[At(j)]]]
  /\ Becomes(j, Idle)
  /\ UNCHANGED <<head, lock, cache, recent, host, box>>

\* Mutant: an early return without the unlock.
JobFails_KeepsLock(j) ==
  /\ job[j].at \in {"resolve", "clone", "failed", "record"}
  /\ Becomes(j, Idle)
  /\ UNCHANGED <<head, pinned, lock, cache, recent, host, box>>

\* A boot or a publish build fails where it may; a held lock is given back.
JobFails(j) ==
  /\ job[j].at \in {"resolve", "clone", "failed", "record"}
  /\ Becomes(j, Idle)
  /\ lock' = IF lock = j THEN "none" ELSE lock
  /\ UNCHANGED <<head, pinned, cache, recent, host, box>>

-----------------------------------------------------------------------------
(* Builder.Build, under its lock. *)

Cached == {m \in Name : cache[m] # None}

\* n gets the latest tick.
Touch(n) ==
  {used \in recent : used[1] # n /\ used[2] # n} \union {<<m, n>> : m \in Cached \ {n}}

CacheHit(j) ==
  /\ job[j].at = "build" /\ lock = "none"
  /\ cache[At(j)] = Wanted(j)
  /\ recent' = Touch(At(j))
  /\ Becomes(j, Returned(j, Wanted(j)))
  /\ UNCHANGED <<head, pinned, lock, cache, host, box>>

\* The version is fixed when the spec is made, before the wait for the lock
\* ends; Wanted depends on the HEAD only for a row that no code writes.
CacheMiss(j) ==
  /\ job[j].at = "build" /\ lock = "none"
  /\ cache[At(j)] # Wanted(j)
  /\ lock' = j
  /\ Goes(j, "clone")
  /\ UNCHANGED <<head, pinned, cache, recent, host, box>>

\* The clone, ensureNetwork, and docker run.
SandboxStarts(j) ==
  /\ job[j].at = "clone"
  /\ box' = "running"
  /\ Goes(j, "running")
  /\ UNCHANGED <<head, pinned, lock, cache, recent, host>>

\* The image is exported: docker load is next.
SandboxSucceeds(j) ==
  /\ job[j].at = "running" /\ box = "running"
  /\ box' = "exited"
  /\ Goes(j, "loading")
  /\ UNCHANGED <<head, pinned, lock, cache, recent, host>>

SandboxFails(j) ==
  /\ job[j].at = "running" /\ box = "running"
  /\ box' = "exited"
  /\ Goes(j, "removing")
  /\ UNCHANGED <<head, pinned, lock, cache, recent, host>>

\* The deadline kills the docker client; the container runs on.
SandboxTimesOut(j) ==
  /\ job[j].at = "running"
  /\ Goes(j, "removing")
  /\ UNCHANGED <<head, pinned, lock, cache, recent, host, box>>

Loads(j) ==
  /\ job[j].at = "loading"
  /\ \/ /\ host' = host \union {<<At(j), Wanted(j)>>}
        /\ Becomes(j, [job[j] EXCEPT !.at = "removing", !.built = TRUE])
     \/ /\ Goes(j, "removing")
        /\ UNCHANGED host
  /\ UNCHANGED <<head, pinned, lock, cache, recent, box>>

\* Mutants: a failed build is stored; only a build that ended is removed.
RemovesBox_Stores(j) ==
  /\ job[j].at = "removing"
  /\ box' = "none"
  /\ Goes(j, "storing")
  /\ UNCHANGED <<head, pinned, lock, cache, recent, host>>

RemovesBox_Exited(j) ==
  /\ job[j].at = "removing"
  /\ box' = IF box = "exited" THEN "none" ELSE box
  /\ Goes(j, IF job[j].built THEN "storing" ELSE "failed")
  /\ UNCHANGED <<head, pinned, lock, cache, recent, host>>

\* sandboxBuild's defer: docker rm -f, on a context of its own.
RemovesBox(j) ==
  /\ job[j].at = "removing"
  /\ box' = "none"
  /\ Goes(j, IF job[j].built THEN "storing" ELSE "failed")
  /\ UNCHANGED <<head, pinned, lock, cache, recent, host>>

\* Mutant: the newcomer is the coldest.
Order_Coldest(j) ==
  {used \in recent : used[1] # At(j) /\ used[2] # At(j)}
    \union {<<At(j), m>> : m \in Cached \ {At(j)}}

Order(j) == Touch(At(j))

Hotter(j, m) == {n \in Name : <<m, n>> \in Order(j)}

\* evict: the coldest, until the cache is within its cap.
Victims(j) == {m \in Cached \union {At(j)} : Cardinality(Hotter(j, m)) >= MaxImages}

\* The image of the name's previous version goes ("invalidated"), and those of
\* the evicted; removing is best effort.
Stores(j) ==
  LET n == At(j)
      gone == {<<m, cache[m]>> : m \in Victims(j) \ {n}} \union
              (IF cache[n] \notin {None, Wanted(j)} THEN {<<n, cache[n]>>} ELSE {})
              \union (IF n \in Victims(j) THEN {<<n, Wanted(j)>>} ELSE {})
  IN  /\ job[j].at = "storing"
      /\ cache' = [m \in Name |-> IF m \in Victims(j) THEN None
                                  ELSE IF m = n THEN Wanted(j) ELSE cache[m]]
      /\ recent' = {used \in Order(j) : used[1] \notin Victims(j)}
      /\ \E removed \in SUBSET gone : host' = host \ removed
      /\ lock' = "none"
      /\ Becomes(j, Returned(j, Wanted(j)))
      /\ UNCHANGED <<head, pinned, box>>

-----------------------------------------------------------------------------

\* An Owner pushes to a default branch.
Pushes(r) ==
  /\ head[r] < MaxCommit
  /\ head' = [head EXCEPT ![r] = @ + 1]
  /\ UNCHANGED <<pinned, job, lock, cache, recent, host, box>>

\* The cache is in memory; the images stay.
Restart ==
  /\ Restarts
  /\ job' = [j \in Job |-> Idle]
  /\ lock' = "none" /\ box' = "none"
  /\ cache' = NoCommits /\ recent' = {}
  /\ UNCHANGED <<head, pinned, host>>

Acquires(j) == CacheHit(j) \/ CacheMiss(j)

Works(j) ==
  \/ PlayBoots(j) \/ PublishResolves(j) \/ PublishRecords(j) \/ JobFails(j)
  \/ SandboxStarts(j) \/ SandboxSucceeds(j) \/ SandboxFails(j)
  \/ SandboxTimesOut(j) \/ Loads(j) \/ RemovesBox(j) \/ Stores(j)

Next ==
  \/ \E j \in Job : PlayReads(j) \/ PublishBegins(j) \/ Acquires(j) \/ Works(j)
  \/ \E r \in Pushed : Pushes(r)
  \/ Restart

Spec == Init /\ [][Next]_vars

\* Every goroutine runs on, every build ends by its deadline, and a sync.Mutex
\* hands itself to the one that waits.  Nobody has to play, publish or push.
FairSpec ==
  Spec /\ \A j \in Job : WF_vars(Works(j)) /\ SF_vars(Acquires(j))

-----------------------------------------------------------------------------
(* Properties *)

\* A strict order of S that ranks any two of its elements.
Ranks(r, S) ==
  /\ r \subseteq S \X S
  /\ \A m, n \in S : <<m, n>> \in r <=> m # n /\ <<n, m>> \notin r
  /\ \A l, m, n \in S : <<l, m>> \in r /\ <<m, n>> \in r => <<l, n>> \in r

\* A hit returns the tag "without touching docker": whatever was invalidated,
\* evicted, failed or timed out before, the image of every entry is there.
\* And whatever was touched and dropped, the ticks rank all the entries, and
\* nothing else: what evict takes for the coldest is.
CachedIsOnHost ==
  /\ \A n \in Cached : <<n, cache[n]>> \in host
  /\ Ranks(recent, Cached)

\* When Build gives its lock back, the image it just built is in the cache and
\* the cache within its cap: making room never costs the newcomer.
NewcomerStays ==
  [][\A j \in Job : lock = j /\ lock' = "none" /\ job[j].at = "storing" =>
       /\ cache'[At(j)] = job'[j].images[At(j)]
       /\ Cardinality(Cached') <= MaxImages]_vars

\* A build the lock's next holder could trip over is gone: the deadline that
\* kills the docker client ends the container too.
NoBuildOutlivesLock == lock = "none" => box = "none"

\* One repository, one commit, although rows change, HEADs move and other builds
\* run meanwhile: in what a publish pins, and in every Stack that comes up.
NoMixedRevisions ==
  \A m, n \in Name : m[1] = n[1] /\ RepoOf[m] = RepoOf[n] =>
    /\ pinned[m[1]].commits[m] = pinned[m[1]].commits[n]
    /\ \A j \in Play : job[j].at = "up" /\ job[j].project = m[1]
                       => job[j].images[m] = job[j].images[n]

\* Nobody waits for the lock, for a build or for GitHub for ever.
JobsEnd == \A j \in Job : job[j].at = "build" ~> job[j].at # "build"

\* A play of a version whose publish built every image does not build.
GuestsNeverBuild ==
  [][\A j \in Play : job[j].at = "build" /\ job'[j].at = "clone" =>
       \/ job[j].commits # pinned[job[j].project].commits
       \/ job[j].commits[At(j)] = None]_vars
=============================================================================
