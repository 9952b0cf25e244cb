---------------------------- MODULE ImagesProofs ----------------------------
(* What TLAPS proves about Images for any jobs, manifests, repositories and  *)
(* caps of the cache.                                                        *)
(*                                                                           *)
(* Every job is in one of the states GoodJob allows; the lock belongs to the *)
(* one job that is between the miss and the unlock; a container that runs is *)
(* that job's; and what it has loaded stays in docker's store, because only  *)
(* the holder of the lock removes images.                                    *)
EXTENDS Images, FiniteSetTheorems, WellFoundedInduction, TLAPS

-----------------------------------------------------------------------------
(* The invariant *)

Holding == {"clone", "running", "loading", "removing", "storing", "failed"}
Steps   == Holding \union {"idle", "resolve", "build", "record", "up"}

JobType ==
  [at : Steps, project : Project \union {"none"}, step : Nat \ {0},
   commit : Commit \union {None}, commits : Commits, images : Commits, built : BOOLEAN]

RowType == [published : BOOLEAN, commit : Commit \union {None}, commits : Commits]

TypeOK ==
  /\ head \in [Repo -> Commit]
  /\ pinned \in [Project -> RowType]
  /\ job \in [Job -> JobType]
  /\ lock \in Job \union {"none"}
  /\ cache \in Commits
  /\ host \subseteq Name \X Commit
  /\ box \in {"none", "running", "exited"}

NameOf(p, i) == <<p, Services[p][i]>>
NameAt(r) == NameOf(r.project, r.step)

\* The commit that the job builds n at, once it has read or resolved it.
Pin(r, n) == IF r.commits[n] # None THEN r.commits[n] ELSE r.commit

\* One repository, one commit: of all names of p, or of those resolved so far.
Agree(p, commits) ==
  \A m, n \in Name : m[1] = p /\ n[1] = p /\ RepoOf[m] = RepoOf[n] => commits[m] = commits[n]

AgreeSoFar(p, commits) ==
  \A m, n \in Name :
    /\ m[1] = p /\ n[1] = p /\ RepoOf[m] = RepoOf[n]
    /\ commits[m] # None /\ commits[n] # None
    => commits[m] = commits[n]

Complete(r) == \A n \in Name : n[1] = r.project => r.commits[n] # None

Begun(r)  == r.at # "idle"
Pinned(r) == r.at \notin {"idle", "resolve"}

GoodJob(j, r) ==
  /\ r \in JobType
  /\ Begun(r) => r.project \in Project /\ r.step \in 1..Len(Services[r.project])
  /\ r.at = "resolve" =>
       /\ AgreeSoFar(r.project, r.commits)
       /\ \A i \in 1..(r.step - 1) : r.commits[NameOf(r.project, i)] # None
  /\ Pinned(r) =>
       /\ Agree(r.project, r.commits)
       /\ r.commit # None \/ Complete(r)
       /\ j \in Publish => Complete(r)
       /\ \A i \in 1..(r.step - 1) :
            LET n == NameOf(r.project, i) IN r.images[n] = Pin(r, n)
  /\ r.at = "up" => \A n \in Name : n[1] = r.project => r.images[n] = Pin(r, n)
  /\ r.at = "record" => j \in Publish
  /\ r.built => r.at \in {"removing", "storing"}
  /\ r.at = "storing" => r.built

JobsInv == \A j \in Job : GoodJob(j, job[j])

\* A row that is published names a commit, and pins each repository once.
RowsInv ==
  \A p \in Project : /\ Agree(p, pinned[p].commits)
                     /\ pinned[p].published => pinned[p].commit # None

LockInv == \A j \in Job : lock = j <=> job[j].at \in Holding

BoxInv == box # "none" => \E j \in Job : job[j].at \in {"running", "loading", "removing"}

\* What the holder of the lock has loaded is there.
LoadedInv ==
  \A j \in Job : job[j].built => <<NameAt(job[j]), Pin(job[j], NameAt(job[j]))>> \in host

Inv == TypeOK /\ JobsInv /\ RowsInv /\ LockInv /\ BoxInv /\ LoadedInv /\ CachedIsOnHost
-----------------------------------------------------------------------------
(* Names and steps *)

LEMMA NameOfIsName ==
  ASSUME NEW p \in Project, NEW i \in 1..Len(Services[p])
  PROVE  NameOf(p, i) \in Name /\ NameOf(p, i)[1] = p
<1>1. i \in DOMAIN Services[p]
  BY ImagesAssumption
<1> QED
  BY <1>1 DEF Name, NameOf

LEMMA NameHasStep ==
  ASSUME NEW n \in Name
  PROVE  n[1] \in Project /\ \E i \in 1..Len(Services[n[1]]) : n = NameOf(n[1], i)
<1>1. PICK p \in Project : \E i \in DOMAIN Services[p] : n = <<p, Services[p][i]>>
  BY DEF Name
<1>2. DOMAIN Services[p] = 1..Len(Services[p])
  BY ImagesAssumption
<1> QED
  BY <1>1, <1>2 DEF NameOf

\* A job that has begun is at one of its Project's names.
LEMMA NameAtIsName ==
  ASSUME NEW j \in Job, JobsInv, job[j].at # "idle"
  PROVE  /\ At(j) = NameAt(job[j]) /\ At(j) \in Name
         /\ At(j)[1] = job[j].project /\ job[j].project \in Project
  BY NameOfIsName DEF JobsInv, GoodJob, Begun, At, NameAt, NameOf

\* Wanted does not depend on the HEAD: gitBuildSpec's fallback to it is for rows
\* that no code writes.
LEMMA WantedIsPinned ==
  ASSUME NEW j \in Job, JobsInv, Pinned(job[j])
  PROVE  Wanted(j) = Pin(job[j], At(j)) /\ Wanted(j) \in Commit /\ Wanted(j) # None
<1>1. GoodJob(j, job[j]) /\ job[j].at # "idle"
  BY DEF JobsInv, Pinned
<1>2. At(j) \in Name /\ At(j)[1] = job[j].project
  BY <1>1, NameAtIsName
<1>3. job[j].commits[At(j)] # None \/ job[j].commit # None
  BY <1>1, <1>2 DEF GoodJob, Complete
<1>4. job[j].commits[At(j)] \in Commit \union {None} /\ job[j].commit \in Commit \union {None}
  BY <1>1, <1>2 DEF GoodJob, JobType, Commits
<1>5. Wanted(j) = Pin(job[j], At(j))
  BY <1>3 DEF Wanted, Pin
<1> QED
  BY <1>3, <1>4, <1>5 DEF Pin
-----------------------------------------------------------------------------
(* Order and cap *)

LEMMA LeastNat ==
  ASSUME NEW T \in SUBSET Nat, T # {}
  PROVE  \E m \in T : \A k \in T : m <= k
<1>1. PICK m \in T : \A k \in T : ~(<<k, m>> \in OpToRel(<, Nat))
  BY NatLessThanWellFounded, WFMin
<1>2. \A k \in T : ~(k < m)
  BY <1>1 DEF OpToRel
<1> QED
  BY <1>2

Above(r, S, m) == {n \in S : <<m, n>> \in r}

\* Fewer than k above each of them: the lowest one has all the others above it.
LEMMA FewAbove ==
  ASSUME NEW S, IsFiniteSet(S), NEW r, Ranks(r, S), NEW k \in Nat,
         NEW K \in SUBSET S, \A m \in K : Cardinality(Above(r, S, m)) < k
  PROVE  Cardinality(K) <= k
<1>1. CASE K = {}
  BY <1>1, FS_EmptySet
<1>2. CASE K # {}
  <2> DEFINE size == [m \in S |-> Cardinality(Above(r, S, m))]
             T == {k - size[m] : m \in K}
  <2>1. \A m \in S : IsFiniteSet(Above(r, S, m)) /\ size[m] \in Nat
    BY FS_Subset, FS_CardinalityType DEF Above
  <2>2. \A m \in K : size[m] \in Nat /\ size[m] < k
    BY <2>1
  <2>3. \A m \in S : size[m] = Cardinality(Above(r, S, m))
    OBVIOUS
  <2> HIDE DEF size
  <2>4. PICK c \in K : \A m \in K : k - size[c] <= k - size[m]
    <3>1. T \in SUBSET Nat
      <4> SUFFICES ASSUME NEW m \in K PROVE k - size[m] \in Nat
        OBVIOUS
      <4> QED
        BY <2>2
    <3>3. T # {}
      BY <1>2
    <3>2. PICK t \in T : \A u \in T : t <= u
      BY <3>1, <3>3, LeastNat, Zenon
    <3> QED
      BY <3>2
  <2>5. \A m \in K : size[m] <= size[c]
    BY <2>1, <2>4
  <2>6. ASSUME NEW m \in K \ {c} PROVE <<c, m>> \in r
    <3> SUFFICES ASSUME <<m, c>> \in r PROVE FALSE
      BY DEF Ranks
    <3>1. Above(r, S, c) \union {c} \subseteq Above(r, S, m)
      BY DEF Above, Ranks
    <3>2. c \notin Above(r, S, c)
      BY DEF Above, Ranks
    <3>3. /\ IsFiniteSet(Above(r, S, c) \union {c})
          /\ Cardinality(Above(r, S, c) \union {c}) = size[c] + 1
      BY <2>3, <2>1, <3>2, FS_AddElement
    <3>4. size[c] + 1 <= size[m]
      BY <2>3, <2>1, <3>1, <3>3, FS_Subset
    <3> QED
      BY <2>1, <2>5, <3>4
  <2>7. K \ {c} \subseteq Above(r, S, c)
    BY <2>6 DEF Above
  <2>8. IsFiniteSet(K) /\ Cardinality(K \ {c}) <= size[c]
    BY <2>3, <2>1, <2>7, FS_Subset
  <2>9. Cardinality(K \ {c}) = Cardinality(K) - 1 /\ Cardinality(K) \in Nat
    BY <2>8, FS_RemoveElement, FS_CardinalityType
  <2> QED
    BY <2>2, <2>8, <2>9
<1> QED
  BY <1>1, <1>2
-----------------------------------------------------------------------------
(* Where a job may go *)

LEMMA OneJob ==
  ASSUME TypeOK, JobsInv, NEW j \in Job, NEW new, GoodJob(j, new), Becomes(j, new)
  PROVE  /\ job' \in [Job -> JobType] /\ JobsInv' /\ job'[j] = new
         /\ \A k \in Job \ {j} : job'[k] = job[k]
<1>1. job' = [job EXCEPT ![j] = new] /\ new \in JobType
  BY DEF Becomes, GoodJob
<1>2. /\ job' \in [Job -> JobType] /\ job'[j] = new
      /\ \A k \in Job \ {j} : job'[k] = job[k]
  BY <1>1 DEF TypeOK
<1> QED
  BY <1>2 DEF JobsInv

LEMMA GoodIdle == ASSUME NEW j \in Job PROVE GoodJob(j, Idle)
  BY DEF GoodJob, Idle, JobType, Steps, Holding, Commits, NoCommits, Begun, Pinned

LEMMA IdleType ==
  /\ Idle \in JobType /\ NoCommits \in Commits
  /\ Idle.at = "idle" /\ Idle.step = 1 /\ ~Idle.built /\ Idle.commits = NoCommits
  BY DEF Idle, JobType, Steps, Commits, NoCommits

\* Between the miss and the unlock a job keeps what it wants.
LEMMA GoodMove ==
  ASSUME NEW j \in Job, JobsInv, Pinned(job[j]),
         NEW new \in JobType, new.at \in Holding,
         new.project = job[j].project, new.step = job[j].step, new.commit = job[j].commit,
         new.commits = job[j].commits, new.images = job[j].images,
         new.built => new.at \in {"removing", "storing"}, new.at = "storing" => new.built
  PROVE  GoodJob(j, new)
<1>1. GoodJob(j, job[j]) /\ Begun(job[j])
  BY DEF JobsInv, Pinned, Begun
<1>2. \A n : Pin(new, n) = Pin(job[j], n)
  BY DEF Pin
<1>3. Complete(new) <=> Complete(job[j])
  BY DEF Complete
<1> QED
  BY <1>1, <1>2, <1>3 DEF GoodJob, Pinned, Begun, Holding

\* Build's result: the next service's turn, or the end of the loop.
LEMMA GoodReturn ==
  ASSUME NEW j \in Job, JobsInv, job[j].at \in Holding \union {"build"}
  PROVE  /\ GoodJob(j, Returned(j, Wanted(j)))
         /\ Returned(j, Wanted(j)).at \in {"build", "up", "record"}
         /\ ~Returned(j, Wanted(j)).built
         /\ Returned(j, Wanted(j)).images[At(j)] = Wanted(j)
<1> DEFINE r   == job[j]
           p   == r.project
           L   == Len(Services[p])
           new == Returned(j, Wanted(j))
           img == [r.images EXCEPT ![At(j)] = Wanted(j)]
           end == r.step = L
<1>1. GoodJob(j, r) /\ Pinned(r) /\ r.at # "idle"
  BY DEF JobsInv, Pinned, Holding
<1>2. /\ At(j) = NameOf(p, r.step) /\ At(j) \in Name /\ At(j)[1] = p /\ p \in Project
      /\ r.step \in 1..L /\ L \in Nat \ {0}
  BY <1>1, NameAtIsName, ImagesAssumption DEF NameAt, GoodJob, Begun
<1>3. Wanted(j) = Pin(r, At(j)) /\ Wanted(j) \in Commit
  BY <1>1, WantedIsPinned
<1>4. /\ new.project = p /\ new.commit = r.commit /\ new.commits = r.commits
      /\ new.images = img /\ new.built = FALSE
      /\ new.step = IF end THEN 1 ELSE r.step + 1
      /\ new.at = IF end THEN (IF j \in Play THEN "up" ELSE "record") ELSE "build"
      /\ new \in JobType
  <2>1. r \in JobType /\ img \in Commits
    BY <1>1, <1>2, <1>3 DEF GoodJob, JobType, Commits
  <2>2. LastStep(j) <=> end
    BY DEF LastStep
  <2> DEFINE next == [r EXCEPT !.images[At(j)] = Wanted(j), !.built = FALSE]
  <2>3. /\ next.project = p /\ next.commit = r.commit /\ next.commits = r.commits
        /\ next.images = img /\ next.built = FALSE /\ next.step = r.step
        /\ next \in JobType
    BY <2>1 DEF JobType
  <2>4. new = IF end THEN [next EXCEPT !.at = IF j \in Play THEN "up" ELSE "record", !.step = 1]
              ELSE [next EXCEPT !.at = "build", !.step = r.step + 1]
    BY <2>2, <2>3 DEF Returned
  <2> HIDE DEF new, next, end
  <2>5. {"up", "record", "build"} \subseteq Steps /\ r.step + 1 \in Nat \ {0}
    BY <1>2 DEF Steps
  <2> DEFINE at == IF end THEN (IF j \in Play THEN "up" ELSE "record") ELSE "build"
             step == IF end THEN 1 ELSE r.step + 1
  <2>6. at \in Steps /\ step \in Nat \ {0}
    BY <2>5
  <2>7. new = [next EXCEPT !.at = at, !.step = step]
    <3>1. CASE end
      BY <2>4, <3>1
    <3>2. CASE ~end
      BY <2>4, <3>2
    <3> QED
      BY <3>1, <3>2
  <2> HIDE DEF at, step
  <2>8. /\ new \in JobType /\ new.at = at /\ new.step = step
        /\ new.project = next.project /\ new.commit = next.commit
        /\ new.commits = next.commits /\ new.images = next.images /\ new.built = next.built
    BY <2>3, <2>6, <2>7 DEF JobType
  <2> QED
    BY <2>3, <2>8 DEF at, step
<1> HIDE DEF new
<1>5. \A n : Pin(new, n) = Pin(r, n)
  BY <1>4 DEF Pin
<1>6. Complete(new) <=> Complete(r)
  BY <1>4 DEF Complete
<1>7. \A i \in 1..r.step : new.images[NameOf(p, i)] = Pin(r, NameOf(p, i))
  <2> SUFFICES ASSUME NEW i \in 1..r.step PROVE img[NameOf(p, i)] = Pin(r, NameOf(p, i))
    BY <1>4
  <2>1. NameOf(p, i) \in Name /\ r.images \in [Name -> Commit \union {None}]
    BY <1>1, <1>2, NameOfIsName DEF GoodJob, JobType, Commits
  <2>2. CASE NameOf(p, i) = At(j)
    BY <1>3, <2>1, <2>2
  <2>3. CASE NameOf(p, i) # At(j)
    <3>1. i \in 1..(r.step - 1)
      BY <1>2, <2>3
    <3> QED
      BY <1>1, <2>1, <2>3, <3>1 DEF GoodJob
  <2> QED
    BY <2>2, <2>3
<1>8. end => \A n \in Name : n[1] = p => new.images[n] = Pin(r, n)
  BY <1>7, NameHasStep
<1>9. \A i \in 1..(new.step - 1) : new.images[NameOf(p, i)] = Pin(new, NameOf(p, i))
  BY <1>2, <1>4, <1>5, <1>7
<1>10. GoodJob(j, new)
  <2>1. Agree(new.project, new.commits) /\ (new.commit # None \/ Complete(new))
        /\ (j \in Publish => Complete(new))
    BY <1>1, <1>4, <1>6 DEF GoodJob
  <2>2. new.at = "up" => \A n \in Name : n[1] = new.project => new.images[n] = Pin(new, n)
    BY <1>4, <1>5, <1>8
  <2>3. new.at = "record" => j \in Publish
    BY <1>4 DEF Job
  <2>4. new.project \in Project /\ new.step \in 1..Len(Services[new.project])
    BY <1>2, <1>4
  <2> QED
    BY <1>4, <1>9, <2>1, <2>2, <2>3, <2>4 DEF GoodJob, Pinned, Begun
<1>11. new.images[At(j)] = Wanted(j)
  BY <1>1, <1>2, <1>4 DEF GoodJob, JobType, Commits
<1> QED
  BY <1>4, <1>10, <1>11 DEF new
-----------------------------------------------------------------------------
(* The lock *)

\* A job that is not between the miss and the unlock has nothing loaded.
LEMMA BuiltInside ==
  ASSUME NEW j \in Job, NEW r, GoodJob(j, r), r.at \notin Holding
  PROVE  ~r.built
  BY DEF GoodJob, Holding

LEMMA OnlyHolder ==
  ASSUME JobsInv, LockInv, NEW j \in Job, job[j].at \in Holding
  PROVE  /\ lock = j
         /\ \A k \in Job \ {j} : job[k].at \notin Holding /\ ~job[k].built
<1>1. lock = j /\ \A k \in Job \ {j} : job[k].at \notin Holding
  BY DEF LockInv
<1> QED
  BY <1>1, BuiltInside DEF JobsInv

LEMMA OutsideLock ==
  ASSUME Inv, NEW j \in Job, NEW new, GoodJob(j, new), Becomes(j, new),
         job[j].at \notin Holding, new.at \notin Holding, UNCHANGED <<lock, host, box>>
  PROVE  job' \in [Job -> JobType] /\ JobsInv' /\ LockInv' /\ BoxInv' /\ LoadedInv'
<1>1. /\ job' \in [Job -> JobType] /\ JobsInv' /\ job'[j] = new
      /\ \A k \in Job \ {j} : job'[k] = job[k]
  BY OneJob DEF Inv
<1>2. LockInv'
  BY <1>1 DEF Inv, LockInv
<1>3. BoxInv'
  BY <1>1 DEF Inv, BoxInv, Holding
<1>4. ~new.built
  BY BuiltInside
<1>5. LoadedInv'
  BY <1>1, <1>4 DEF Inv, LoadedInv
<1> QED
  BY <1>1, <1>2, <1>3, <1>5

LEMMA InsideLock ==
  ASSUME Inv, NEW j \in Job, NEW new, GoodJob(j, new), Becomes(j, new),
         job[j].at \in Holding, new.at \in Holding, UNCHANGED lock,
         new.built => <<NameAt(new), Pin(new, NameAt(new))>> \in host'
  PROVE  job' \in [Job -> JobType] /\ JobsInv' /\ LockInv' /\ LoadedInv' /\ job'[j] = new
<1>1. /\ job' \in [Job -> JobType] /\ JobsInv' /\ job'[j] = new
      /\ \A k \in Job \ {j} : job'[k] = job[k]
  BY OneJob DEF Inv
<1>2. lock = j /\ \A k \in Job \ {j} : job[k].at \notin Holding /\ ~job[k].built
  BY OnlyHolder DEF Inv
<1>3. LockInv'
  BY <1>1 DEF Inv, LockInv
<1>4. LoadedInv'
  BY <1>1, <1>2 DEF LoadedInv
<1> QED
  BY <1>1, <1>3, <1>4

\* With the unlock nobody is left between the miss and the unlock.
LEMMA Unlocks ==
  ASSUME Inv, NEW j \in Job, NEW new, GoodJob(j, new), Becomes(j, new),
         job[j].at \in Holding, new.at \notin Holding, lock' = "none"
  PROVE  job' \in [Job -> JobType] /\ JobsInv' /\ LockInv' /\ LoadedInv'
<1>1. /\ job' \in [Job -> JobType] /\ JobsInv' /\ job'[j] = new
      /\ \A k \in Job \ {j} : job'[k] = job[k]
  BY OneJob DEF Inv
<1>2. \A k \in Job \ {j} : job[k].at \notin Holding /\ ~job[k].built
  BY OnlyHolder DEF Inv
<1>3. LockInv'
  BY <1>1, <1>2, ImagesAssumption DEF LockInv
<1>4. LoadedInv'
  BY <1>1, <1>2, BuiltInside DEF LoadedInv
<1> QED
  BY <1>1, <1>3, <1>4

\* The container is gone before the lock is.
LEMMA NoBox ==
  ASSUME Inv, NEW j \in Job, job[j].at \in {"clone", "storing", "failed"} \/ lock = "none"
  PROVE  box = "none"
<1> SUFFICES ASSUME box # "none" PROVE FALSE
  OBVIOUS
<1>1. PICK k \in Job : job[k].at \in {"running", "loading", "removing"}
  BY DEF Inv, BoxInv
<1>2. lock = k
  BY <1>1 DEF Inv, LockInv, Holding
<1>3. CASE job[j].at \in {"clone", "storing", "failed"}
  <2>1. lock = j
    BY <1>3 DEF Inv, LockInv, Holding
  <2> QED
    BY <1>1, <1>2, <1>3, <2>1
<1> QED
  BY <1>2, <1>3, ImagesAssumption
-----------------------------------------------------------------------------
(* The steps outside the lock *)

LEMMA InitInv == Init => Inv
<1> SUFFICES ASSUME Init PROVE Inv
  OBVIOUS
<1>1. \A j \in Job : job[j] = Idle /\ GoodJob(j, job[j]) /\ Idle.at = "idle" /\ ~Idle.built
  BY GoodIdle DEF Init, Idle
<1>2. NoCommits \in Commits /\ Idle \in JobType
  BY DEF NoCommits, Commits, Idle, JobType, Steps
<1>3. 1 \in Commit
  BY ImagesAssumption DEF Commit
<1>4. TypeOK
  <2>1. pinned \in [Project -> RowType]
    <3>1. /\ [published |-> FALSE, commit |-> None, commits |-> NoCommits] \in RowType
          /\ [published |-> TRUE, commit |-> 1, commits |-> NoCommits] \in RowType
      BY <1>2, <1>3 DEF RowType
    <3> QED
      BY <3>1 DEF Init
  <2> QED
    BY <1>2, <1>3, <2>1 DEF Init, TypeOK
<1>5. RowsInv
  <2>1. \A p \in Project : pinned[p].commits = NoCommits
                           /\ (pinned[p].published => pinned[p].commit # None)
    BY DEF Init, None
  <2> QED
    BY <2>1 DEF RowsInv, Agree, NoCommits
<1>6. JobsInv /\ LockInv /\ BoxInv /\ LoadedInv
  <2>1. "idle" \notin Holding
    BY DEF Holding
  <2> QED
    BY <1>1, <2>1, ImagesAssumption DEF Init, JobsInv, LockInv, BoxInv, LoadedInv
<1>7. CachedIsOnHost
  BY DEF Init, CachedIsOnHost, Cached, Ranks, NoCommits
<1> QED
  BY <1>4, <1>5, <1>6, <1>7 DEF Inv

\* A step that touches neither the rows nor the cache nor docker.
LEMMA RestInv ==
  ASSUME Inv, job' \in [Job -> JobType], JobsInv', LockInv', BoxInv', LoadedInv',
         UNCHANGED <<head, pinned, cache, recent, host>>,
         lock' \in Job \union {"none"}, box' \in {"none", "running", "exited"}
  PROVE  Inv'
<1>1. TypeOK'
  BY DEF Inv, TypeOK
<1>2. RowsInv' /\ CachedIsOnHost'
  BY DEF Inv, RowsInv, Agree, CachedIsOnHost, Cached, Ranks
<1> QED
  BY <1>1, <1>2 DEF Inv

LEMMA PlayReadsInv == ASSUME Inv, NEW j \in Job, PlayReads(j) PROVE Inv'
<1>1. PICK p \in Project :
        /\ pinned[p].published
        /\ Becomes(j, [Idle EXCEPT !.at = "build", !.project = p,
                       !.commit = pinned[p].commit, !.commits = pinned[p].commits])
  BY DEF PlayReads
<1> DEFINE new == [Idle EXCEPT !.at = "build", !.project = p,
                     !.commit = pinned[p].commit, !.commits = pinned[p].commits]
<1>2. /\ pinned[p].commit \in Commit /\ pinned[p].commits \in Commits
      /\ Agree(p, pinned[p].commits) /\ pinned[p].commit # None
  BY <1>1 DEF Inv, TypeOK, RowType, RowsInv
<1>3. j \notin Publish
  BY ImagesAssumption DEF PlayReads
<1>4. 1 \in 1..Len(Services[p])
  BY ImagesAssumption
<1>5. GoodJob(j, new)
  <2>1. /\ new.at = "build" /\ new.project = p /\ new.step = 1 /\ ~new.built
        /\ new.commit = pinned[p].commit /\ new.commits = pinned[p].commits
        /\ new \in JobType
    BY <1>2, IdleType, Zenon DEF JobType, Steps
  <2> QED
    BY <1>2, <1>3, <1>4, <2>1 DEF GoodJob, Begun, Pinned
<1>6. job[j].at \notin Holding /\ new.at \notin Holding
  BY DEF PlayReads, Idle, Holding
<1>7. job' \in [Job -> JobType] /\ JobsInv' /\ LockInv' /\ BoxInv' /\ LoadedInv'
  BY <1>1, <1>5, <1>6, OutsideLock DEF PlayReads
<1> QED
  BY <1>7, RestInv DEF PlayReads, Inv, TypeOK

LEMMA PublishBeginsInv == ASSUME Inv, NEW j \in Job, PublishBegins(j) PROVE Inv'
<1>1. PICK p \in Project : Becomes(j, [Idle EXCEPT !.at = "resolve", !.project = p])
  BY DEF PublishBegins
<1> DEFINE new == [Idle EXCEPT !.at = "resolve", !.project = p]
<1>2. 1 \in 1..Len(Services[p])
  BY ImagesAssumption
<1>3. GoodJob(j, new)
  <2>1. /\ new.at = "resolve" /\ new.project = p /\ new.step = 1 /\ ~new.built
        /\ new.commits = NoCommits /\ new \in JobType
    BY IdleType, Zenon DEF JobType, Steps
  <2>2. AgreeSoFar(p, NoCommits)
    BY DEF AgreeSoFar, NoCommits
  <2> QED
    BY <1>2, <2>1, <2>2 DEF GoodJob, Begun, Pinned
<1>4. job[j].at \notin Holding /\ new.at \notin Holding
  BY DEF PublishBegins, Idle, Holding
<1>5. job' \in [Job -> JobType] /\ JobsInv' /\ LockInv' /\ BoxInv' /\ LoadedInv'
  BY <1>1, <1>3, <1>4, OutsideLock DEF PublishBegins
<1> QED
  BY <1>5, RestInv DEF PublishBegins, Inv, TypeOK

LEMMA PlayBootsInv == ASSUME Inv, NEW j \in Job, PlayBoots(j) PROVE Inv'
<1>1. GoodJob(j, Idle) /\ job[j].at \notin Holding /\ Idle.at \notin Holding
  BY GoodIdle DEF PlayBoots, Idle, Holding
<1>2. job' \in [Job -> JobType] /\ JobsInv' /\ LockInv' /\ BoxInv' /\ LoadedInv'
  BY <1>1, OutsideLock DEF PlayBoots
<1> QED
  BY <1>2, RestInv DEF PlayBoots, Inv, TypeOK
\* repoHEAD: one resolution per repository, so the commits agree as far as they
\* have come, and when the last service has its commit all of them have one.
LEMMA PublishResolvesInv == ASSUME Inv, NEW j \in Job, PublishResolves(j) PROVE Inv'
<1> DEFINE r    == job[j]
           p    == r.project
           L    == Len(Services[p])
           c    == [r.commits EXCEPT ![At(j)] = Resolved(j)]
           at   == IF LastStep(j) THEN "build" ELSE "resolve"
           step == IF LastStep(j) THEN 1 ELSE r.step + 1
           new  == [r EXCEPT !.commits = c, !.step = step, !.at = at]
           same == {n \in Name : n[1] = p /\ RepoOf[n] = RepoOf[At(j)] /\ r.commits[n] # None}
<1>1. GoodJob(j, r) /\ r.at = "resolve" /\ Becomes(j, new)
  BY DEF PublishResolves, Inv, JobsInv
<1>2. /\ At(j) = NameOf(p, r.step) /\ At(j) \in Name /\ At(j)[1] = p /\ p \in Project
      /\ r.step \in 1..L /\ L \in Nat \ {0}
  BY <1>1, NameAtIsName, ImagesAssumption DEF NameAt, GoodJob, Begun, Inv
<1>3. /\ r \in JobType /\ r.commits \in [Name -> Commit \union {None}] /\ ~r.built
      /\ AgreeSoFar(p, r.commits)
      /\ \A i \in 1..(r.step - 1) : r.commits[NameOf(p, i)] # None
  BY <1>1 DEF GoodJob, JobType, Commits
<1>4. LastStep(j) <=> r.step = L
  BY DEF LastStep
<1>5. Resolved(j) = IF same = {} THEN head[RepoOf[At(j)]]
                    ELSE r.commits[CHOOSE n \in same : TRUE]
  BY DEF Resolved
<1>6. Resolved(j) \in Commit /\ Resolved(j) # None
  <2>1. CASE same = {}
    <3>1. RepoOf[At(j)] \in Repo
      BY <1>2 DEF Repo
    <3>2. head[RepoOf[At(j)]] \in Commit
      BY <3>1 DEF Inv, TypeOK
    <3> QED
      BY <1>5, <2>1, <3>2 DEF Commit, None
  <2>2. CASE same # {}
    <3>1. (CHOOSE n \in same : TRUE) \in same
      BY <2>2
    <3> QED
      BY <1>3, <1>5, <2>2, <3>1
  <2> QED
    BY <2>1, <2>2
<1>7. ASSUME NEW m \in same PROVE r.commits[m] = Resolved(j)
  <2>1. (CHOOSE n \in same : TRUE) \in same /\ same # {}
    BY <1>7
  <2> QED
    BY <1>3, <1>5, <2>1 DEF AgreeSoFar
<1>8. c \in Commits /\ \A n \in Name : c[n] = IF n = At(j) THEN Resolved(j) ELSE r.commits[n]
  BY <1>2, <1>3, <1>6 DEF Commits
<1> HIDE DEF c
<1>9. AgreeSoFar(p, c)
  <2> SUFFICES ASSUME NEW m \in Name, NEW n \in Name, m[1] = p, n[1] = p, RepoOf[m] = RepoOf[n],
                      c[m] # None, c[n] # None
               PROVE  c[m] = c[n]
    BY DEF AgreeSoFar
  <2>1. CASE m = At(j) \/ n = At(j)
    BY <1>7, <1>8, <2>1
  <2>2. CASE m # At(j) /\ n # At(j)
    BY <1>3, <1>8, <2>2 DEF AgreeSoFar
  <2> QED
    BY <2>1, <2>2
<1>10. \A i \in 1..r.step : c[NameOf(p, i)] # None
  <2> SUFFICES ASSUME NEW i \in 1..r.step PROVE c[NameOf(p, i)] # None
    OBVIOUS
  <2>1. NameOf(p, i) \in Name
    BY <1>2, NameOfIsName
  <2>2. i = r.step \/ i \in 1..(r.step - 1)
    BY <1>2
  <2> QED
    BY <1>2, <1>3, <1>6, <1>8, <2>1, <2>2
<1>11. /\ new.at = at /\ new.step = step /\ new.commits = c /\ new.project = p /\ ~new.built
       /\ new \in JobType
  <2>1. at \in Steps /\ step \in Nat \ {0}
    BY <1>2 DEF Steps
  <2> HIDE DEF at, step
  <2> QED
    BY <1>3, <1>8, <2>1 DEF JobType
<1> HIDE DEF new
<1>12. GoodJob(j, new)
  <2>1. CASE LastStep(j)
    <3>1. Complete(new)
      <4> SUFFICES ASSUME NEW n \in Name, n[1] = p PROVE c[n] # None
        BY <1>11 DEF Complete
      <4> QED
        BY <1>4, <1>10, <2>1, NameHasStep
    <3>2. Agree(p, c)
      BY <1>9, <1>11, <3>1 DEF AgreeSoFar, Agree, Complete
    <3>3. 1 \in 1..L
      BY <1>2
    <3> QED
      BY <1>2, <1>11, <2>1, <3>1, <3>2, <3>3 DEF GoodJob, Begun, Pinned
  <2>2. CASE ~LastStep(j)
    <3>1. r.step + 1 \in 1..L /\ (r.step + 1) - 1 = r.step
      BY <1>2, <1>4, <2>2
    <3> QED
      BY <1>2, <1>9, <1>10, <1>11, <2>2, <3>1 DEF GoodJob, Begun, Pinned
  <2> QED
    BY <2>1, <2>2
<1>13. r.at \notin Holding /\ new.at \notin Holding
  BY <1>1, <1>11 DEF Holding
<1>14. job' \in [Job -> JobType] /\ JobsInv' /\ LockInv' /\ BoxInv' /\ LoadedInv'
  BY <1>1, <1>12, <1>13, OutsideLock DEF PublishResolves
<1> QED
  BY <1>14, RestInv DEF PublishResolves, Inv, TypeOK

\* What a publish build pins is complete, and agrees.
LEMMA PublishRecordsInv == ASSUME Inv, NEW j \in Job, PublishRecords(j) PROVE Inv'
<1> DEFINE r   == job[j]
           p   == r.project
           row == [published |-> TRUE, commits |-> r.commits, commit |-> r.commits[At(j)]]
<1>1. GoodJob(j, r) /\ r.at = "record" /\ j \in Publish
  BY DEF PublishRecords, Inv, JobsInv
<1>2. At(j) \in Name /\ At(j)[1] = p /\ p \in Project
  BY <1>1, NameAtIsName DEF Inv
<1>3. r.commits \in Commits /\ Agree(p, r.commits) /\ r.commits[At(j)] # None
  BY <1>1, <1>2 DEF GoodJob, JobType, Pinned, Complete
<1>4. pinned' = [pinned EXCEPT ![p] = row] /\ row \in RowType
  BY <1>2, <1>3 DEF PublishRecords, RowType, Commits
<1>5. job' \in [Job -> JobType] /\ JobsInv' /\ LockInv' /\ BoxInv' /\ LoadedInv'
  <2>1. GoodJob(j, Idle) /\ job[j].at \notin Holding /\ Idle.at \notin Holding
    BY <1>1, GoodIdle, IdleType DEF Holding
  <2> QED
    BY <2>1, OutsideLock DEF PublishRecords
<1>6. TypeOK'
  BY <1>4, <1>5 DEF PublishRecords, Inv, TypeOK
<1>7. RowsInv'
  BY <1>2, <1>3, <1>4 DEF Inv, TypeOK, RowsInv, Agree
<1>8. CachedIsOnHost'
  BY DEF PublishRecords, Inv, CachedIsOnHost, Cached, Ranks
<1> QED
  BY <1>5, <1>6, <1>7, <1>8 DEF Inv

\* A failure gives the lock back when its job has it, and leaves no container.
LEMMA JobFailsInv == ASSUME Inv, NEW j \in Job, JobFails(j) PROVE Inv'
<1>1. GoodJob(j, Idle) /\ Idle.at \notin Holding /\ Becomes(j, Idle)
  BY GoodIdle, IdleType DEF Holding, JobFails
<1>2. CASE job[j].at \in {"clone", "failed"}
  <2>1. job[j].at \in Holding /\ lock = j /\ lock' = "none" /\ box = "none"
    BY <1>2, OnlyHolder, NoBox DEF Holding, JobFails, Inv
  <2>2. job' \in [Job -> JobType] /\ JobsInv' /\ LockInv' /\ LoadedInv'
    BY <1>1, <2>1, Unlocks
  <2>3. BoxInv'
    BY <2>1 DEF BoxInv, JobFails
  <2> QED
    BY <2>1, <2>2, <2>3, RestInv DEF JobFails, Inv, TypeOK
<1>3. CASE job[j].at \in {"resolve", "record"}
  <2>1. job[j].at \notin Holding /\ lock # j
    BY <1>3 DEF Holding, Inv, LockInv
  <2>2. job' \in [Job -> JobType] /\ JobsInv' /\ LockInv' /\ BoxInv' /\ LoadedInv'
    BY <1>1, <2>1, OutsideLock DEF JobFails
  <2> QED
    BY <2>1, <2>2, RestInv DEF JobFails, Inv, TypeOK
<1> QED
  BY <1>2, <1>3 DEF JobFails
-----------------------------------------------------------------------------
(* Builder.Build *)

\* The newcomer is above everything else, and the others keep their order.
LEMMA TouchRanks ==
  ASSUME Ranks(recent, Cached), NEW n \in Name
  PROVE  Ranks(Touch(n), Cached \union {n}) /\ \A m \in Name : <<n, m>> \notin Touch(n)
<1> DEFINE S == Cached \union {n}
<1>1. ASSUME NEW a, NEW b
      PROVE  <<a, b>> \in Touch(n) <=>
               \/ <<a, b>> \in recent /\ a # n /\ b # n
               \/ a \in Cached \ {n} /\ b = n
  BY DEF Touch
<1>2. Touch(n) \subseteq S \X S
  BY DEF Touch, Ranks
<1> QED
  BY <1>1, <1>2 DEF Ranks

LEMMA CacheHitInv == ASSUME Inv, NEW j \in Job, CacheHit(j) PROVE Inv'
<1>1. Pinned(job[j]) /\ job[j].at \notin Holding /\ job[j].at \in Holding \union {"build"}
  BY DEF CacheHit, Pinned, Holding
<1>2. At(j) \in Name /\ cache[At(j)] = Wanted(j) /\ Wanted(j) # None
  BY <1>1, NameAtIsName, WantedIsPinned DEF CacheHit, Pinned, Inv
<1>3. /\ GoodJob(j, Returned(j, Wanted(j))) /\ Returned(j, Wanted(j)).at \notin Holding
      /\ Becomes(j, Returned(j, Wanted(j)))
  BY <1>1, GoodReturn DEF Inv, CacheHit, Holding
<1>4. job' \in [Job -> JobType] /\ JobsInv' /\ LockInv' /\ BoxInv' /\ LoadedInv'
  BY <1>1, <1>3, OutsideLock DEF CacheHit
<1>5. TypeOK' /\ RowsInv'
  BY <1>4 DEF CacheHit, Inv, TypeOK, RowsInv, Agree
<1>6. CachedIsOnHost'
  <2>1. Cached' = Cached /\ Cached \union {At(j)} = Cached /\ recent' = Touch(At(j))
    BY <1>2 DEF CacheHit, Cached
  <2>2. Ranks(recent', Cached')
    BY <1>2, <2>1, TouchRanks DEF Inv, CachedIsOnHost
  <2> QED
    BY <2>1, <2>2 DEF CacheHit, Inv, CachedIsOnHost
<1> QED
  BY <1>4, <1>5, <1>6 DEF Inv

LEMMA CacheMissInv == ASSUME Inv, NEW j \in Job, CacheMiss(j) PROVE Inv'
<1> DEFINE new == [job[j] EXCEPT !.at = "clone"]
<1>1. GoodJob(j, job[j]) /\ job[j].at = "build" /\ job[j] \in JobType /\ Becomes(j, new)
      /\ ~job[j].built
  BY DEF CacheMiss, Goes, Inv, JobsInv, GoodJob
<1>2. /\ new \in JobType /\ new.at = "clone" /\ new.built = job[j].built
      /\ new.project = job[j].project /\ new.step = job[j].step
      /\ new.commit = job[j].commit /\ new.commits = job[j].commits
      /\ new.images = job[j].images
  BY <1>1 DEF JobType, Steps, Holding
<1> HIDE DEF new
<1>3. GoodJob(j, new)
  BY <1>1, <1>2, GoodMove DEF Inv, Pinned, Holding
<1>4. /\ job' \in [Job -> JobType] /\ JobsInv' /\ job'[j] = new
      /\ \A k \in Job \ {j} : job'[k] = job[k]
  BY <1>1, <1>3, OneJob DEF Inv
<1>5. \A k \in Job : job[k].at \notin Holding
  BY ImagesAssumption DEF CacheMiss, Inv, LockInv
<1>6. LockInv'
  BY <1>2, <1>4, <1>5 DEF LockInv, CacheMiss, Holding
<1>7. BoxInv' /\ LoadedInv'
  <2>1. box' = "none"
    BY NoBox DEF CacheMiss
  <2>2. \A k \in Job : ~job'[k].built
    BY <1>1, <1>2, <1>4, <1>5, BuiltInside DEF Inv, JobsInv
  <2> QED
    BY <2>1, <2>2 DEF BoxInv, LoadedInv
<1> QED
  BY <1>4, <1>6, <1>7, RestInv DEF CacheMiss, Inv, TypeOK

\* The sandbox's steps: the holder of the lock goes on, and the container runs
\* only from the docker run to the docker rm.
LEMMA SandboxInv ==
  ASSUME Inv, NEW j \in Job,
         \/ SandboxStarts(j) \/ SandboxSucceeds(j) \/ SandboxFails(j)
         \/ SandboxTimesOut(j) \/ Loads(j) \/ RemovesBox(j)
  PROVE  Inv'
<1> DEFINE r == job[j]
           n == NameAt(r)
<1>1. r.at \in {"clone", "running", "loading", "removing"}
  BY DEF SandboxStarts, SandboxSucceeds, SandboxFails, SandboxTimesOut, Loads, RemovesBox
<1>2. GoodJob(j, r) /\ r \in JobType /\ Pinned(r) /\ r.at \in Holding
  BY <1>1 DEF Inv, JobsInv, GoodJob, Pinned, Holding
<1>3. At(j) = n /\ n \in Name /\ Wanted(j) = Pin(r, n) /\ Wanted(j) \in Commit
  BY <1>2, NameAtIsName, WantedIsPinned DEF Inv, Pinned
<1>4. PICK to \in {"running", "loading", "removing", "storing", "failed"}, b \in BOOLEAN :
        /\ Becomes(j, [r EXCEPT !.at = to, !.built = b])
        /\ b => to \in {"removing", "storing"} /\ <<n, Wanted(j)>> \in host'
        /\ to = "storing" => b
        /\ box' # "none" => to \in {"running", "loading", "removing"}
  <2>0. [r EXCEPT !.built = r.built] = r
    BY <1>2 DEF JobType
  <2>1. ASSUME NEW to \in {"running", "loading", "removing"}, Goes(j, to), r.at # "removing"
        PROVE  Becomes(j, [r EXCEPT !.at = to, !.built = FALSE])
    <3>1. r.built = FALSE
      BY <1>1, <1>2, <2>1 DEF GoodJob, JobType
    <3>2. [r EXCEPT !.at = to, !.built = FALSE] = [r EXCEPT !.at = to]
      BY <1>2, <3>1 DEF JobType
    <3> QED
      BY <2>1, <3>2 DEF Goes
  <2>2. CASE SandboxStarts(j)
    BY <2>1, <2>2 DEF SandboxStarts
  <2>3. CASE SandboxSucceeds(j)
    BY <2>1, <2>3 DEF SandboxSucceeds
  <2>4. CASE SandboxFails(j) \/ SandboxTimesOut(j)
    BY <2>1, <2>4 DEF SandboxFails, SandboxTimesOut
  <2>5. CASE Loads(j)
    <3>1. CASE Goes(j, "removing")
      BY <2>1, <2>5, <3>1 DEF Loads
    <3>2. CASE host' = host \union {<<At(j), Wanted(j)>>}
               /\ Becomes(j, [r EXCEPT !.at = "removing", !.built = TRUE])
      BY <1>3, <3>2
    <3> QED
      BY <2>5, <3>1, <3>2 DEF Loads
  <2>6. CASE RemovesBox(j)
    <3> DEFINE to == IF r.built THEN "storing" ELSE "failed"
    <3>1. Becomes(j, [r EXCEPT !.at = to]) /\ box' = "none" /\ host' = host
      BY <2>6 DEF RemovesBox, Goes
    <3>2. [r EXCEPT !.at = to, !.built = r.built] = [r EXCEPT !.at = to]
      BY <1>2 DEF JobType
    <3>3. r.built => <<n, Wanted(j)>> \in host
      BY <1>3 DEF Inv, LoadedInv
    <3>4. r.built \in BOOLEAN
      BY <1>2 DEF JobType
    <3> QED
      BY <3>1, <3>2, <3>3, <3>4
  <2> QED
    BY <2>2, <2>3, <2>4, <2>5, <2>6
<1> DEFINE new == [r EXCEPT !.at = to, !.built = b]
<1>5. /\ new \in JobType /\ new.at = to /\ new.built = b
      /\ new.project = r.project /\ new.step = r.step /\ new.commit = r.commit
      /\ new.commits = r.commits /\ new.images = r.images
  BY <1>2 DEF JobType, Steps, Holding
<1> HIDE DEF new
<1>6. NameAt(new) = n /\ Pin(new, n) = Pin(r, n)
  BY <1>5 DEF NameAt, Pin
<1>7. GoodJob(j, new)
  BY <1>2, <1>4, <1>5, GoodMove DEF Inv, Holding
<1>8. /\ head' = head /\ pinned' = pinned /\ lock' = lock /\ cache' = cache /\ recent' = recent
      /\ host \subseteq host' /\ host' \subseteq host \union {<<n, Wanted(j)>>}
      /\ box' \in {"none", "running", "exited"}
  BY <1>3 DEF SandboxStarts, SandboxSucceeds, SandboxFails, SandboxTimesOut, Loads, RemovesBox,
              Inv, TypeOK
<1>9. /\ job' \in [Job -> JobType] /\ JobsInv' /\ LockInv' /\ LoadedInv' /\ job'[j] = new
  <2>1. Becomes(j, new) /\ new.at \in Holding
    BY <1>4, <1>5 DEF new, Holding
  <2> QED
    BY <1>2, <1>3, <1>4, <1>5, <1>6, <1>7, <1>8, <2>1, InsideLock
<1>10. BoxInv'
  BY <1>4, <1>5, <1>9 DEF BoxInv
<1>11. TypeOK' /\ RowsInv' /\ CachedIsOnHost'
  BY <1>3, <1>8, <1>9 DEF Inv, TypeOK, RowsInv, Agree, CachedIsOnHost, Cached, Ranks
<1> QED
  BY <1>9, <1>10, <1>11 DEF Inv
-----------------------------------------------------------------------------
(* evict *)

\* The victims are a lower part of the order that leaves out the newcomer, and
\* what is left is within the cap.
LEMMA EvictKeepsTheHot ==
  ASSUME Inv, NEW j \in Job, At(j) \in Name
  PROVE  LET S == Cached \union {At(j)} IN
         /\ Ranks(Order(j), S)
         /\ At(j) \notin Victims(j)
         /\ \A a, b \in S : <<a, b>> \in Order(j) /\ b \in Victims(j) => a \in Victims(j)
         /\ Cardinality(S \ Victims(j)) <= MaxImages
<1> DEFINE n == At(j)
           S == Cached \union {n}
           K == S \ Victims(j)
<1>1. /\ Ranks(Order(j), S) /\ \A m \in Name : <<n, m>> \notin Order(j)
  BY TouchRanks DEF Inv, CachedIsOnHost, Order
<1>2. MaxImages \in Nat \ {0} /\ IsFiniteSet(Name)
  BY ImagesAssumption
<1>3. S \subseteq Name /\ IsFiniteSet(S)
  BY <1>2, FS_Subset DEF Cached
<1>4. \A m \in Name : /\ Hotter(j, m) \subseteq Name /\ IsFiniteSet(Hotter(j, m))
                      /\ Cardinality(Hotter(j, m)) \in Nat
  BY <1>2, FS_Subset, FS_CardinalityType DEF Hotter
<1>5. n \notin Victims(j)
  <2>1. Hotter(j, n) = {}
    BY <1>1 DEF Hotter
  <2>2. Cardinality(Hotter(j, n)) = 0
    BY <2>1, FS_EmptySet
  <2> QED
    BY <1>2, <2>2 DEF Victims
<1>6. ASSUME NEW a \in S, NEW b \in S, <<a, b>> \in Order(j), b \in Victims(j)
      PROVE  a \in Victims(j)
  <2>1. Hotter(j, b) \subseteq Hotter(j, a)
    BY <1>1, <1>6 DEF Hotter, Ranks
  <2>2. Cardinality(Hotter(j, b)) <= Cardinality(Hotter(j, a))
    BY <1>3, <1>4, <2>1, FS_Subset
  <2>3. Cardinality(Hotter(j, b)) >= MaxImages
    BY <1>6 DEF Victims
  <2>4. Cardinality(Hotter(j, a)) >= MaxImages
    BY <1>2, <1>3, <1>4, <2>2, <2>3
  <2> QED
    BY <2>4 DEF Victims
<1>7. Cardinality(K) <= MaxImages
  <2>1. ASSUME NEW m \in K PROVE Cardinality(Above(Order(j), S, m)) < MaxImages
    <3>1. Above(Order(j), S, m) = Hotter(j, m)
      BY <1>1, <1>3 DEF Above, Hotter, Ranks
    <3>2. ~(Cardinality(Hotter(j, m)) >= MaxImages)
      BY <2>1 DEF Victims
    <3> QED
      BY <1>2, <1>3, <1>4, <3>1, <3>2
  <2> QED
    BY <1>1, <1>2, <1>3, <2>1, FewAbove
<1> QED
  BY <1>1, <1>5, <1>6, <1>7

\* What Stores leaves in the cache.
LEMMA StoresCache ==
  ASSUME Inv, NEW j \in Job, Stores(j)
  PROVE  /\ At(j) \in Name /\ Wanted(j) \in Commit /\ Wanted(j) # None
         /\ cache' \in Commits /\ cache'[At(j)] = Wanted(j)
         /\ Cached' = (Cached \union {At(j)}) \ Victims(j)
         /\ \A m \in Cached' \ {At(j)} : cache'[m] = cache[m]
<1>1. job[j].at = "storing" /\ Pinned(job[j])
  BY DEF Stores, Pinned
<1>2. At(j) \in Name /\ Wanted(j) \in Commit /\ Wanted(j) # None
  BY <1>1, NameAtIsName, WantedIsPinned DEF Inv
<1>3. At(j) \notin Victims(j)
  BY <1>2, EvictKeepsTheHot
<1>4. cache' = [m \in Name |-> IF m \in Victims(j) THEN None
                              ELSE IF m = At(j) THEN Wanted(j) ELSE cache[m]]
  BY DEF Stores
<1>5. cache' \in Commits
  BY <1>2, <1>4 DEF Inv, TypeOK, Commits
<1> QED
  BY <1>2, <1>3, <1>4, <1>5 DEF Cached

LEMMA StoresInv == ASSUME Inv, NEW j \in Job, Stores(j) PROVE Inv'
<1> DEFINE n == At(j)
           S == Cached \union {n}
           V == Victims(j)
<1>1. job[j].at = "storing" /\ job[j].at \in Holding /\ GoodJob(j, job[j])
  BY DEF Stores, Holding, Inv, JobsInv
<1>2. /\ n \in Name /\ Wanted(j) \in Commit /\ Wanted(j) # None
      /\ cache' \in Commits /\ cache'[n] = Wanted(j) /\ Cached' = S \ V
      /\ \A m \in Cached' \ {n} : cache'[m] = cache[m]
  BY StoresCache
<1>3. /\ Ranks(Order(j), S) /\ n \notin V
      /\ \A a, b \in S : <<a, b>> \in Order(j) /\ b \in V => a \in V
  BY <1>2, EvictKeepsTheHot
<1>4. Ranks(recent', S \ V)
  <2>1. recent' = {used \in Order(j) : used[1] \notin V}
    BY DEF Stores
  <2>2. ASSUME NEW a, NEW b
        PROVE  <<a, b>> \in recent' <=> <<a, b>> \in Order(j) /\ a \notin V
    BY <2>1
  <2>3. recent' \subseteq (S \ V) \X (S \ V)
    <3> SUFFICES ASSUME NEW u \in recent' PROVE u \in (S \ V) \X (S \ V)
      OBVIOUS
    <3>1. u \in Order(j) /\ u[1] \notin V /\ u \in S \X S
      BY <1>3, <2>1 DEF Ranks
    <3>2. PICK a \in S, b \in S : u = <<a, b>>
      BY <3>1
    <3> QED
      BY <1>3, <3>1, <3>2
  <2> QED
    BY <1>3, <2>2, <2>3 DEF Ranks
<1>5. \A m \in Cached' : <<m, cache'[m]>> \in host'
  <2>1. PICK removed : /\ host' = host \ removed
                       /\ removed \subseteq {<<m, cache[m]>> : m \in V \ {n}} \union
                            (IF cache[n] \notin {None, Wanted(j)} THEN {<<n, cache[n]>>} ELSE {})
    BY <1>3 DEF Stores
  <2>2. <<n, Wanted(j)>> \in host
    <3>1. job[j].built /\ n = NameAt(job[j]) /\ Wanted(j) = Pin(job[j], n)
      BY <1>1, NameAtIsName, WantedIsPinned DEF GoodJob, Inv, Pinned
    <3> QED
      BY <3>1 DEF Inv, LoadedInv
  <2>3. <<n, Wanted(j)>> \in host'
    BY <2>1, <2>2
  <2>4. ASSUME NEW m \in Cached', m # n PROVE <<m, cache'[m]>> \in host'
    <3>1. m \in Cached /\ m \notin V /\ cache'[m] = cache[m]
      BY <1>2, <2>4
    <3>2. <<m, cache[m]>> \in host
      BY <3>1 DEF Inv, CachedIsOnHost
    <3> QED
      BY <2>1, <2>4, <3>1, <3>2
  <2> QED
    BY <1>2, <2>3, <2>4
<1>6. CachedIsOnHost'
  BY <1>2, <1>4, <1>5 DEF CachedIsOnHost
<1>7. job' \in [Job -> JobType] /\ JobsInv' /\ LockInv' /\ LoadedInv'
  <2>1. /\ GoodJob(j, Returned(j, Wanted(j))) /\ Returned(j, Wanted(j)).at \notin Holding
        /\ Becomes(j, Returned(j, Wanted(j))) /\ lock' = "none"
    BY <1>1, GoodReturn DEF Stores, Inv, Holding
  <2> QED
    BY <1>1, <2>1, Unlocks
<1>8. BoxInv' /\ RowsInv'
  <2>1. box' = "none"
    BY <1>1, NoBox DEF Stores
  <2> QED
    BY <2>1 DEF BoxInv, Stores, Inv, RowsInv, Agree
<1>9. TypeOK'
  <2>1. host' \subseteq host
    BY DEF Stores
  <2> QED
    BY <1>2, <1>7, <2>1 DEF Stores, Inv, TypeOK
<1> QED
  BY <1>6, <1>7, <1>8, <1>9 DEF Inv

LEMMA EnvironmentInv ==
  ASSUME Inv, (\E r \in Pushed : Pushes(r)) \/ Restart
  PROVE  Inv'
<1>1. ASSUME NEW r \in Pushed, Pushes(r) PROVE Inv'
  <2>1. head' \in [Repo -> Commit]
    BY <1>1, ImagesAssumption DEF Pushes, Inv, TypeOK, Commit
  <2>2. TypeOK'
    BY <1>1, <2>1 DEF Pushes, Inv, TypeOK
  <2> QED
    BY <1>1, <2>2 DEF Pushes, Inv, JobsInv, RowsInv, Agree, LockInv, BoxInv, LoadedInv,
                      CachedIsOnHost, Cached, Ranks
<1>2. CASE Restart
  <2>1. \A j \in Job : job'[j] = Idle /\ GoodJob(j, job'[j])
    BY <1>2, GoodIdle DEF Restart
  <2>2. JobsInv' /\ LockInv' /\ BoxInv' /\ LoadedInv'
    <3>1. "idle" \notin Holding /\ Idle.at = "idle" /\ ~Idle.built
      BY IdleType DEF Holding
    <3> QED
      BY <1>2, <2>1, <3>1, ImagesAssumption DEF Restart, JobsInv, LockInv, BoxInv, LoadedInv
  <2>3. TypeOK' /\ RowsInv'
    BY <1>2, IdleType DEF Restart, Inv, TypeOK, RowsInv, Agree
  <2>4. CachedIsOnHost'
    BY <1>2 DEF Restart, CachedIsOnHost, Cached, Ranks, NoCommits
  <2> QED
    BY <2>2, <2>3, <2>4 DEF Inv
<1> QED
  BY <1>1, <1>2

LEMMA Inductive == Inv /\ [Next]_vars => Inv'
<1> SUFFICES ASSUME Inv, [Next]_vars PROVE Inv'
  OBVIOUS
<1>1. ASSUME NEW j \in Job, PlayReads(j) \/ PublishBegins(j) \/ Acquires(j) PROVE Inv'
  BY <1>1, PlayReadsInv, PublishBeginsInv, CacheHitInv, CacheMissInv DEF Acquires
<1>2. ASSUME NEW j \in Job, Works(j) PROVE Inv'
  BY <1>2, PlayBootsInv, PublishResolvesInv, PublishRecordsInv, JobFailsInv, SandboxInv, StoresInv
  DEF Works
<1>3. CASE (\E r \in Pushed : Pushes(r)) \/ Restart
  BY <1>3, EnvironmentInv
<1>4. CASE UNCHANGED vars
  BY <1>4 DEF vars, Inv, TypeOK, JobsInv, RowsInv, Agree, LockInv, BoxInv, LoadedInv,
              CachedIsOnHost, Cached, Ranks
<1> QED
  BY <1>1, <1>2, <1>3, <1>4 DEF Next

-----------------------------------------------------------------------------
(* Theorems *)

\* Jobs, rows, cache and docker's store keep their types in every interleaving.
THEOREM TypeCorrect == Spec => []TypeOK
<1>1. Inv => TypeOK
  BY DEF Inv
<1> QED
  BY InitInv, Inductive, <1>1, PTL DEF Spec

\* Build's cache, entry by entry, is in docker's store, and evict's order ranks
\* exactly these entries, whatever failed, was invalidated, evicted or restarted.
THEOREM HitsAreOnHost == Spec => []CachedIsOnHost
<1>1. Inv => CachedIsOnHost
  BY DEF Inv
<1> QED
  BY InitInv, Inductive, <1>1, PTL DEF Spec

\* sandboxBuild's deferred removal comes before Build's deferred unlock.
THEOREM BuildsEndWithTheLock == Spec => []NoBuildOutlivesLock
<1>1. Inv => NoBuildOutlivesLock
  <2> SUFFICES ASSUME Inv, lock = "none" PROVE box = "none"
    BY DEF NoBuildOutlivesLock
  <2>1. CASE Job = {}
    BY <2>1 DEF Inv, BoxInv
  <2>2. CASE Job # {}
    BY <2>2, NoBox
  <2> QED
    BY <2>1, <2>2
<1> QED
  BY InitInv, Inductive, <1>1, PTL DEF Spec

\* repoHEAD resolves each repository once per build, one UPDATE pins what it
\* resolved, and one read gives it to a play: no Stack mixes two revisions.
THEOREM OneRevisionPerRepository == Spec => []NoMixedRevisions
<1>1. Inv => NoMixedRevisions
  <2> SUFFICES ASSUME Inv, NEW m \in Name, NEW n \in Name, m[1] = n[1], RepoOf[m] = RepoOf[n]
               PROVE  /\ pinned[m[1]].commits[m] = pinned[m[1]].commits[n]
                      /\ \A j \in Play : job[j].at = "up" /\ job[j].project = m[1]
                                        => job[j].images[m] = job[j].images[n]
    BY DEF NoMixedRevisions
  <2>1. pinned[m[1]].commits[m] = pinned[m[1]].commits[n]
    BY NameHasStep DEF Inv, RowsInv, Agree
  <2>2. ASSUME NEW j \in Play, job[j].at = "up", job[j].project = m[1]
        PROVE  job[j].images[m] = job[j].images[n]
    <3>1. GoodJob(j, job[j]) /\ Pinned(job[j])
      BY <2>2 DEF Inv, JobsInv, Pinned, Job
    <3>2. /\ job[j].images[m] = Pin(job[j], m) /\ job[j].images[n] = Pin(job[j], n)
          /\ job[j].commits[m] = job[j].commits[n]
      BY <2>2, <3>1 DEF GoodJob, Agree
    <3> QED
      BY <3>2 DEF Pin
  <2> QED
    BY <2>1, <2>2
<1> QED
  BY InitInv, Inductive, <1>1, PTL DEF Spec
\* The unlock of a build that stored its image.
UnlockStep ==
  \A j \in Job : lock = j /\ lock' = "none" /\ job[j].at = "storing" =>
    /\ cache'[At(j)] = job'[j].images[At(j)]
    /\ Cardinality(Cached') <= MaxImages

LEMMA UnlockKeepsNewcomer == Inv /\ [Next]_vars => [UnlockStep]_vars
<1> SUFFICES ASSUME Inv, Next, NEW j \in Job, lock = j, lock' = "none", job[j].at = "storing"
             PROVE  /\ cache'[At(j)] = job'[j].images[At(j)]
                    /\ Cardinality(Cached') <= MaxImages
  BY DEF UnlockStep
<1>1. j # "none" /\ lock # "none"
  BY ImagesAssumption
<1>2. CASE Stores(j)
  <2>1. /\ At(j) \in Name /\ cache'[At(j)] = Wanted(j)
        /\ Cached' = (Cached \union {At(j)}) \ Victims(j)
    BY <1>2, StoresCache
  <2>2. Returned(j, Wanted(j)).images[At(j)] = Wanted(j)
    BY GoodReturn DEF Inv, Holding
  <2>3. job'[j] = Returned(j, Wanted(j))
    BY <1>2 DEF Stores, Becomes, Inv, TypeOK
  <2> QED
    BY <2>1, <2>2, <2>3, EvictKeepsTheHot
<1>3. CASE Restart
  <2>1. At(j) \in Name
    BY NameAtIsName DEF Inv
  <2>2. cache' = NoCommits /\ job'[j].images = NoCommits
    BY <1>3 DEF Restart, Idle
  <2>3. Cached' = {} /\ Cardinality({}) = 0
    BY <2>2, FS_EmptySet DEF Cached, NoCommits
  <2> QED
    BY <2>2, <2>3, ImagesAssumption
<1>4. ASSUME NEW k \in Job, JobFails(k) PROVE FALSE
  <2>1. lock = k
    BY <1>1, <1>4 DEF JobFails
  <2> QED
    BY <1>4, <2>1 DEF JobFails
<1>5. ASSUME NEW k \in Job, Stores(k) PROVE k = j
  <2>1. lock = k
    BY <1>5, OnlyHolder DEF Stores, Holding, Inv
  <2> QED
    BY <2>1
<1>6. lock' # lock
  BY <1>1
<1>7. Restart \/ \E k \in Job : JobFails(k) \/ Stores(k)
  BY <1>1, <1>6
  DEF Next, Acquires, Works, PlayReads, PublishBegins, CacheHit, CacheMiss, PlayBoots,
      PublishResolves, PublishRecords, SandboxStarts, SandboxSucceeds, SandboxFails,
      SandboxTimesOut, Loads, RemovesBox, Pushes
<1> QED
  BY <1>2, <1>3, <1>4, <1>5, <1>7

\* evict never takes the image that Build is about to return, and leaves no more
\* than the cap: the newcomer has the latest tick, and the tick order is total.
THEOREM NewcomersStay == Spec => NewcomerStays
<1>1. Inv /\ [Next]_vars => [UnlockStep]_vars
  BY UnlockKeepsNewcomer
<1> QED
  BY InitInv, Inductive, <1>1, PTL DEF Spec, NewcomerStays, UnlockStep
=============================================================================
