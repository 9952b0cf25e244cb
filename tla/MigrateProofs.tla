--------------------------- MODULE MigrateProofs ---------------------------
(***************************************************************************)
(* Theorems about Migrate, for any number of processes and any binaries.   *)
(* The invariant is MigrateInv: the process that holds the advisory lock   *)
(* has an up-to-date view of schema_migrations (Informed), because nobody  *)
(* writes it without the lock.                                             *)
(***************************************************************************)
EXTENDS Migrate, TLAPS

Working == {"looping", "committing"}

\* What the loop of p relies on.
Informed(p) ==
  /\ left[p] \subseteq Known(p)
  /\ \A v \in left[p] : v \in DOMAIN seen[p] <=> v \in DOMAIN table
  /\ \A v \in DOMAIN seen[p] : v \in DOMAIN table /\ seen[p][v] = table[v]
  /\ \A v \in Known(p) \ left[p] :
       v \in DOMAIN table /\ table[v] = Embedded[binary[p]][v]
  /\ pc[p] = "committing" =>
       \A v \in left[p] : IsNext(p, v) => v \notin DOMAIN seen[p]

InformedInv == \A p \in Process : pc[p] \in Working => Informed(p)

MigrateInv ==
  /\ TypeOK /\ AppliedOnce /\ InformedInv
  /\ NeverBehind /\ ServesCompleteSchema /\ NoGaps

-----------------------------------------------------------------------------
\* Facts about tables and versions.

LEMMA VersionsAreNumbers == Version \subseteq Nat \ {0}
BY MigrateAssumption DEF Version

LEMMA KnownVersions ==
  ASSUME NEW p \in Process, binary \in [Process -> Binary]
  PROVE  /\ Known(p) \subseteq Version
         /\ \A v \in Known(p) : Embedded[binary[p]][v] \in Checksum
BY DEF Known, Version, Checksum

LEMMA EmptyTable == NoTable \in Tables /\ DOMAIN NoTable = {}
<1>1. NoTable \in [{} -> Checksum] BY DEF NoTable
<1>2. {} \in SUBSET Version OBVIOUS
<1> QED BY <1>1, <1>2 DEF Tables, NoTable

LEMMA TableFacts ==
  ASSUME NEW t \in Tables
  PROVE  DOMAIN t \subseteq Version
BY DEF Tables

\* Adding a row to a table makes a table.
LEMMA TableGrows ==
  ASSUME NEW t \in Tables, NEW v \in Version, NEW c \in Checksum, NEW u,
         u = [w \in DOMAIN t \union {v} |-> IF w = v THEN c ELSE t[w]]
  PROVE  u \in Tables
<1>1. DOMAIN t \in SUBSET Version /\ t \in [DOMAIN t -> Checksum] BY DEF Tables
<1>2. DOMAIN t \union {v} \in SUBSET Version BY <1>1
<1>3. u \in [DOMAIN t \union {v} -> Checksum] BY <1>1
<1> QED BY <1>2, <1>3 DEF Tables

-----------------------------------------------------------------------------
\* The types, and the lock held exactly by the process at work.

LEMMA TypeInit == Init => TypeOK
BY EmptyTable, MigrateAssumption DEF Init, TypeOK, PC

LEMMA TypeStep == TypeOK /\ InformedInv /\ [Next]_vars => TypeOK'
<1> SUFFICES ASSUME TypeOK, InformedInv, [Next]_vars PROVE TypeOK'
  OBVIOUS
<1> USE MigrateAssumption DEF TypeOK, PC, Goes
<1>1. ASSUME NEW p \in Process, Start(p) PROVE TypeOK'
  BY <1>1 DEF Start
<1>2. ASSUME NEW p \in Process, Lock(p) PROVE TypeOK'
  BY <1>2 DEF Lock
<1>3. ASSUME NEW p \in Process, Load(p) PROVE TypeOK'
  BY <1>3, KnownVersions DEF Load
<1>4. ASSUME NEW p \in Process, Skip(p) PROVE TypeOK'
  BY <1>4 DEF Skip
<1>5. ASSUME NEW p \in Process, RunBody(p) PROVE TypeOK'
  BY <1>5 DEF RunBody
<1>6. ASSUME NEW p \in Process, Commit(p) PROVE TypeOK'
  <2>1. PICK v \in left[p] \ DOMAIN table :
          /\ IsNext(p, v)
          /\ table' = [w \in DOMAIN table \union {v} |->
                         IF w = v THEN Embedded[binary[p]][v] ELSE table[w]]
          /\ ran' = [ran EXCEPT ![v] = @ + 1]
          /\ left' = [left EXCEPT ![p] = @ \ {v}]
    BY <1>6 DEF Commit
  <2>2. v \in Known(p) /\ v \in Version /\ Embedded[binary[p]][v] \in Checksum
    BY <1>6, <2>1, KnownVersions DEF Commit, InformedInv, Informed, Working
  <2>3. table' \in Tables
    <3>1. table \in Tables
      OBVIOUS
    <3> HIDE DEF TypeOK
    <3> QED BY <2>1, <2>2, <3>1, TableGrows
  <2> QED BY <1>6, <2>1, <2>2, <2>3 DEF Commit
<1>7. ASSUME NEW p \in Process, Unlock(p) PROVE TypeOK'
  BY <1>7, EmptyTable DEF Unlock
<1>8. ASSUME NEW p \in Process, Serve(p) PROVE TypeOK'
  BY <1>8 DEF Serve
<1>9. ASSUME NEW p \in Process, Dies(p) PROVE TypeOK'
  BY <1>9, EmptyTable DEF Dies
<1>10. CASE UNCHANGED vars
  BY <1>10 DEF vars
<1> QED
  BY <1>1, <1>2, <1>3, <1>4, <1>5, <1>6, <1>7, <1>8, <1>9, <1>10 DEF Next

-----------------------------------------------------------------------------
\* The other conjuncts, a step at a time.

\* Steps that leave the table alone.
LEMMA QuietStep ==
  ASSUME MigrateInv, [Next]_vars, UNCHANGED <<table, ran>>
  PROVE  AppliedOnce' /\ NoGaps'
BY DEF MigrateInv, AppliedOnce, NoGaps

\* A commit extends the history by the holder's next version.
LEMMA CommitStep ==
  ASSUME MigrateInv, NEW p \in Process, Commit(p)
  PROVE  /\ AppliedOnce' /\ InformedInv'
         /\ NeverBehind' /\ ServesCompleteSchema' /\ NoGaps'
<1> USE MigrateAssumption DEF MigrateInv
<1>1. PICK v \in left[p] \ DOMAIN table :
        /\ IsNext(p, v)
        /\ table' = [w \in DOMAIN table \union {v} |->
                       IF w = v THEN Embedded[binary[p]][v] ELSE table[w]]
        /\ ran' = [ran EXCEPT ![v] = @ + 1]
        /\ left' = [left EXCEPT ![p] = @ \ {v}]
  BY DEF Commit
<1>2. /\ pc[p] = "committing" /\ pc' = [pc EXCEPT ![p] = "looping"]
      /\ UNCHANGED <<binary, holder, seen>>
  BY DEF Commit, Goes
<1>3. Informed(p) /\ v \in Known(p) /\ v \in Version
  BY <1>1, <1>2, KnownVersions DEF InformedInv, Informed, Working, TypeOK
<1>n. IsNext(p, v) /\ \A w \in left[p] : v <= w
  BY <1>1 DEF IsNext
<1>4. DOMAIN table' = DOMAIN table \union {v} /\ table'[v] = Embedded[binary[p]][v]
  BY <1>1
<1>5. \A w \in DOMAIN table : table'[w] = table[w]
  BY <1>1
<1>6. \A q \in Process : pc[q] \in Working => q = p
  BY <1>2 DEF TypeOK, Working
<1>7. AppliedOnce'
  BY <1>1, <1>3, <1>4 DEF AppliedOnce, TypeOK
<1>8. InformedInv'
  <2>1. SUFFICES Informed(p)'
    BY <1>2, <1>6 DEF InformedInv, Working, TypeOK
  <2>2. left'[p] = left[p] \ {v} /\ pc'[p] = "looping" /\ Known(p)' = Known(p)
    BY <1>1, <1>2 DEF TypeOK, Known
  <2> QED BY <1>1, <1>2, <1>3, <1>4, <1>5, <2>2 DEF Informed
<1>9. NeverBehind'
  <2> SUFFICES ASSUME NEW q \in Process, pc'[q] \in Working,
                      NEW w \in DOMAIN table', Newer(q, w)'
               PROVE  FALSE
    BY DEF NeverBehind, Working
  <2>1. q = p
    BY <1>2, <1>6 DEF TypeOK, Working
  <2>2. Newer(p, w)
    BY <1>2, <2>1 DEF Newer, Known
  <2>3. w \in DOMAIN table
    BY <1>3, <1>4, <2>2, VersionsAreNumbers DEF Newer
  <2> QED BY <1>2, <2>2, <2>3 DEF NeverBehind
<1>10. ServesCompleteSchema'
  BY <1>2, <1>4, <1>5 DEF ServesCompleteSchema, Known, TypeOK
<1>11. NoGaps'
  <2> SUFFICES ASSUME AppendOnly, NEW w \in DOMAIN table', NEW x \in Version, x < w
               PROVE  x \in DOMAIN table'
    BY DEF NoGaps, AppendOnly, Version
  <2>1. CASE w \in DOMAIN table
    BY <1>4, <2>1 DEF NoGaps
  <2>2. CASE w = v
    <3>1. x \in Known(p)
      BY <1>3, <2>2 DEF AppendOnly, Known, TypeOK
    <3>2. x \notin left[p]
      <4>1. x \in Nat /\ v \in Nat
        BY <1>3, VersionsAreNumbers
      <4>2. ~(v <= x)
        BY <2>2, <4>1
      <4> QED BY <1>n, <4>2
    <3> QED BY <1>3, <1>4, <3>1, <3>2 DEF Informed
  <2> QED BY <1>4, <2>1, <2>2
<1> QED BY <1>7, <1>8, <1>9, <1>10, <1>11

\* A step of p that changes no row, and makes p's own part of the invariant true.
LEMMA OtherStep ==
  ASSUME MigrateInv, NEW p \in Process,
         UNCHANGED table,
         \A q \in Process \ {p} :
           pc'[q] = pc[q] /\ binary'[q] = binary[q]
             /\ seen'[q] = seen[q] /\ left'[q] = left[q],
         pc'[p] \in Working => Informed(p)' /\ \A v \in DOMAIN table : ~Newer(p, v)',
         pc'[p] \in {"migrated", "serving"} =>
           \A v \in Known(p)' : v \in DOMAIN table /\ table[v] = Embedded[binary'[p]][v]
  PROVE  InformedInv' /\ NeverBehind' /\ ServesCompleteSchema'
<1>1. ASSUME NEW q \in Process, q # p
      PROVE  /\ Known(q)' = Known(q)
             /\ Informed(q)' <=> Informed(q)
             /\ \A v : Newer(q, v)' <=> Newer(q, v)
  BY <1>1 DEF Known, Informed, Newer, IsNext
<1>2. InformedInv'
  BY <1>1 DEF MigrateInv, InformedInv
<1>3. NeverBehind'
  BY <1>1 DEF MigrateInv, NeverBehind, Working
<1>4. ServesCompleteSchema'
  BY <1>1 DEF MigrateInv, ServesCompleteSchema
<1> QED BY <1>2, <1>3, <1>4

-----------------------------------------------------------------------------
LEMMA MigrateInit == Init => MigrateInv
<1> SUFFICES ASSUME Init PROVE MigrateInv
  OBVIOUS
<1>1. TypeOK
  BY TypeInit
<1>2. InformedInv /\ NeverBehind /\ ServesCompleteSchema
  BY DEF Init, InformedInv, NeverBehind, ServesCompleteSchema, Working
<1>3. AppliedOnce /\ NoGaps
  BY EmptyTable DEF Init, AppliedOnce, NoGaps
<1> QED BY <1>1, <1>2, <1>3 DEF MigrateInv

LEMMA MigrateStep == MigrateInv /\ [Next]_vars => MigrateInv'
<1> SUFFICES ASSUME MigrateInv, [Next]_vars PROVE MigrateInv'
  OBVIOUS
<1>t. TypeOK' BY TypeStep DEF MigrateInv
<1> DEFINE Rest == AppliedOnce' /\ InformedInv'
                     /\ NeverBehind' /\ ServesCompleteSchema' /\ NoGaps'
<1>1. ASSUME NEW p \in Process, Start(p) \/ Lock(p) \/ Dies(p) PROVE Rest
  <2>1. UNCHANGED <<table, ran>> /\ pc'[p] \in {"locking", "loading", "down"}
    BY <1>1 DEF Start, Lock, Dies, Goes, MigrateInv, TypeOK
  <2>2. \A q \in Process \ {p} :
          pc'[q] = pc[q] /\ binary'[q] = binary[q]
            /\ seen'[q] = seen[q] /\ left'[q] = left[q]
    BY <1>1 DEF Start, Lock, Dies, Goes, MigrateInv, TypeOK
  <2> QED BY <2>1, <2>2, QuietStep, OtherStep DEF Working
<1>2. ASSUME NEW p \in Process, Load(p) PROVE Rest
  <2>1. /\ UNCHANGED <<table, ran, binary>> /\ pc'[p] = "looping"
        /\ seen'[p] = table /\ left'[p] = Known(p) /\ Known(p)' = Known(p)
    BY <1>2 DEF Load, Goes, MigrateInv, TypeOK, Known
  <2>2. \A q \in Process \ {p} :
          pc'[q] = pc[q] /\ binary'[q] = binary[q]
            /\ seen'[q] = seen[q] /\ left'[q] = left[q]
    BY <1>2 DEF Load, Goes, MigrateInv, TypeOK
  <2>3. Informed(p)' /\ \A v \in DOMAIN table : ~Newer(p, v)'
    BY <1>2, <2>1 DEF Load, Informed, Newer
  <2> QED BY <2>1, <2>2, <2>3, QuietStep, OtherStep
<1>3. ASSUME NEW p \in Process, Skip(p) PROVE Rest
  <2>1. /\ UNCHANGED <<table, ran, binary, pc, seen>>
        /\ pc[p] = "looping" /\ Known(p)' = Known(p)
    BY <1>3 DEF Skip, Known
  <2>2. \A q \in Process \ {p} : left'[q] = left[q]
    BY <1>3 DEF Skip, MigrateInv, TypeOK
  <2>3. Informed(p) /\ \A v \in DOMAIN table : ~Newer(p, v)
    BY <2>1 DEF MigrateInv, InformedInv, NeverBehind, Working
  <2>4. PICK v \in DOMAIN seen[p] :
          /\ v \in left[p] /\ seen[p][v] = Embedded[binary[p]][v]
          /\ left'[p] = left[p] \ {v}
    BY <1>3 DEF Skip, IsNext, MigrateInv, TypeOK
  <2>5. Informed(p)' /\ \A w \in DOMAIN table : ~Newer(p, w)'
    BY <2>1, <2>3, <2>4 DEF Informed, Newer
  <2> QED BY <2>1, <2>2, <2>5, QuietStep, OtherStep
<1>4. ASSUME NEW p \in Process, RunBody(p) PROVE Rest
  <2>1. /\ UNCHANGED <<table, ran, binary, seen, left>>
        /\ pc[p] = "looping" /\ pc'[p] = "committing" /\ Known(p)' = Known(p)
    BY <1>4 DEF RunBody, Goes, Known, MigrateInv, TypeOK
  <2>2. \A q \in Process \ {p} : pc'[q] = pc[q]
    BY <1>4 DEF RunBody, Goes, MigrateInv, TypeOK
  <2>3. Informed(p) /\ \A v \in DOMAIN table : ~Newer(p, v)
    BY <2>1 DEF MigrateInv, InformedInv, NeverBehind, Working
  <2>4. PICK v \in left[p] \ DOMAIN seen[p] : IsNext(p, v)
    BY <1>4 DEF RunBody
  <2>5. left[p] \subseteq Nat
    BY VersionsAreNumbers DEF MigrateInv, TypeOK
  <2>6. \A w \in left[p] : IsNext(p, w) => w = v
    BY <2>4, <2>5 DEF IsNext
  <2>7. Informed(p)' /\ \A w \in DOMAIN table : ~Newer(p, w)'
    BY <2>1, <2>3, <2>4, <2>6 DEF Informed, Newer, IsNext
  <2> QED BY <2>1, <2>2, <2>7, QuietStep, OtherStep
<1>5. ASSUME NEW p \in Process, Commit(p) PROVE Rest
  BY <1>5, CommitStep
<1>6. ASSUME NEW p \in Process, Unlock(p) PROVE Rest
  <2>1. /\ UNCHANGED <<table, ran, binary, left>>
        /\ pc[p] = "looping" /\ pc'[p] = "migrated" /\ Known(p)' = Known(p) /\ left[p] = {}
    BY <1>6 DEF Unlock, Goes, Known, MigrateInv, TypeOK
  <2>2. \A q \in Process \ {p} : pc'[q] = pc[q] /\ seen'[q] = seen[q]
    BY <1>6 DEF Unlock, Goes, MigrateInv, TypeOK
  <2>3. \A v \in Known(p) : v \in DOMAIN table /\ table[v] = Embedded[binary[p]][v]
    BY <2>1 DEF MigrateInv, InformedInv, Informed, Working
  <2> QED BY <2>1, <2>2, <2>3, QuietStep, OtherStep DEF Working
<1>7. ASSUME NEW p \in Process, Serve(p) PROVE Rest
  <2>1. /\ UNCHANGED <<table, ran, binary, seen, left>>
        /\ pc[p] = "migrated" /\ pc'[p] = "serving" /\ Known(p)' = Known(p)
    BY <1>7 DEF Serve, Goes, Known, MigrateInv, TypeOK
  <2>2. \A q \in Process \ {p} : pc'[q] = pc[q]
    BY <1>7 DEF Serve, Goes, MigrateInv, TypeOK
  <2> QED BY <2>1, <2>2, QuietStep, OtherStep DEF Working, MigrateInv, ServesCompleteSchema
<1>8. CASE UNCHANGED vars
  <2>1. /\ UNCHANGED <<pc, binary, table, ran, seen, left>>
        /\ \A p \in Process : Known(p)' = Known(p)
    BY <1>8 DEF vars, Known
  <2>2. AppliedOnce' /\ NoGaps'
    BY <2>1, QuietStep
  <2>3. \A p \in Process : \A v : Newer(p, v)' <=> Newer(p, v)
    BY <2>1 DEF Newer
  <2>4. \A p \in Process : Informed(p)' <=> Informed(p)
    BY <2>1 DEF Informed, IsNext
  <2>5. InformedInv' /\ NeverBehind'
    BY <2>1, <2>3, <2>4 DEF MigrateInv, InformedInv, NeverBehind
  <2>6. ServesCompleteSchema'
    <3>1. \A p \in Process : pc'[p] = pc[p] /\ Embedded[binary'[p]] = Embedded[binary[p]]
      BY <2>1
    <3>2. SUFFICES ASSUME NEW p \in Process, pc[p] \in {"migrated", "serving"},
                          NEW v \in Known(p)
                   PROVE  v \in DOMAIN table /\ table[v] = Embedded[binary[p]][v]
      BY <2>1, <3>1 DEF ServesCompleteSchema
    <3> QED BY <3>2 DEF MigrateInv, ServesCompleteSchema
  <2> QED BY <1>t, <2>2, <2>5, <2>6 DEF MigrateInv
<1> QED
  BY <1>t, <1>1, <1>2, <1>3, <1>4, <1>5, <1>6, <1>7, <1>8 DEF Next, MigrateInv

LEMMA Invariant == Spec => []MigrateInv
<1>1. QED BY MigrateInit, MigrateStep, PTL DEF Spec

\* The lock is held exactly by the process at work between its load and its
\* unlock, also when it dies there.
THEOREM TypeCorrect == Spec => []TypeOK
<1>1. MigrateInv => TypeOK BY DEF MigrateInv
<1>2. QED BY Invariant, <1>1, PTL

\* Every migration's body is committed as often as its row: at most once.
THEOREM ExactlyOnce == Spec => []AppliedOnce
<1>1. MigrateInv => AppliedOnce BY DEF MigrateInv
<1>2. QED BY Invariant, <1>1, PTL

\* Under the lock nobody runs a body that another process has applied.
THEOREM LockSerialises == Spec => []NoCollision
<1>1. MigrateInv => NoCollision
  BY DEF MigrateInv, NoCollision, InformedInv, Informed, Working
<1>2. QED BY Invariant, <1>1, PTL

\* A control plane that serves has every migration of its binary, unedited.
THEOREM ServesMigrated == Spec => []ServesCompleteSchema
<1>1. MigrateInv => ServesCompleteSchema BY DEF MigrateInv
<1>2. QED BY Invariant, <1>1, PTL

\* No binary migrates a database that a newer one has migrated.
THEOREM RefusesNewer == Spec => []NeverBehind
<1>1. MigrateInv => NeverBehind BY DEF MigrateInv
<1>2. QED BY Invariant, <1>1, PTL

\* Where binaries append, the history has no gaps, wherever processes crash.
THEOREM HistoryIsPrefix == Spec => []NoGaps
<1>1. MigrateInv => NoGaps BY DEF MigrateInv
<1>2. QED BY Invariant, <1>1, PTL
=============================================================================
