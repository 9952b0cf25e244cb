------------------------------ MODULE Migrate ------------------------------
(***************************************************************************)
(* Schema migrations at startup (store.Migrate, called by main before it   *)
(* serves): control planes of several binaries start, crash and restart    *)
(* over one Postgres database.                                             *)
(*                                                                         *)
(* Abstractions.  A migration is its version and its checksum; that its    *)
(* body ran is counted in `ran`.  An error of any statement, the deadline  *)
(* of 30 s and a crash are one action, Dies: each ends the process, and    *)
(* with it its connection, so Postgres rolls back the open transaction and *)
(* releases the advisory lock.  Version bounds nothing: processes start    *)
(* again for ever.                                                         *)
(***************************************************************************)
EXTENDS Integers

CONSTANTS
  Process,    \* control-plane processes
  Binary,     \* the builds they may run
  Embedded    \* what loadMigrations returns: the checksum of each version of a binary

Version == UNION {DOMAIN Embedded[b] : b \in Binary}
Checksum == UNION {{Embedded[b][v] : v \in DOMAIN Embedded[b]} : b \in Binary}

ASSUME MigrateAssumption ==
  /\ "none" \notin Process
  /\ DOMAIN Embedded = Binary
  /\ \A b \in Binary : DOMAIN Embedded[b] \subseteq Nat \ {0}

VARIABLES
  pc,       \* where each process is
  binary,   \* the binary it runs
  holder,   \* the process that holds the advisory lock, or "none"
  table,    \* schema_migrations: version -> checksum
  ran,      \* how often the body of each version was committed
  seen,     \* Migrate's applied, as each process loaded it
  left      \* the versions its loop has not passed yet

vars == <<pc, binary, holder, table, ran, seen, left>>

Tables == UNION {[vs -> Checksum] : vs \in SUBSET Version}

NoTable == [v \in {} |-> "none"]

Init ==
  /\ pc = [p \in Process |-> "down"]
  /\ binary \in [Process -> Binary]
  /\ holder = "none"
  /\ table = NoTable
  /\ ran = [v \in Version |-> 0]
  /\ seen = [p \in Process |-> NoTable]
  /\ left = [p \in Process |-> {}]

Known(p) == DOMAIN Embedded[binary[p]]

\* v > maxKnown
Newer(p, v) == \A k \in Known(p) : k < v

\* The loop's next migration: they are sorted by version.
IsNext(p, v) == v \in left[p] /\ \A w \in left[p] : v <= w

Goes(p, to) == pc' = [pc EXCEPT ![p] = to]

-----------------------------------------------------------------------------

Start(p) ==
  /\ pc[p] = "down"
  /\ Goes(p, "locking")
  /\ \E b \in Binary : binary' = [binary EXCEPT ![p] = b]
  /\ UNCHANGED <<holder, table, ran, seen, left>>

\* Mutant: the lock is shared.
Lock_Shared(p) ==
  /\ pc[p] = "locking"
  /\ Goes(p, "loading")
  /\ holder' = p
  /\ UNCHANGED <<binary, table, ran, seen, left>>

\* pg_advisory_lock
Lock(p) ==
  /\ pc[p] = "locking" /\ holder = "none"
  /\ Goes(p, "loading")
  /\ holder' = p
  /\ UNCHANGED <<binary, table, ran, seen, left>>

\* loadApplied, and the check that no applied version is newer than the binary.
Load(p) ==
  /\ pc[p] = "loading"
  /\ \A v \in DOMAIN table : ~Newer(p, v)
  /\ Goes(p, "looping")
  /\ seen' = [seen EXCEPT ![p] = table]
  /\ left' = [left EXCEPT ![p] = Known(p)]
  /\ UNCHANGED <<binary, holder, table, ran>>

\* Mutant: an edited file passes.
Skip_Unchecked(p) ==
  /\ pc[p] = "looping"
  /\ \E v \in DOMAIN seen[p] :
       /\ IsNext(p, v)
       /\ left' = [left EXCEPT ![p] = @ \ {v}]
  /\ UNCHANGED <<pc, binary, holder, table, ran, seen>>

\* The version is applied, from the same file.
Skip(p) ==
  /\ pc[p] = "looping"
  /\ \E v \in DOMAIN seen[p] :
       /\ IsNext(p, v) /\ seen[p][v] = Embedded[binary[p]][v]
       /\ left' = [left EXCEPT ![p] = @ \ {v}]
  /\ UNCHANGED <<pc, binary, holder, table, ran, seen>>

\* Mutant: the body commits on its own, before the row.
RunBody_Commits(p) ==
  /\ pc[p] = "looping"
  /\ \E v \in left[p] \ DOMAIN seen[p] :
       IsNext(p, v) /\ ran' = [ran EXCEPT ![v] = @ + 1]
  /\ Goes(p, "committing")
  /\ UNCHANGED <<binary, holder, table, seen, left>>

\* applyOne: the body of the next pending migration runs in a transaction.
RunBody(p) ==
  /\ pc[p] = "looping"
  /\ \E v \in left[p] \ DOMAIN seen[p] : IsNext(p, v)
  /\ Goes(p, "committing")
  /\ UNCHANGED <<binary, holder, table, ran, seen, left>>

\* applyOne: the row goes in with the body.  A row that is there already is a
\* duplicate key: the INSERT fails (Dies).
Commit(p) ==
  /\ pc[p] = "committing"
  /\ \E v \in left[p] \ DOMAIN table :
       /\ IsNext(p, v)
       /\ table' = [w \in DOMAIN table \union {v} |->
                      IF w = v THEN Embedded[binary[p]][v] ELSE table[w]]
       /\ ran' = [ran EXCEPT ![v] = @ + 1]
       /\ left' = [left EXCEPT ![p] = @ \ {v}]
  /\ Goes(p, "looping")
  /\ UNCHANGED <<binary, holder, seen>>

\* Migrate returns nil; its defer unlocks.
Unlock(p) ==
  /\ pc[p] = "looping" /\ left[p] = {}
  /\ Goes(p, "migrated")
  /\ holder' = "none"
  /\ seen' = [seen EXCEPT ![p] = NoTable]
  /\ UNCHANGED <<binary, table, ran, left>>

Serve(p) ==
  /\ pc[p] = "migrated"
  /\ Goes(p, "serving")
  /\ UNCHANGED <<binary, holder, table, ran, seen, left>>

\* A newer database, an edited file or any error: main exits.  Or a crash.
Dies(p) ==
  /\ pc[p] # "down"
  /\ Goes(p, "down")
  /\ holder' = IF holder = p THEN "none" ELSE holder
  /\ seen' = [seen EXCEPT ![p] = NoTable]
  /\ left' = [left EXCEPT ![p] = {}]
  /\ UNCHANGED <<binary, table, ran>>

Next ==
  \E p \in Process :
    \/ Start(p) \/ Lock(p) \/ Load(p) \/ Skip(p) \/ RunBody(p) \/ Commit(p)
    \/ Unlock(p) \/ Serve(p) \/ Dies(p)

Spec == Init /\ [][Next]_vars

-----------------------------------------------------------------------------
(* Properties *)

PC == {"down", "locking", "loading", "looping", "committing", "migrated", "serving"}

TypeOK ==
  /\ pc \in [Process -> PC]
  /\ binary \in [Process -> Binary]
  /\ holder \in Process \union {"none"}
  /\ table \in Tables
  /\ ran \in [Version -> Nat]
  /\ seen \in [Process -> Tables]
  /\ left \in [Process -> SUBSET Version]
  /\ \A p \in Process : holder = p <=> pc[p] \in {"loading", "looping", "committing"}

\* applyOne: a crash leaves neither a body without its row nor a row without
\* its body, and no body is ever committed twice.
AppliedOnce == \A v \in Version : ran[v] = (IF v \in DOMAIN table THEN 1 ELSE 0)

\* The lock makes a second process wait and find the work done: it never
\* runs a body whose row another process has committed since it looked.
NoCollision ==
  \A p \in Process : pc[p] = "committing" =>
    \A v \in left[p] : IsNext(p, v) => v \notin DOMAIN table

\* main serves only on a schema that holds every migration of its binary,
\* unedited, whoever applied them.
ServesCompleteSchema ==
  \A p \in Process : pc[p] \in {"migrated", "serving"} =>
    \A v \in Known(p) : v \in DOMAIN table /\ table[v] = Embedded[binary[p]][v]

\* No binary migrates a database that a newer one has migrated, also when the
\* newer one starts at the same time.
NeverBehind ==
  \A p \in Process : pc[p] \in {"looping", "committing"} =>
    \A v \in DOMAIN table : ~Newer(p, v)

\* Binaries that append: what one knows, every longer one knows too.
AppendOnly ==
  \A b \in Binary : \A v \in DOMAIN Embedded[b], w \in Version :
    w < v => w \in DOMAIN Embedded[b]

\* Where binaries append, a crash at any point leaves a gapless history.
NoGaps ==
  AppendOnly => \A v \in DOMAIN table, w \in Version : w < v => w \in DOMAIN table
=============================================================================
