-------------------------------- MODULE Startup --------------------------------
(***************************************************************************)
(* Processes that start on one storage: storage::prepare (src/src/         *)
(* storage.rs), which removes the partial files it finds, and              *)
(* Database::open with run_migrations (src/src/db.rs).  `run`, `cache ...` *)
(* and `config check` all start this way, also beside a running server.    *)
(*                                                                         *)
(* A step is one file-system call or one SQL statement.  The probes of     *)
(* prepare leave nothing behind and are part of Launch.  SQLite is in WAL  *)
(* mode: a transaction is deferred, reads from the snapshot of its first   *)
(* statement, waits for the write lock if that statement writes, and is    *)
(* refused at once when it asks for the lock after it has read and the     *)
(* database was locked or changed meanwhile.                               *)
(***************************************************************************)
EXTENDS Naturals, TempFiles

CONSTANTS
    Procs,         \* the processes
    NoProcess,
    Target,        \* MIGRATIONS.len()
    Idempotent     \* the migrations that do nothing when they are applied again

ASSUME StartupAssumption ==
    /\ Target \in Nat
    /\ Idempotent \subseteq 1 .. Target
    /\ NoProcess \notin Procs

VARIABLES
    version,       \* PRAGMA user_version, as committed
    applied,       \* the migrations whose changes are committed
    writer,        \* who holds the write lock of the database
    stage,         \* how far each start has come
    listing,       \* the partial files a start has found and not yet removed
    index,         \* the migration it is at
    snapshot       \* what its transaction has read: nothing, or a database that
                   \* is still the current one, or one that is not

databaseVars == <<version, applied, writer, snapshot>>
processVars == <<stage, listing, index, databaseVars>>
startVars == <<parts, processVars>>

Starting == {"sweep", "migrate", "stamp", "commit"}
Stages == {"idle", "up", "failed"} \cup Starting

\* A transaction that ends without a commit is rolled back.  (Mutant: its lock
\* stays.)
RolledBackHeld(p) ==
    /\ snapshot' = [snapshot EXCEPT ![p] = "none"]
    /\ UNCHANGED <<writer, version, applied>>
RolledBack(p) ==
    /\ writer' = IF writer = p THEN NoProcess ELSE writer
    /\ snapshot' = [snapshot EXCEPT ![p] = "none"]
    /\ UNCHANGED <<version, applied>>

Quit(p, at) ==
    /\ stage' = [stage EXCEPT ![p] = at]
    /\ listing' = [listing EXCEPT ![p] = {}]
    /\ index' = [index EXCEPT ![p] = 0]
    /\ RolledBack(p)

Reach(p, at) == stage' = [stage EXCEPT ![p] = at]

-----------------------------------------------------------------------------
(* storage::prepare                                                         *)

Launch(p) ==
    /\ stage[p] = "idle"
    /\ Reach(p, "sweep")
    /\ listing' = [listing EXCEPT ![p] = parts]
    /\ UNCHANGED <<parts, index, databaseVars>>

\* cleanup_parts removes what it found, file by file; one that is gone by then
\* is an error that ends the start.
Sweep(p) ==
    /\ stage[p] = "sweep"
    /\ \E f \in listing[p] :
          IF f \in parts
          THEN /\ parts' = parts \ {f}
               /\ listing' = [listing EXCEPT ![p] = @ \ {f}]
               /\ UNCHANGED <<stage, index, databaseVars>>
          ELSE Quit(p, "failed") /\ UNCHANGED parts

\* (Mutant: what follows does not wait for the sweep.)
SweptEarly(p) == stage[p] = "sweep"
Swept(p) == stage[p] = "sweep" /\ listing[p] = {}

\* `config check` only prepares the storage.
Checked(p) ==
    /\ Swept(p)
    /\ Quit(p, "idle")
    /\ UNCHANGED parts

-----------------------------------------------------------------------------
(* run_migrations                                                           *)

\* The version is read before any transaction.  (Mutant: a new
\* database is taken for one of the first version.)
FirstOfSkipping(v) == IF v = 0 THEN 2 ELSE v + 1
FirstOf(v) == v + 1

ReadVersion(p) ==
    /\ Swept(p)
    /\ index' = [index EXCEPT ![p] = FirstOf(version)]
    /\ Reach(p, "migrate")
    /\ UNCHANGED <<parts, listing, databaseVars>>

\* (Mutant: the last migration is taken for applied.)
PendingEarly(i) == i < Target
Pending(i) == i <= Target

Ready(p) ==
    /\ stage[p] = "migrate" /\ ~Pending(index[p])
    /\ Reach(p, "up")
    /\ UNCHANGED <<parts, listing, index, databaseVars>>

\* execute_batch, the first statements of the transaction.  What is there already
\* is only read (CREATE TABLE IF NOT EXISTS) or refused (ALTER TABLE ADD COLUMN).
Apply(p) ==
    LET i == index[p] IN
    /\ stage[p] = "migrate" /\ Pending(i)
    /\ \/ /\ i \in applied \cap Idempotent
          /\ snapshot' = [snapshot EXCEPT ![p] = "current"]
          /\ Reach(p, "stamp")
          /\ UNCHANGED <<version, applied, writer, listing, index>>
       \/ /\ i \in applied \ Idempotent
          /\ Quit(p, "failed")
       \/ /\ i \notin applied /\ writer = NoProcess
          /\ writer' = p
          /\ snapshot' = [snapshot EXCEPT ![p] = "current"]
          /\ Reach(p, "stamp")
          /\ UNCHANGED <<version, applied, listing, index>>
    /\ UNCHANGED parts

\* The busy timeout passes while another process holds the lock.
TimeOut(p) ==
    /\ stage[p] = "migrate" /\ Pending(index[p])
    /\ index[p] \notin applied /\ writer # NoProcess
    /\ Quit(p, "failed")
    /\ UNCHANGED parts

\* PRAGMA user_version = i.
MayWrite(p) == writer = p \/ (writer = NoProcess /\ snapshot[p] = "current")

Stamp(p) ==
    /\ stage[p] = "stamp"
    /\ IF MayWrite(p)
       THEN /\ writer' = p
            /\ Reach(p, "commit")
            /\ UNCHANGED <<version, applied, snapshot, listing, index>>
       ELSE Quit(p, "failed")
    /\ UNCHANGED parts

\* The snapshots of the others are no longer the current database.
Commit(p) ==
    /\ stage[p] = "commit"
    /\ version' = index[p]
    /\ applied' = applied \cup {index[p]}
    /\ writer' = NoProcess
    /\ snapshot' = [q \in Procs |->
                      IF q = p \/ snapshot[q] = "none" THEN "none" ELSE "outdated"]
    /\ index' = [index EXCEPT ![p] = @ + 1]
    /\ Reach(p, "migrate")
    /\ UNCHANGED <<parts, listing>>

-----------------------------------------------------------------------------
(* The process ends by itself, or is killed at any step.                    *)

Exit(p) ==
    /\ stage[p] \in {"up", "failed"}
    /\ Quit(p, "idle")
    /\ UNCHANGED parts

Kill(p) ==
    /\ stage[p] \in Starting \cup {"up"}
    /\ Quit(p, "idle")
    /\ UNCHANGED parts

\* A new database; one of a development build before there were versions; and
\* those of every release since.
StartInit ==
    /\ parts \in SUBSET Names
    /\ version \in 0 .. Target
    /\ applied \in {1 .. version, (1 .. version) \cup (Idempotent \cap {version + 1})}
    /\ (version > 0 => applied = 1 .. version)
    /\ writer = NoProcess
    /\ stage = [p \in Procs |-> "idle"]
    /\ listing = [p \in Procs |-> {}]
    /\ index = [p \in Procs |-> 0]
    /\ snapshot = [p \in Procs |-> "none"]

StartStep(p) ==
    \/ Sweep(p) \/ ReadVersion(p) \/ Ready(p) \/ Apply(p) \/ Stamp(p) \/ Commit(p)
    \/ Checked(p) \/ TimeOut(p)
StartNext == \E p \in Procs : Launch(p) \/ StartStep(p) \/ Exit(p) \/ Kill(p)

StartSpec == StartInit /\ [][StartNext]_startVars

-----------------------------------------------------------------------------
(* Properties                                                               *)

\* The types; the write lock is held within a transaction only.
StartTypeOK ==
    /\ parts \subseteq Names
    /\ version \in 0 .. Target
    /\ applied \subseteq 1 .. Target
    /\ writer \in Procs \cup {NoProcess}
    /\ stage \in [Procs -> Stages]
    /\ listing \in [Procs -> SUBSET Names]
    /\ index \in [Procs -> 0 .. Target + 1]
    /\ snapshot \in [Procs -> {"none", "current", "outdated"}]
    /\ \A p \in Procs : stage[p] \in {"stamp", "commit"} => index[p] \in 1 .. Target
    /\ \A p \in Procs : writer = p => stage[p] \in {"stamp", "commit"}

\* Every migration that user_version counts is in the database, however many
\* processes migrate it and wherever they are killed: a start that trusts the
\* version skips nothing it needs.
VersionBacked == 1 .. version \subseteq applied

\* A process that has started finds the whole schema, whoever migrated it.
SchemaComplete == \A p \in Procs : stage[p] = "up" => applied = 1 .. Target

\* db.rs: user_version "records how many have been applied so pending migrations
\* run exactly once"; the test of fresh_database_ends_at_the_latest_schema_version
\* asserts it of an opened database.
LatestSchema == \A p \in Procs : stage[p] = "up" => version = Target
================================================================================
