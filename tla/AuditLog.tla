------------------------------ MODULE AuditLog ------------------------------
(* The forensic audit database (src/src/store.rs), shared by every gitc that *)
(* runs at the time: opening it migrates the schema, each statement a        *)
(* transaction of its own, then one row is appended to the hash chain in a   *)
(* BEGIN IMMEDIATE transaction.  SQLite's write lock, its commits and what a *)
(* power loss takes back are modelled as the code relies on them.            *)
(*                                                                           *)
(* A process writes one row, whose values are abstracted to the process.     *)
(* sha256 is abstracted to an injection that never yields the empty string:  *)
(* the hash of a row is the sequence of the values it vouches for.           *)
EXTENDS Integers, FiniteSets, SequencesExt

CONSTANTS
    Procs,    \* gitc processes, each auditing one invocation
    Mortal,   \* those of them that may die or meet an I/O error
    Old,      \* the values of a row that was there before
    Edited,   \* what somebody's edit turns a row's values into
    Faulty,   \* BOOLEAN: power may fail, and rows be edited or deleted
    None

ASSUME AuditAssumption ==
    /\ Mortal \subseteq Procs /\ Faulty \in BOOLEAN
    /\ Old \notin Procs /\ Edited \notin Procs /\ None \notin Procs
    /\ Old # Edited

VARIABLES
    objects,  \* the tables and columns there are
    applied,  \* the migrations schema_migrations names
    log,      \* the rows of audit_log, in id order
    damage,   \* history: the row at which an edit or a deletion broke the chain
    durable,  \* the database as of the last sync to disk
    lock,     \* who holds SQLite's write lock
    pc, mig, stmt, \* where a process is: its migration, its statement
    head,     \* the row_hash it has read
    outcome,
    lost,     \* history: rows a deletion or a power loss took away
    disturbed \* history: the one deletion, edit or power loss has happened

db    == <<objects, applied, log, damage>>
local == <<pc, mig, stmt, head, outcome>>
vars  == <<db, durable, lock, local, lost, disturbed>>

\* MIGRATIONS: what each statement of each migration adds.
Migrations == << <<"audit_log">>, <<"prev_hash", "row_hash">>, <<"policy_path">> >>
Adds(m) == {Migrations[m][k] : k \in DOMAIN Migrations[m]}
Versions == DOMAIN Migrations
Objects == {"schema_migrations"} \cup UNION {Adds(m) : m \in Versions}

Values == Procs \cup {Old, Edited}
NoHash == <<>> \* the empty string, and what COALESCE makes of NULL
ChainHash(prev, values) == Append(prev, values)
Row(prev, values) == [values |-> values, prev |-> prev, hash |-> ChainHash(prev, values)]
LegacyRow == [values |-> Old, prev |-> NoHash, hash |-> NoHash]
ValuesOf(rows) == {rows[i].values : i \in DOMAIN rows}

-----------------------------------------------------------------------------
(* Store::verify.                                                            *)

Hashed(rows) == {i \in DOMAIN rows : rows[i].hash # NoHash}

\* The row_hash the walk carries when it comes to row i.
Carried(rows, i) ==
    LET before == {j \in Hashed(rows) : j < i}
    IN  IF before = {} THEN NoHash
        ELSE rows[CHOOSE j \in before : \A k \in before : k <= j].hash

\* Mutant: the stored hash is compared with nothing.
RowHoldsUnhashed(rows, i) ==
    rows[i].hash = NoHash \/ rows[i].prev = Carried(rows, i)

RowHolds(rows, i) ==
    \/ rows[i].hash = NoHash
    \/ /\ rows[i].prev = Carried(rows, i)
       /\ rows[i].hash = ChainHash(Carried(rows, i), rows[i].values)

\* VerifyResult: broken_id, or 0 when the chain is intact.
BrokenId(rows) ==
    LET broken == {i \in DOMAIN rows : ~RowHolds(rows, i)}
    IN  IF broken = {} THEN 0 ELSE CHOOSE i \in broken : \A k \in broken : i <= k

-----------------------------------------------------------------------------
\* Nothing yet, or a database some version of gitc has left: the first m
\* migrations, and rows without hashes from before the second.
Init ==
    /\ \E m \in {0} \cup Versions :
          /\ applied = 1..m
          /\ objects = (UNION {Adds(k) : k \in 1..m})
                       \cup (IF m = 0 THEN {} ELSE {"schema_migrations"})
          /\ log \in {<<>>} \cup (IF m >= 1 THEN {<<LegacyRow>>} ELSE {})
                            \cup (IF m >= 2 THEN {<<LegacyRow, Row(NoHash, Old)>>} ELSE {})
    /\ damage = 0
    /\ durable = [objects |-> objects, applied |-> applied, log |-> log, damage |-> 0]
    /\ lock = None
    /\ pc = [p \in Procs |-> "idle"]
    /\ mig = [p \in Procs |-> 1] /\ stmt = [p \in Procs |-> 1]
    /\ head = [p \in Procs |-> NoHash]
    /\ outcome = [p \in Procs |-> "none"]
    /\ lost = {} /\ disturbed = FALSE

Goto(p, label) == pc' = [pc EXCEPT ![p] = label]
CanWrite(p) == lock \in {None, p}
Unlock(p) == lock' = IF lock = p THEN None ELSE lock

\* An error ends the process' auditing; an open transaction is rolled back.
Fail(p, why) ==
    /\ Goto(p, "ended")
    /\ outcome' = [outcome EXCEPT ![p] = why]
    /\ Unlock(p)
    /\ UNCHANGED <<db, durable, mig, stmt, head, lost, disturbed>>

-----------------------------------------------------------------------------
(* open and migrate.                                                         *)

\* pre_create, Connection::open and the pragmas.
Connect(p) ==
    /\ pc[p] = "idle"
    /\ Goto(p, "create")
    /\ UNCHANGED <<db, durable, lock, mig, stmt, head, outcome, lost, disturbed>>

CreateBookkeeping(p) ==
    /\ pc[p] = "create"
    /\ "schema_migrations" \in objects \/ CanWrite(p)
    /\ objects' = objects \cup {"schema_migrations"}
    /\ Goto(p, "check")
    /\ UNCHANGED <<applied, log, damage, durable, lock, mig, stmt, head, outcome, lost, disturbed>>

\* The top of the loop over MIGRATIONS.
CheckMigration(p) ==
    /\ pc[p] = "check"
    /\ \/ /\ mig[p] \notin Versions
          /\ Goto(p, "begin") /\ UNCHANGED <<mig, stmt>>
       \/ /\ mig[p] \in Versions \cap applied
          /\ mig' = [mig EXCEPT ![p] = @ + 1] /\ UNCHANGED <<pc, stmt>>
       \/ /\ mig[p] \in Versions \ applied
          /\ stmt' = [stmt EXCEPT ![p] = 1]
          /\ Goto(p, "apply") /\ UNCHANGED mig
    /\ UNCHANGED <<db, durable, lock, head, outcome, lost, disturbed>>

\* One statement of execute_batch, committed at once.  Only the first migration
\* says IF NOT EXISTS.
ApplyStatement(p) ==
    /\ pc[p] = "apply"
    /\ LET object == Migrations[mig[p]][stmt[p]]
       IN  /\ object \in objects => mig[p] = 1
           /\ object \in objects \/ CanWrite(p)
           /\ objects' = objects \cup {object}
    /\ \/ /\ stmt[p] < Len(Migrations[mig[p]])
          /\ stmt' = [stmt EXCEPT ![p] = @ + 1] /\ UNCHANGED pc
       \/ /\ stmt[p] = Len(Migrations[mig[p]])
          /\ Goto(p, "record") /\ UNCHANGED stmt
    /\ UNCHANGED <<applied, log, damage, durable, lock, mig, head, outcome, lost, disturbed>>

\* ALTER TABLE ... ADD COLUMN of a column that is there: duplicate column name.
DuplicateColumn(p) ==
    /\ pc[p] = "apply"
    /\ mig[p] # 1 /\ Migrations[mig[p]][stmt[p]] \in objects
    /\ Fail(p, "duplicate")

RecordMigration(p) ==
    /\ pc[p] = "record"
    /\ CanWrite(p)
    /\ applied' = applied \cup {mig[p]}
    /\ mig' = [mig EXCEPT ![p] = @ + 1]
    /\ Goto(p, "check")
    /\ UNCHANGED <<objects, log, damage, durable, lock, stmt, head, outcome, lost, disturbed>>

-----------------------------------------------------------------------------
(* Store::insert.                                                            *)

\* Mutant: a deferred transaction, which takes no lock until it writes.
BeginDeferred(p) ==
    /\ pc[p] = "begin"
    /\ Goto(p, "head")
    /\ UNCHANGED <<db, durable, lock, mig, stmt, head, outcome, lost, disturbed>>

\* BEGIN IMMEDIATE.
Begin(p) ==
    /\ pc[p] = "begin" /\ lock = None
    /\ lock' = p
    /\ Goto(p, "head")
    /\ UNCHANGED <<db, durable, mig, stmt, head, outcome, lost, disturbed>>

\* SELECT COALESCE(row_hash, '') ... ORDER BY id DESC LIMIT 1.
ReadHead(p) ==
    /\ pc[p] = "head"
    /\ head' = [head EXCEPT ![p] = IF log = <<>> THEN NoHash ELSE Last(log).hash]
    /\ Goto(p, "insert")
    /\ UNCHANGED <<db, durable, lock, mig, stmt, outcome, lost, disturbed>>

\* Mutant: a lock that cannot be had is not an error.
CommitUnlessBusy(p) ==
    /\ pc[p] = "insert"
    /\ \/ CanWrite(p) /\ log' = Append(log, Row(head[p], p))
       \/ UNCHANGED log
    /\ Goto(p, "ended")
    /\ outcome' = [outcome EXCEPT ![p] = "recorded"]
    /\ Unlock(p)
    /\ UNCHANGED <<objects, applied, damage, durable, mig, stmt, head, lost, disturbed>>

\* INSERT and COMMIT.
Commit(p) ==
    /\ pc[p] = "insert" /\ CanWrite(p)
    /\ log' = Append(log, Row(head[p], p))
    /\ Goto(p, "ended")
    /\ outcome' = [outcome EXCEPT ![p] = "recorded"]
    /\ Unlock(p)
    /\ UNCHANGED <<objects, applied, damage, durable, mig, stmt, head, lost, disturbed>>

-----------------------------------------------------------------------------
(* What else may happen.                                                     *)

Writing == {"create", "apply", "record", "begin", "insert"}

\* SQLITE_BUSY: somebody held the lock for BUSY_TIMEOUT_MS.
Busy(p) ==
    /\ pc[p] \in Writing /\ ~CanWrite(p)
    /\ Fail(p, "busy")

IoError(p) ==
    /\ p \in Mortal /\ pc[p] # "ended"
    /\ Fail(p, "io")

Crash(p) ==
    /\ p \in Mortal /\ pc[p] \notin {"idle", "ended"}
    /\ Fail(p, "none")

\* A WAL checkpoint syncs; under synchronous=NORMAL a commit does not.
Checkpoint ==
    /\ Faulty /\ ~disturbed
    /\ durable' = [objects |-> objects, applied |-> applied, log |-> log, damage |-> damage]
    /\ UNCHANGED <<db, lock, local, lost, disturbed>>

\* Every process is gone, and what was committed since the last sync.
PowerLoss ==
    /\ Faulty /\ ~disturbed
    /\ disturbed' = TRUE
    /\ objects' = durable.objects /\ applied' = durable.applied
    /\ log' = durable.log /\ damage' = durable.damage
    /\ lock' = None
    /\ pc' = [p \in Procs |-> IF pc[p] = "idle" THEN "idle" ELSE "ended"]
    /\ lost' = lost \cup (ValuesOf(log) \ ValuesOf(durable.log))
    /\ UNCHANGED <<durable, mig, stmt, head, outcome>>

\* Somebody changes a hashed row's values with another program.
Edit ==
    /\ Faulty /\ ~disturbed /\ lock = None
    /\ disturbed' = TRUE
    /\ \E i \in Hashed(log) :
          /\ log' = [log EXCEPT ![i].values = Edited]
          /\ lost' = lost \cup {log[i].values}
          /\ damage' = i
    /\ UNCHANGED <<objects, applied, durable, lock, local>>

\* Somebody deletes a row.  The chain holds the last row only by what follows.
Delete ==
    /\ Faulty /\ ~disturbed /\ lock = None
    /\ disturbed' = TRUE
    /\ \E i \in DOMAIN log :
          /\ log' = RemoveAt(log, i)
          /\ lost' = lost \cup {log[i].values}
          /\ damage' = IF i \in Hashed(log) /\ i < Len(log) THEN i ELSE damage
    /\ UNCHANGED <<objects, applied, durable, lock, local>>

Finished == (\A p \in Procs : pc[p] = "ended") /\ UNCHANGED vars

Step(p) ==
    \/ Connect(p) \/ CreateBookkeeping(p) \/ CheckMigration(p)
    \/ ApplyStatement(p) \/ DuplicateColumn(p) \/ RecordMigration(p)
    \/ Begin(p) \/ ReadHead(p) \/ Commit(p)
    \/ Busy(p) \/ IoError(p) \/ Crash(p)

Next ==
    \/ \E p \in Procs : Step(p)
    \/ Checkpoint \/ PowerLoss \/ Edit \/ Delete
    \/ Finished

Spec == Init /\ [][Next]_vars

-----------------------------------------------------------------------------
(* Properties.                                                               *)

Opened == {"begin", "head", "insert"}
RowType == [values : Values, prev : Seq(Values), hash : Seq(Values)]

\* The range of every variable; the write lock is held from BEGIN to COMMIT.
TypeOK ==
    /\ objects \subseteq Objects /\ applied \subseteq Versions
    /\ log \in Seq(RowType) /\ damage \in Nat
    /\ durable \in [objects : SUBSET Objects, applied : SUBSET Versions,
                    log : Seq(RowType), damage : Nat]
    /\ lock \in Procs \cup {None}
    /\ pc \in [Procs -> Writing \cup {"idle", "check", "head", "ended"}]
    /\ mig \in [Procs -> 1..4] /\ stmt \in [Procs -> 1..2]
    /\ head \in [Procs -> Seq(Values)]
    /\ outcome \in [Procs -> {"none", "recorded", "busy", "duplicate", "io"}]
    /\ lost \subseteq Values /\ disturbed \in BOOLEAN
    /\ \A p \in Procs : lock = p <=> pc[p] \in {"head", "insert"}

\* verify never cries wolf: as long as no row was edited, and none deleted that
\* another row vouches for, the chain is intact, whatever processes wrote it
\* concurrently, died in the middle or lost power (insert).
ChainIntact == damage = 0 => BrokenId(log) = 0

\* verify finds an edited row, and the gap a deleted row has left, and points
\* at it, however many rows are appended afterwards.
DamageFound == damage # 0 => BrokenId(log) = damage

\* A process whose open succeeded finds every column its INSERT names, though
\* migrations crash half-way, race each other and are lost with the power.
OpenedIsMigrated ==
    \A p \in Procs : pc[p] \in Opened => Objects \subseteq objects

\* insert returned Ok exactly for the rows that are there, once each, but for
\* those a deletion, an edit or a power loss has taken: an invocation that was
\* told it is recorded is, and one that was told it failed is not.
RecordedIffLogged ==
    \A p \in Procs \ lost :
        LET rows == {i \in DOMAIN log : log[i].values = p}
        IN  IF outcome[p] = "recorded" THEN Cardinality(rows) = 1 ELSE rows = {}

\* A log that was opened is complete: its columns are there, and what was said to be
\* recorded is.
LogIsSound == TypeOK /\ OpenedIsMigrated /\ RecordedIffLogged
=============================================================================
