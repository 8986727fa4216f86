--------------------------- MODULE AuditLogProofs ---------------------------
(* What AuditLog guarantees for every set of processes, whichever of them    *)
(* may die, and whatever database they start from.                           *)
EXTENDS AuditLog, FiniteSetTheorems, SequenceTheorems, TLAPS

\* A process applies, and records, a migration there is.
Places ==
    \A p \in Procs :
        /\ pc[p] \in {"apply", "record"} => mig[p] \in 1..3
        /\ pc[p] = "apply" => stmt[p] <= Len(Migrations[mig[p]])

\* A recorded migration's objects are there, for good or as of the last sync.
RecordedIsApplied ==
    /\ \A m \in applied : Adds(m) \subseteq objects
    /\ \A m \in durable.applied : Adds(m) \subseteq durable.objects

\* How far a process has come with its migrations.
Progress ==
    \A p \in Procs :
        /\ pc[p] \in {"idle", "create"} => mig[p] = 1
        /\ pc[p] \in {"check", "apply", "record"} \cup Opened =>
              "schema_migrations" \in objects
        /\ pc[p] \in {"check", "apply", "record"} => \A m \in 1..(mig[p] - 1) : m \in applied
        /\ pc[p] = "apply" =>
              \A k \in 1..(stmt[p] - 1) : Migrations[mig[p]][k] \in objects
        /\ pc[p] = "record" => Adds(mig[p]) \subseteq objects
        /\ pc[p] \in Opened => Versions \subseteq applied

-----------------------------------------------------------------------------
(* The schema.                                                               *)

LEMMA MigrationsFacts ==
    /\ Versions = 1..3
    /\ Len(Migrations[1]) = 1 /\ Len(Migrations[2]) = 2 /\ Len(Migrations[3]) = 1
    /\ Migrations[1][1] = "audit_log" /\ Migrations[2][1] = "prev_hash"
    /\ Migrations[2][2] = "row_hash" /\ Migrations[3][1] = "policy_path"
    /\ Adds(1) = {"audit_log"} /\ Adds(2) = {"prev_hash", "row_hash"}
    /\ Adds(3) = {"policy_path"}
    /\ Objects = {"schema_migrations", "audit_log", "prev_hash", "row_hash", "policy_path"}
<1>1. /\ Versions = 1..3
      /\ Len(Migrations[1]) = 1 /\ Len(Migrations[2]) = 2 /\ Len(Migrations[3]) = 1
      /\ Migrations[1][1] = "audit_log" /\ Migrations[2][1] = "prev_hash"
      /\ Migrations[2][2] = "row_hash" /\ Migrations[3][1] = "policy_path"
  BY DEF Versions, Migrations
<1>2. DOMAIN Migrations[1] = {1} /\ DOMAIN Migrations[2] = {1, 2} /\ DOMAIN Migrations[3] = {1}
  BY DEF Migrations
<1>3. /\ Adds(1) = {"audit_log"} /\ Adds(2) = {"prev_hash", "row_hash"}
      /\ Adds(3) = {"policy_path"}
  BY <1>1, <1>2 DEF Adds
<1>4. UNION {Adds(m) : m \in Versions} = Adds(1) \cup Adds(2) \cup Adds(3)
  BY <1>1
<1> QED
  BY <1>1, <1>3, <1>4 DEF Objects

-----------------------------------------------------------------------------
(* The variables keep their ranges.                                          *)

LEMMA RowInRange ==
  ASSUME NEW prev \in Seq(Values), NEW v \in Values
  PROVE  Row(prev, v) \in RowType /\ ChainHash(prev, v) # NoHash
  BY DEF Row, RowType, ChainHash, NoHash

LEMMA RemoveAtProperties ==
  ASSUME NEW S, NEW s \in Seq(S), NEW i \in 1..Len(s)
  PROVE  /\ RemoveAt(s, i) \in Seq(S)
         /\ Len(RemoveAt(s, i)) = Len(s) - 1
         /\ \A j \in 1..(Len(s) - 1) :
               RemoveAt(s, i)[j] = IF j < i THEN s[j] ELSE s[j + 1]
<1> DEFINE a == SubSeq(s, 1, i - 1)
           b == SubSeq(s, i + 1, Len(s))
<1>1. /\ a \in Seq(S) /\ Len(a) = i - 1
      /\ \A j \in 1..(i - 1) : a[j] = s[j]
  <2>1. \A j \in 1..(i - 1) : s[j] \in S
    BY ElementOfSeq
  <2>2. /\ a \in Seq(S)
        /\ Len(a) = IF 1 <= i - 1 THEN (i - 1) - 1 + 1 ELSE 0
        /\ \A j \in 1..((i - 1) - 1 + 1) : a[j] = s[1 + j - 1]
    BY <2>1, SubSeqProperties
  <2> QED
    BY <2>2
<1>2. /\ b \in Seq(S) /\ Len(b) = Len(s) - i
      /\ \A j \in 1..(Len(s) - i) : b[j] = s[i + j]
  <2>1. \A j \in (i + 1)..Len(s) : s[j] \in S
    BY ElementOfSeq
  <2>2. /\ b \in Seq(S)
        /\ Len(b) = IF i + 1 <= Len(s) THEN Len(s) - (i + 1) + 1 ELSE 0
        /\ \A j \in 1..(Len(s) - (i + 1) + 1) : b[j] = s[(i + 1) + j - 1]
    BY <2>1, SubSeqProperties
  <2> QED
    BY <2>2
<1>3. /\ a \o b \in Seq(S) /\ Len(a \o b) = Len(a) + Len(b)
      /\ \A j \in 1..(Len(a) + Len(b)) :
            (a \o b)[j] = IF j <= Len(a) THEN a[j] ELSE b[j - Len(a)]
  BY <1>1, <1>2, ConcatProperties
<1>4. RemoveAt(s, i) = a \o b
  BY DEF RemoveAt
<1> HIDE DEF a, b
<1>5. ASSUME NEW j \in 1..(Len(s) - 1)
      PROVE  (a \o b)[j] = IF j < i THEN s[j] ELSE s[j + 1]
  <2>1. CASE j < i
    BY <2>1, <1>1, <1>2, <1>3
  <2>2. CASE ~(j < i)
    <3>1. (a \o b)[j] = b[j - (i - 1)]
      BY <2>2, <1>1, <1>2, <1>3
    <3>2. j - (i - 1) \in 1..(Len(s) - i) /\ i + (j - (i - 1)) = j + 1
      BY <2>2
    <3>3. b[j - (i - 1)] = s[i + (j - (i - 1))]
      BY <3>2, <1>2
    <3> QED
      BY <3>1, <3>2, <3>3, <2>2
  <2> QED
    BY <2>1, <2>2
<1>6. a \o b \in Seq(S) /\ Len(a \o b) = Len(s) - 1
  BY <1>1, <1>2, <1>3
<1>7. \A j \in 1..(Len(s) - 1) : (a \o b)[j] = IF j < i THEN s[j] ELSE s[j + 1]
  BY <1>5
<1> QED
  BY <1>4, <1>6, <1>7, Zenon

LEMMA TypeInit == Init => TypeOK /\ Places
<1> SUFFICES ASSUME Init PROVE TypeOK /\ Places
  OBVIOUS
<1>1. NoHash \in Seq(Values) /\ LegacyRow \in RowType
  BY DEF NoHash, LegacyRow, RowType, Values
<1>2. Row(NoHash, Old) \in RowType
  BY <1>1, RowInRange DEF Values
<1>3. PICK m \in {0} \cup Versions :
          /\ applied = 1..m
          /\ objects = (UNION {Adds(k) : k \in 1..m})
                       \cup (IF m = 0 THEN {} ELSE {"schema_migrations"})
  BY DEF Init
<1>4. log \in Seq(RowType)
  <2>1. log \in {<<>>, <<LegacyRow>>, <<LegacyRow, Row(NoHash, Old)>>}
    BY DEF Init
  <2>2. <<>> \in Seq(RowType)
    OBVIOUS
  <2>3. <<LegacyRow>> \in Seq(RowType)
    BY <1>1
  <2>4. <<LegacyRow, Row(NoHash, Old)>> \in Seq(RowType)
    BY <1>1, <1>2
  <2> QED
    BY <2>1, <2>2, <2>3, <2>4
<1>5. applied \subseteq Versions /\ objects \subseteq Objects
  <2>1. 1..m \subseteq Versions
    BY MigrationsFacts
  <2>2. UNION {Adds(k) : k \in 1..m} \subseteq UNION {Adds(k) : k \in Versions}
    BY <2>1
  <2>3. /\ applied = 1..m
        /\ \A o \in objects : o \in UNION {Adds(k) : k \in 1..m} \/ o = "schema_migrations"
    BY <1>3
  <2> QED
    BY <2>1, <2>2, <2>3 DEF Objects
<1>6. durable \in [objects : SUBSET Objects, applied : SUBSET Versions,
                   log : Seq(RowType), damage : Nat]
  BY <1>4, <1>5 DEF Init
<1>7. /\ damage \in Nat /\ lock = None /\ head \in [Procs -> Seq(Values)]
      /\ pc = [p \in Procs |-> "idle"] /\ mig \in [Procs -> 1..4] /\ stmt \in [Procs -> 1..2]
      /\ outcome \in [Procs -> {"none", "recorded", "busy", "duplicate", "io"}]
      /\ lost \subseteq Values
  BY <1>1 DEF Init
<1>8. \A p \in Procs : lock # p /\ pc[p] = "idle"
  BY <1>7, AuditAssumption
<1>9. pc \in [Procs -> Writing \cup {"idle", "check", "head", "ended"}]
  BY <1>7
<1>10. Places
  BY <1>8 DEF Places
<1>11. disturbed \in BOOLEAN
  BY DEF Init
<1> QED
  BY <1>4, <1>5, <1>6, <1>7, <1>8, <1>9, <1>10, <1>11 DEF TypeOK

\* What each action does to the rows keeps them rows.
LEMMA LogNext ==
  ASSUME TypeOK, [Next]_vars
  PROVE  log' \in Seq(RowType)
<1> USE DEF TypeOK
<1>1. ASSUME NEW p \in Procs, Commit(p) PROVE log' \in Seq(RowType)
  <2>1. Row(head[p], p) \in RowType
    BY RowInRange DEF Values
  <2> QED
    BY <1>1, <2>1 DEF Commit
<1>2. ASSUME Edit PROVE log' \in Seq(RowType)
  <2>1. PICK i \in Hashed(log) : log' = [log EXCEPT ![i].values = Edited]
    BY <1>2 DEF Edit
  <2>2. i \in 1..Len(log) /\ log[i] \in RowType
    BY ElementOfSeq DEF Hashed
  <2>3. [log[i] EXCEPT !.values = Edited] \in RowType
    BY <2>2 DEF RowType, Values
  <2> QED
    BY <2>1, <2>2, <2>3, ExceptSeq
<1>3. ASSUME Delete PROVE log' \in Seq(RowType)
  <2>1. PICK i \in DOMAIN log : log' = RemoveAt(log, i)
    BY <1>3 DEF Delete
  <2> QED
    BY <2>1, RemoveAtProperties
<1>4. ASSUME PowerLoss PROVE log' \in Seq(RowType)
  BY <1>4 DEF PowerLoss
<1>5. ASSUME Checkpoint \/ UNCHANGED vars PROVE log' \in Seq(RowType)
  BY <1>5 DEF Checkpoint, vars, db
<1>6. ASSUME NEW p \in Procs, Step(p), ~Commit(p) PROVE log' = log
  BY <1>6 DEF Step, Connect, CreateBookkeeping, CheckMigration, ApplyStatement,
     DuplicateColumn, RecordMigration, Begin, ReadHead, Busy, IoError, Crash, Fail, db
<1> HIDE DEF TypeOK
<1>7. log \in Seq(RowType)
  BY DEF TypeOK
<1> QED
  BY <1>1, <1>2, <1>3, <1>4, <1>5, <1>6, <1>7 DEF Next, Finished

\* What the steps of one process do to everything but the rows.
LEMMA TypeStep ==
  ASSUME TypeOK, Places, NEW p \in Procs, Step(p)
  PROVE  /\ objects' \subseteq Objects /\ applied' \subseteq Versions
         /\ UNCHANGED <<damage, durable, lost, disturbed>>
         /\ lock' \in Procs \cup {None}
         /\ pc' \in [Procs -> Writing \cup {"idle", "check", "head", "ended"}]
         /\ mig' \in [Procs -> 1..4] /\ stmt' \in [Procs -> 1..2]
         /\ head' \in [Procs -> Seq(Values)]
         /\ outcome' \in [Procs -> {"none", "recorded", "busy", "duplicate", "io"}]
         /\ \A q \in Procs : lock' = q <=> pc'[q] \in {"head", "insert"}
         /\ Places'
<1> DEFINE Goal ==
      /\ objects' \subseteq Objects /\ applied' \subseteq Versions
      /\ UNCHANGED <<damage, durable, lost, disturbed>>
      /\ lock' \in Procs \cup {None}
      /\ pc' \in [Procs -> Writing \cup {"idle", "check", "head", "ended"}]
      /\ mig' \in [Procs -> 1..4] /\ stmt' \in [Procs -> 1..2]
      /\ head' \in [Procs -> Seq(Values)]
      /\ outcome' \in [Procs -> {"none", "recorded", "busy", "duplicate", "io"}]
      /\ \A q \in Procs : lock' = q <=> pc'[q] \in {"head", "insert"}
      /\ Places'
<1>0. Versions = 1..3
  BY MigrationsFacts
<1>a. /\ objects \subseteq Objects /\ applied \subseteq Versions
      /\ lock \in Procs \cup {None}
      /\ pc \in [Procs -> Writing \cup {"idle", "check", "head", "ended"}]
      /\ mig \in [Procs -> 1..4] /\ stmt \in [Procs -> 1..2]
      /\ head \in [Procs -> Seq(Values)]
      /\ outcome \in [Procs -> {"none", "recorded", "busy", "duplicate", "io"}]
      /\ \A q \in Procs : lock = q <=> pc[q] \in {"head", "insert"}
  BY DEF TypeOK
<1>b. log \in Seq(RowType)
  BY DEF TypeOK
<1> USE AuditAssumption, <1>0, <1>a DEF Places, Writing, Goto, db
<1>1. CASE Connect(p)
  BY <1>1 DEF Connect
<1>2. CASE CreateBookkeeping(p)
  BY <1>2 DEF CreateBookkeeping, Objects
<1>3. CASE CheckMigration(p)
  <2>1. CASE mig[p] \notin Versions /\ Goto(p, "begin") /\ UNCHANGED <<mig, stmt>>
    BY <1>3, <2>1 DEF CheckMigration
  <2>2. CASE mig[p] \in Versions \cap applied /\ mig' = [mig EXCEPT ![p] = @ + 1] /\ UNCHANGED <<pc, stmt>>
    BY <1>3, <2>2 DEF CheckMigration
  <2>3. CASE mig[p] \in Versions \ applied /\ stmt' = [stmt EXCEPT ![p] = 1] /\ Goto(p, "apply") /\ UNCHANGED mig
    <3>1. /\ mig[p] \in 1..3 /\ stmt' = [stmt EXCEPT ![p] = 1]
          /\ pc' = [pc EXCEPT ![p] = "apply"]
          /\ UNCHANGED <<objects, applied, damage, durable, lock, mig, head, outcome, lost, disturbed>>
      BY <1>3, <2>3 DEF CheckMigration
    <3>2. 1 <= Len(Migrations[mig[p]])
      BY <3>1, MigrationsFacts
    <3>3. Places'
      BY <3>1, <3>2
    <3>4. stmt' \in [Procs -> 1..2]
      BY <3>1
    <3>5. pc' \in [Procs -> Writing \cup {"idle", "check", "head", "ended"}]
      BY <3>1
    <3>6. \A q \in Procs : lock' = q <=> pc'[q] \in {"head", "insert"}
      BY <1>3, <3>1 DEF CheckMigration
    <3> QED
      BY <3>1, <3>3, <3>4, <3>5, <3>6
  <2> QED
    BY <1>3, <2>1, <2>2, <2>3 DEF CheckMigration
<1>4. CASE ApplyStatement(p)
  <2>1. mig[p] \in 1..3 /\ stmt[p] \in 1..2 /\ stmt[p] <= Len(Migrations[mig[p]])
    BY <1>4 DEF ApplyStatement
  <2>2. Migrations[mig[p]][stmt[p]] \in Objects
    BY <2>1, MigrationsFacts
  <2>3. objects' \subseteq Objects
    BY <1>4, <2>2 DEF ApplyStatement
  <2>4. CASE stmt[p] < Len(Migrations[mig[p]]) /\ stmt' = [stmt EXCEPT ![p] = @ + 1] /\ UNCHANGED pc
    <3>a. Len(Migrations[mig[p]]) \in 1..2
      BY <2>1, MigrationsFacts
    <3>b. stmt[p] + 1 \in 1..2
      <4> DEFINE n == Len(Migrations[mig[p]])
                 k == stmt[p]
      <4>1. n \in 1..2 /\ k \in 1..2 /\ k < n
        BY <2>1, <2>4, <3>a
      <4> HIDE DEF n, k
      <4>2. k + 1 \in 1..2
        BY <4>1
      <4> QED
        BY <4>2 DEF k
    <3>1. stmt[p] + 1 \in 1..2 /\ stmt' \in [Procs -> 1..2]
      BY <2>1, <2>4, <3>b
    <3>2. /\ stmt' = [stmt EXCEPT ![p] = @ + 1]
          /\ UNCHANGED <<applied, damage, durable, lock, pc, mig, head, outcome, lost, disturbed>>
      BY <1>4, <2>4 DEF ApplyStatement
    <3>3. Places'
      BY <2>1, <2>4, <3>1, <3>2
    <3> QED
      BY <2>3, <3>1, <3>2, <3>3
  <2>5. CASE stmt[p] = Len(Migrations[mig[p]]) /\ Goto(p, "record") /\ UNCHANGED stmt
    BY <1>4, <2>1, <2>3, <2>5 DEF ApplyStatement
  <2> QED
    BY <1>4, <2>4, <2>5 DEF ApplyStatement
<1>5. CASE RecordMigration(p)
  <2>1. /\ mig[p] \in 1..3 /\ applied' = applied \cup {mig[p]}
        /\ mig' = [mig EXCEPT ![p] = @ + 1]
        /\ pc' = [pc EXCEPT ![p] = "check"] /\ pc[p] = "record"
        /\ UNCHANGED <<objects, damage, durable, lock, stmt, head, outcome, lost, disturbed>>
    BY <1>5 DEF RecordMigration
  <2>a. applied' \subseteq Versions
    BY <2>1
  <2>b. mig[p] + 1 \in 1..4
    BY <2>1
  <2>c. mig' = [mig EXCEPT ![p] = mig[p] + 1]
    BY <2>1
  <2>2. mig' \in [Procs -> 1..4]
    BY <2>b, <2>c
  <2>3. Places'
    BY <2>1
  <2> QED
    BY <2>1, <2>a, <2>2, <2>3
<1>6. CASE Begin(p)
  BY <1>6 DEF Begin
<1>7. CASE ReadHead(p)
  <2>1. (IF log = <<>> THEN NoHash ELSE Last(log).hash) \in Seq(Values)
    <3>1. CASE log = <<>>
      BY <3>1 DEF NoHash
    <3>2. CASE log # <<>>
      <4>1. Len(log) \in 1..Len(log)
        BY <1>b, <3>2, EmptySeq
      <4>2. log[Len(log)] \in RowType
        BY <1>b, <4>1, ElementOfSeq
      <4> QED
        BY <3>2, <4>2 DEF Last, RowType
    <3> QED
      BY <3>1, <3>2
  <2>2. head' \in [Procs -> Seq(Values)]
    BY <1>7, <2>1 DEF ReadHead
  <2>3. /\ pc' = [pc EXCEPT ![p] = "insert"] /\ pc[p] = "head"
        /\ UNCHANGED <<objects, applied, damage, durable, lock, mig, stmt, outcome, lost, disturbed>>
    BY <1>7 DEF ReadHead
  <2> QED
    BY <2>2, <2>3
<1>8. CASE Commit(p)
  BY <1>8 DEF Commit, Unlock
<1>9. ASSUME NEW why \in {"none", "busy", "duplicate", "io"}, Fail(p, why) PROVE Goal
  <2>1. /\ pc' = [pc EXCEPT ![p] = "ended"]
        /\ outcome' = [outcome EXCEPT ![p] = why]
        /\ lock' = IF lock = p THEN None ELSE lock
        /\ UNCHANGED <<objects, applied, damage, durable, mig, stmt, head, lost, disturbed>>
    BY <1>9 DEF Fail, Unlock
  <2>2. outcome' \in [Procs -> {"none", "recorded", "busy", "duplicate", "io"}]
    BY <2>1
  <2>3. \A q \in Procs : lock' = q <=> pc'[q] \in {"head", "insert"}
    BY <2>1
  <2> QED
    BY <2>1, <2>2, <2>3
<1> HIDE DEF Places, Writing, Goto, db
<1>10. CASE DuplicateColumn(p) \/ Busy(p) \/ IoError(p) \/ Crash(p)
  BY <1>9, <1>10 DEF DuplicateColumn, Busy, IoError, Crash
<1> QED
  BY <1>1, <1>2, <1>3, <1>4, <1>5, <1>6, <1>7, <1>8, <1>10 DEF Step

LEMMA TypeNext == TypeOK /\ Places /\ [Next]_vars => TypeOK' /\ Places'
<1> SUFFICES ASSUME TypeOK, Places, [Next]_vars PROVE TypeOK' /\ Places'
  OBVIOUS
<1>0. log' \in Seq(RowType)
  BY LogNext
<1>1. ASSUME NEW p \in Procs, Step(p) PROVE TypeOK' /\ Places'
  <2>1. /\ objects' \subseteq Objects /\ applied' \subseteq Versions
        /\ UNCHANGED <<damage, durable, lost, disturbed>>
        /\ lock' \in Procs \cup {None}
        /\ pc' \in [Procs -> Writing \cup {"idle", "check", "head", "ended"}]
        /\ mig' \in [Procs -> 1..4] /\ stmt' \in [Procs -> 1..2]
        /\ head' \in [Procs -> Seq(Values)]
        /\ outcome' \in [Procs -> {"none", "recorded", "busy", "duplicate", "io"}]
        /\ \A q \in Procs : lock' = q <=> pc'[q] \in {"head", "insert"}
        /\ Places'
    BY <1>1, TypeStep
  <2> QED
    BY <1>0, <2>1 DEF TypeOK
<1>2. ASSUME Checkpoint PROVE TypeOK' /\ Places'
  BY <1>0, <1>2 DEF Checkpoint, db, local, TypeOK, Places
<1>3. ASSUME PowerLoss PROVE TypeOK' /\ Places'
  <2>1. ValuesOf(log) \subseteq Values
    <3>1. \A i \in DOMAIN log : log[i] \in RowType
      BY ElementOfSeq DEF TypeOK
    <3> QED
      BY <3>1 DEF ValuesOf, RowType
  <2>2. /\ objects' \subseteq Objects /\ applied' \subseteq Versions /\ damage' \in Nat
        /\ lost' \subseteq Values /\ lock' = None
        /\ UNCHANGED <<durable, mig, stmt, head, outcome>>
    BY <1>3, <2>1 DEF PowerLoss, TypeOK
  <2>3. disturbed' \in BOOLEAN
    BY <1>3 DEF PowerLoss
  <2>4. \A p \in Procs : lock' # p /\ pc'[p] \in {"idle", "ended"}
    BY <1>3, AuditAssumption DEF PowerLoss
  <2>5. pc' \in [Procs -> Writing \cup {"idle", "check", "head", "ended"}]
    BY <1>3 DEF PowerLoss
  <2> QED
    BY <1>0, <2>2, <2>3, <2>4, <2>5 DEF TypeOK, Places
<1>4. ASSUME Edit \/ Delete PROVE TypeOK' /\ Places'
  <2>1. PICK i \in DOMAIN log :
            lost' = lost \cup {log[i].values} /\ damage' \in {damage, i}
    BY <1>4 DEF Edit, Delete, Hashed
  <2>2. log[i] \in RowType /\ i \in Nat
    BY <2>1 DEF TypeOK
  <2>3. lost' \subseteq Values /\ damage' \in Nat
    BY <2>1, <2>2 DEF TypeOK, RowType
  <2>4. disturbed' \in BOOLEAN
    BY <1>4 DEF Edit, Delete
  <2>5. UNCHANGED <<objects, applied, durable, lock, pc, mig, stmt, head, outcome>>
    BY <1>4 DEF Edit, Delete, local
  <2> QED
    BY <1>0, <2>3, <2>4, <2>5 DEF TypeOK, Places
<1>5. ASSUME UNCHANGED vars PROVE TypeOK' /\ Places'
  BY <1>5 DEF vars, db, local, TypeOK, Places
<1> QED
  BY <1>1, <1>2, <1>3, <1>4, <1>5 DEF Next, Finished

\* Every reachable state of the audit log is well typed; the write lock is held
\* from BEGIN IMMEDIATE to COMMIT and at no other time (insert).
THEOREM TypeCorrect == Spec => []TypeOK
<1>1. Spec => [](TypeOK /\ Places)
  BY TypeInit, TypeNext, PTL DEF Spec
<1> QED
  BY <1>1, PTL

-----------------------------------------------------------------------------
(* Migrations.                                                               *)

SchemaInv == RecordedIsApplied /\ Progress

LEMMA SchemaInit == Init => SchemaInv
<1> SUFFICES ASSUME Init PROVE SchemaInv
  OBVIOUS
<1>1. PICK m \in {0} \cup Versions :
          /\ applied = 1..m
          /\ objects = (UNION {Adds(k) : k \in 1..m})
                       \cup (IF m = 0 THEN {} ELSE {"schema_migrations"})
  BY DEF Init
<1>2. \A k \in applied : Adds(k) \subseteq objects
  BY <1>1
<1>3. durable.applied = applied /\ durable.objects = objects
  BY DEF Init
<1>4. \A p \in Procs : pc[p] = "idle" /\ mig[p] = 1
  BY DEF Init
<1> QED
  BY <1>2, <1>3, <1>4 DEF SchemaInv, RecordedIsApplied, Progress, Opened

\* A process sees the schema grow, and only that, as long as it lives.
LEMMA SchemaNext ==
  TypeOK /\ Places /\ SchemaInv /\ [Next]_vars => SchemaInv'
<1> SUFFICES ASSUME TypeOK, Places, SchemaInv, [Next]_vars PROVE SchemaInv'
  OBVIOUS
<1>a. /\ pc \in [Procs -> Writing \cup {"idle", "check", "head", "ended"}]
      /\ mig \in [Procs -> 1..4] /\ stmt \in [Procs -> 1..2]
      /\ applied \subseteq Versions
  BY DEF TypeOK
<1>b. Versions = 1..3
  BY MigrationsFacts
<1>1. ASSUME NEW p \in Procs, Connect(p) \/ Begin(p) \/ ReadHead(p) \/ Commit(p)
      PROVE  SchemaInv'
  <2>1. /\ UNCHANGED <<objects, applied, durable, mig, stmt>>
        /\ \E there \in {"create", "head", "insert", "ended"} :
              /\ pc' = [pc EXCEPT ![p] = there]
              /\ there \in Opened => pc[p] \in Opened
              /\ there = "create" => pc[p] = "idle"
    BY <1>1 DEF Connect, Begin, ReadHead, Commit, Goto, db, Opened
  <2> QED
    BY <1>a, <2>1 DEF SchemaInv, RecordedIsApplied, Progress, Opened
<1>2. ASSUME NEW p \in Procs, CreateBookkeeping(p) PROVE SchemaInv'
  <2>1. /\ UNCHANGED <<applied, durable, mig, stmt>>
        /\ objects' = objects \cup {"schema_migrations"}
        /\ pc' = [pc EXCEPT ![p] = "check"] /\ pc[p] = "create"
    BY <1>2 DEF CreateBookkeeping, Goto
  <2>2. mig[p] = 1
    BY <2>1 DEF SchemaInv, Progress
  <2>3. RecordedIsApplied'
    BY <2>1 DEF SchemaInv, RecordedIsApplied
  <2>4. Progress'
    BY <1>a, <2>1, <2>2 DEF SchemaInv, Progress, Opened
  <2> QED
    BY <2>3, <2>4 DEF SchemaInv
<1>3. ASSUME NEW p \in Procs, CheckMigration(p) PROVE SchemaInv'
  <2>1. UNCHANGED <<objects, applied, durable>> /\ pc[p] = "check"
    BY <1>3 DEF CheckMigration, db
  <2>2. RecordedIsApplied'
    BY <2>1 DEF SchemaInv, RecordedIsApplied
  <2>3. "schema_migrations" \in objects /\ \A m \in 1..(mig[p] - 1) : m \in applied
    BY <2>1 DEF SchemaInv, Progress
  <2>4. CASE mig[p] \notin Versions /\ Goto(p, "begin") /\ UNCHANGED <<mig, stmt>>
    <3>1. mig[p] = 4
      BY <1>a, <1>b, <2>4
    <3>2. Versions \subseteq applied
      BY <1>b, <2>3, <3>1
    <3>3. Progress'
      BY <1>a, <2>1, <2>3, <2>4, <3>2 DEF SchemaInv, Progress, Opened, Goto
    <3> QED
      BY <2>2, <3>3 DEF SchemaInv
  <2>5. CASE mig[p] \in Versions \cap applied /\ mig' = [mig EXCEPT ![p] = @ + 1] /\ UNCHANGED <<pc, stmt>>
    <3>1. \A m \in 1..mig[p] : m \in applied
      BY <1>a, <1>b, <2>3, <2>5
    <3>2. mig'[p] - 1 = mig[p]
      BY <1>a, <2>5
    <3>3. ASSUME NEW q \in Procs
          PROVE  pc'[q] \in {"check", "apply", "record"} =>
                    \A m \in 1..(mig'[q] - 1) : m \in applied
      BY <1>a, <2>5, <3>1, <3>2, <3>3 DEF SchemaInv, Progress
    <3>4. \A q \in Procs : q # p => mig'[q] = mig[q]
      BY <1>a, <2>5
    <3>5. Progress'
      BY <2>1, <2>5, <3>3, <3>4 DEF SchemaInv, Progress, Opened
    <3> QED
      BY <2>2, <3>5 DEF SchemaInv
  <2>6. CASE mig[p] \in Versions \ applied /\ stmt' = [stmt EXCEPT ![p] = 1] /\ Goto(p, "apply") /\ UNCHANGED mig
    <3>1. 1..(stmt'[p] - 1) = {}
      BY <1>a, <2>6
    <3>2. Progress'
      BY <1>a, <2>1, <2>3, <2>6, <3>1 DEF SchemaInv, Progress, Opened, Goto
    <3> QED
      BY <2>2, <3>2 DEF SchemaInv
  <2> QED
    BY <1>3, <2>4, <2>5, <2>6 DEF CheckMigration
<1>4. ASSUME NEW p \in Procs, ApplyStatement(p) PROVE SchemaInv'
  <2>1. /\ UNCHANGED <<applied, durable, mig>> /\ pc[p] = "apply"
        /\ objects' = objects \cup {Migrations[mig[p]][stmt[p]]}
    BY <1>4 DEF ApplyStatement
  <2>2. RecordedIsApplied'
    BY <2>1 DEF SchemaInv, RecordedIsApplied
  <2>3. \A k \in 1..stmt[p] : Migrations[mig[p]][k] \in objects'
    <3>1. \A k \in 1..(stmt[p] - 1) : Migrations[mig[p]][k] \in objects
      BY <2>1 DEF SchemaInv, Progress
    <3>2. \A k \in 1..stmt[p] : k \in 1..(stmt[p] - 1) \/ k = stmt[p]
      BY <1>a
    <3> QED
      BY <2>1, <3>1, <3>2
  <2>4. CASE stmt' = [stmt EXCEPT ![p] = @ + 1] /\ UNCHANGED pc
    <3>1. stmt'[p] - 1 = stmt[p] /\ \A q \in Procs : q # p => stmt'[q] = stmt[q]
      BY <1>a, <2>4
    <3>2. ASSUME NEW q \in Procs
          PROVE  pc'[q] = "apply" =>
                    \A k \in 1..(stmt'[q] - 1) : Migrations[mig'[q]][k] \in objects'
      BY <2>1, <2>3, <2>4, <3>1 DEF SchemaInv, Progress
    <3>3. Progress'
      BY <2>1, <2>4, <3>2 DEF SchemaInv, Progress, Opened
    <3> QED
      BY <2>2, <3>3 DEF SchemaInv
  <2>5. CASE stmt[p] = Len(Migrations[mig[p]]) /\ Goto(p, "record") /\ UNCHANGED stmt
    <3>1. mig[p] \in 1..3
      BY <2>1 DEF Places
    <3>2. Adds(mig[p]) = {Migrations[mig[p]][k] : k \in 1..Len(Migrations[mig[p]])}
      BY <3>1, MigrationsFacts
    <3>3. Adds(mig[p]) \subseteq objects'
      BY <2>3, <2>5, <3>2
    <3>4. Progress'
      BY <1>a, <2>1, <2>5, <3>3 DEF SchemaInv, Progress, Opened, Goto
    <3> QED
      BY <2>2, <3>4 DEF SchemaInv
  <2> QED
    BY <1>4, <2>4, <2>5 DEF ApplyStatement
<1>5. ASSUME NEW p \in Procs, RecordMigration(p) PROVE SchemaInv'
  <2>1. /\ UNCHANGED <<objects, durable, stmt>> /\ pc[p] = "record"
        /\ applied' = applied \cup {mig[p]} /\ mig' = [mig EXCEPT ![p] = @ + 1]
        /\ pc' = [pc EXCEPT ![p] = "check"]
    BY <1>5 DEF RecordMigration, Goto
  <2>2. Adds(mig[p]) \subseteq objects /\ "schema_migrations" \in objects
        /\ \A m \in 1..(mig[p] - 1) : m \in applied
    BY <2>1 DEF SchemaInv, Progress
  <2>3. RecordedIsApplied'
    BY <2>1, <2>2 DEF SchemaInv, RecordedIsApplied
  <2>4. mig'[p] - 1 = mig[p] /\ \A q \in Procs : q # p => mig'[q] = mig[q]
    BY <1>a, <2>1
  <2>5. \A m \in 1..mig[p] : m \in applied'
    <3>1. \A m \in 1..mig[p] : m \in 1..(mig[p] - 1) \/ m = mig[p]
      BY <1>a
    <3> QED
      BY <2>1, <2>2, <3>1
  <2>6. ASSUME NEW q \in Procs
        PROVE  pc'[q] \in {"check", "apply", "record"} =>
                  \A m \in 1..(mig'[q] - 1) : m \in applied'
    BY <1>a, <2>1, <2>4, <2>5 DEF SchemaInv, Progress
  <2>7. Progress'
    BY <1>a, <2>1, <2>2, <2>4, <2>6 DEF SchemaInv, Progress, Opened
  <2> QED
    BY <2>3, <2>7 DEF SchemaInv
<1>6. ASSUME NEW p \in Procs, DuplicateColumn(p) \/ Busy(p) \/ IoError(p) \/ Crash(p)
      PROVE  SchemaInv'
  <2>1. /\ UNCHANGED <<objects, applied, durable, mig, stmt>>
        /\ pc' = [pc EXCEPT ![p] = "ended"]
    BY <1>6 DEF DuplicateColumn, Busy, IoError, Crash, Fail, Goto, db
  <2> QED
    BY <1>a, <2>1 DEF SchemaInv, RecordedIsApplied, Progress, Opened
<1>7. ASSUME Checkpoint \/ Edit \/ Delete PROVE SchemaInv'
  <2>1. /\ UNCHANGED <<objects, applied, pc, mig, stmt>>
        /\ \/ UNCHANGED durable
           \/ durable'.applied = applied /\ durable'.objects = objects
    BY <1>7 DEF Checkpoint, Edit, Delete, db, local
  <2> QED
    BY <2>1 DEF SchemaInv, RecordedIsApplied, Progress
<1>8. ASSUME PowerLoss PROVE SchemaInv'
  <2>1. /\ UNCHANGED <<durable, mig>>
        /\ objects' = durable.objects /\ applied' = durable.applied
        /\ pc' = [p \in Procs |-> IF pc[p] = "idle" THEN "idle" ELSE "ended"]
    BY <1>8 DEF PowerLoss
  <2> QED
    BY <2>1 DEF SchemaInv, RecordedIsApplied, Progress, Opened
<1>9. ASSUME UNCHANGED vars PROVE SchemaInv'
  BY <1>9 DEF vars, db, local, SchemaInv, RecordedIsApplied, Progress
<1> QED
  BY <1>1, <1>2, <1>3, <1>4, <1>5, <1>6, <1>7, <1>8, <1>9 DEF Next, Step, Finished

\* However migrations race, die half-way or are lost with the power: an open
\* that succeeded has every column its INSERT names (migrate).
THEOREM OpensMigrated == Spec => []OpenedIsMigrated
<1>1. SchemaInv => OpenedIsMigrated
  <2> SUFFICES ASSUME SchemaInv, NEW p \in Procs, pc[p] \in Opened
               PROVE  Objects \subseteq objects
    BY DEF OpenedIsMigrated
  <2>1. Versions \subseteq applied /\ "schema_migrations" \in objects
    BY DEF SchemaInv, Progress
  <2>2. Adds(1) \cup Adds(2) \cup Adds(3) \subseteq objects
    BY <2>1, MigrationsFacts DEF SchemaInv, RecordedIsApplied
  <2> QED
    BY <2>1, <2>2, MigrationsFacts
<1>2. Spec => [](TypeOK /\ Places /\ SchemaInv)
  BY TypeInit, TypeNext, SchemaInit, SchemaNext, PTL DEF Spec
<1> QED
  BY <1>1, <1>2, PTL

-----------------------------------------------------------------------------
(* The hash chain.  Rows without a hash come first, so the walk of verify    *)
(* carries the hash of the row just before: Holds is RowHolds said that way. *)

LegacyFirst(rows) ==
    \A i, j \in 1..Len(rows) :
        i < j /\ rows[i].hash # NoHash => rows[j].hash # NoHash

PrevHash(rows, i) == IF i = 1 THEN NoHash ELSE rows[i - 1].hash

Holds(rows, i) ==
    \/ rows[i].hash = NoHash
    \/ /\ rows[i].prev = PrevHash(rows, i)
       /\ rows[i].hash = ChainHash(PrevHash(rows, i), rows[i].values)

\* What verify must say of rows: the first one that does not hold is d, or none.
ChainOK(rows, d) ==
    /\ LegacyFirst(rows)
    /\ d = 0 => \A i \in 1..Len(rows) : Holds(rows, i)
    /\ d # 0 => /\ d \in 1..Len(rows) /\ ~Holds(rows, d)
                /\ \A i \in 1..(d - 1) : Holds(rows, i)

HeadHash(rows) == IF rows = <<>> THEN NoHash ELSE Last(rows).hash

ChainInv ==
    /\ ChainOK(log, damage)
    /\ durable.damage = 0 /\ ChainOK(durable.log, 0)
    /\ ~disturbed => /\ damage = 0
                     /\ \A i \in 1..Len(log) : log[i].values # Edited
    /\ \A p \in Procs : pc[p] = "insert" => head[p] = HeadHash(log)

LEMMA CarriedIsPrevious ==
  ASSUME NEW rows \in Seq(RowType), LegacyFirst(rows), NEW i \in 1..Len(rows)
  PROVE  Carried(rows, i) = PrevHash(rows, i)
<1> DEFINE before == {j \in Hashed(rows) : j < i}
<1>1. DOMAIN rows = 1..Len(rows) /\ Len(rows) \in Nat
  BY LenProperties
<1>2. CASE i = 1
  <2>1. before = {}
    BY <1>1, <1>2 DEF Hashed
  <2> QED
    BY <2>1, <1>2 DEF Carried, PrevHash
<1>3. CASE i # 1 /\ rows[i - 1].hash = NoHash
  <2>1. before = {}
    BY <1>1, <1>3 DEF Hashed, LegacyFirst
  <2>2. Carried(rows, i) = NoHash
    BY <2>1 DEF Carried
  <2> QED
    BY <2>2, <1>3 DEF PrevHash
<1>4. CASE i # 1 /\ rows[i - 1].hash # NoHash
  <2>1. i - 1 \in before /\ \A k \in before : k <= i - 1 /\ k \in Nat
    BY <1>1, <1>4 DEF Hashed
  <2>2. \A j \in before : (\A k \in before : k <= j) => j = i - 1
    BY <2>1
  <2>3. (CHOOSE j \in before : \A k \in before : k <= j) = i - 1
    BY <2>1, <2>2
  <2>4. before # {}
    BY <2>1
  <2>5. Carried(rows, i) = rows[i - 1].hash
    BY <2>3, <2>4 DEF Carried
  <2> QED
    BY <2>5, <1>4 DEF PrevHash
<1> QED
  BY <1>2, <1>3, <1>4

LEMMA HoldsIsRowHolds ==
  ASSUME NEW rows \in Seq(RowType), LegacyFirst(rows), NEW i \in 1..Len(rows)
  PROVE  RowHolds(rows, i) <=> Holds(rows, i)
  BY CarriedIsPrevious DEF RowHolds, Holds

LEMMA BrokenIdIsDamage ==
  ASSUME NEW rows \in Seq(RowType), NEW d \in Nat, ChainOK(rows, d)
  PROVE  BrokenId(rows) = d
<1> DEFINE broken == {i \in DOMAIN rows : ~RowHolds(rows, i)}
<1>1. DOMAIN rows = 1..Len(rows) /\ Len(rows) \in Nat
  BY LenProperties
<1>2. \A i \in 1..Len(rows) : RowHolds(rows, i) <=> Holds(rows, i)
  BY HoldsIsRowHolds DEF ChainOK
<1>3. CASE d = 0
  <2>1. broken = {}
    BY <1>1, <1>2, <1>3 DEF ChainOK
  <2> QED
    BY <2>1, <1>3 DEF BrokenId
<1>4. CASE d # 0
  <2>1. d \in broken /\ \A k \in broken : d <= k /\ k \in Nat
    BY <1>1, <1>2, <1>4 DEF ChainOK
  <2>2. \A j \in broken : (\A k \in broken : j <= k) => j = d
    BY <2>1
  <2>3. (CHOOSE j \in broken : \A k \in broken : j <= k) = d
    BY <2>1, <2>2
  <2>4. broken # {}
    BY <2>1
  <2> QED
    BY <2>3, <2>4 DEF BrokenId
<1> QED
  BY <1>3, <1>4
LEMMA AppendKeepsChain ==
  ASSUME NEW rows \in Seq(RowType), NEW d \in Nat, ChainOK(rows, d), NEW v \in Values
  PROVE  ChainOK(Append(rows, Row(HeadHash(rows), v)), d)
<1> DEFINE r == Row(HeadHash(rows), v)
           new == Append(rows, r)
           n == Len(rows)
<1>1. n \in Nat /\ Len(new) = n + 1 /\ new[n + 1] = r /\ \A i \in 1..n : new[i] = rows[i]
  BY LenProperties
<1>2. r.prev = HeadHash(rows) /\ r.values = v /\ r.hash = ChainHash(HeadHash(rows), v)
  BY DEF Row
<1>3. HeadHash(rows) \in Seq(Values)
  <2>1. CASE rows = <<>>
    BY <2>1 DEF HeadHash, NoHash
  <2>2. CASE rows # <<>>
    <3>1. n \in 1..n
      BY <2>2, EmptySeq
    <3>2. rows[n] \in RowType
      BY <3>1, ElementOfSeq
    <3> QED
      BY <2>2, <3>2 DEF HeadHash, Last, RowType
  <2> QED
    BY <2>1, <2>2
<1>4. r.hash # NoHash
  BY <1>2, <1>3 DEF ChainHash, NoHash
<1>5. HeadHash(rows) = PrevHash(new, n + 1)
  <2>1. CASE n = 0
    <3>1. rows = <<>>
      BY <2>1, EmptySeq
    <3> QED
      BY <2>1, <3>1 DEF HeadHash, PrevHash
  <2>2. CASE n # 0
    <3>1. rows # <<>> /\ n \in 1..n
      BY <1>1, <2>2
    <3> QED
      BY <1>1, <2>2, <3>1 DEF HeadHash, PrevHash, Last
  <2> QED
    BY <2>1, <2>2
<1> HIDE DEF r, new, n
<1>6. \A i \in 1..n : Holds(new, i) <=> Holds(rows, i)
  <2> TAKE i \in 1..n
  <2>1. new[i] = rows[i] /\ PrevHash(new, i) = PrevHash(rows, i)
    BY <1>1 DEF PrevHash
  <2> QED
    BY <2>1 DEF Holds
<1>7. Holds(new, n + 1)
  BY <1>1, <1>2, <1>5 DEF Holds
<1>8. LegacyFirst(new)
  <2>1. ASSUME NEW i \in 1..(n + 1), NEW j \in 1..(n + 1), i < j, new[i].hash # NoHash
        PROVE  new[j].hash # NoHash
    <3>1. CASE j = n + 1
      BY <1>1, <1>4, <3>1
    <3>2. CASE j # n + 1
      <4>1. i \in 1..n /\ j \in 1..n
        BY <1>1, <2>1, <3>2
      <4> QED
        BY <1>1, <2>1, <4>1 DEF ChainOK, LegacyFirst, n
    <3> QED
      BY <3>1, <3>2
  <2> QED
    BY <1>1, <2>1 DEF LegacyFirst
<1>9. ChainOK(new, d)
  <2>1. ASSUME d = 0 PROVE \A i \in 1..(n + 1) : Holds(new, i)
    BY <1>1, <1>6, <1>7, <2>1 DEF ChainOK, n
  <2>2. ASSUME d # 0
        PROVE  /\ d \in 1..(n + 1) /\ ~Holds(new, d)
               /\ \A i \in 1..(d - 1) : Holds(new, i)
    <3>1. d \in 1..n /\ ~Holds(rows, d) /\ \A i \in 1..(d - 1) : Holds(rows, i)
      BY <2>2 DEF ChainOK, n
    <3>2. \A i \in 1..(d - 1) : i \in 1..n
      BY <1>1, <3>1
    <3> QED
      BY <1>1, <1>6, <3>1, <3>2
  <2> QED
    BY <1>1, <1>8, <2>1, <2>2 DEF ChainOK
<1> QED
  BY <1>9 DEF new, r

LEMMA EditBreaksChain ==
  ASSUME NEW rows \in Seq(RowType), ChainOK(rows, 0), NEW i \in Hashed(rows),
         rows[i].values # Edited
  PROVE  ChainOK([rows EXCEPT ![i].values = Edited], i)
<1> DEFINE new == [rows EXCEPT ![i].values = Edited]
<1>1. /\ Len(rows) \in Nat /\ i \in 1..Len(rows) /\ rows[i].hash # NoHash
      /\ rows \in [1..Len(rows) -> RowType]
  BY LenProperties DEF Hashed
<1>2. [rows[i] EXCEPT !.values = Edited] \in RowType
  BY <1>1 DEF RowType, Values
<1>3. new \in Seq(RowType) /\ Len(new) = Len(rows)
      /\ \A j \in 1..Len(rows) :
            new[j] = IF j = i THEN [rows[i] EXCEPT !.values = Edited] ELSE rows[j]
  BY <1>1, <1>2, ExceptSeq
<1> HIDE DEF new
<1>4. \A j \in 1..Len(rows) : new[j].hash = rows[j].hash /\ new[j].prev = rows[j].prev
  BY <1>1, <1>3, ZenonT(40) DEF RowType
<1>5. \A j \in 1..Len(rows) : PrevHash(new, j) = PrevHash(rows, j)
  BY <1>1, <1>4 DEF PrevHash
<1>6. LegacyFirst(new)
  BY <1>3, <1>4 DEF ChainOK, LegacyFirst
<1>7. ~Holds(new, i)
  <2>1. rows[i].hash = ChainHash(PrevHash(rows, i), rows[i].values)
    BY <1>1 DEF ChainOK, Holds
  <2>2. PrevHash(rows, i) \in Seq(Values) /\ rows[i].values \in Values /\ Edited \in Values
    BY <1>1 DEF PrevHash, NoHash, RowType, Values
  <2>3. ChainHash(PrevHash(rows, i), rows[i].values) # ChainHash(PrevHash(rows, i), Edited)
    BY <2>2 DEF ChainHash
  <2>4. new[i].values = Edited
    BY <1>1, <1>3 DEF RowType
  <2> QED
    BY <1>1, <1>4, <1>5, <2>1, <2>3, <2>4 DEF Holds
<1>8. \A j \in 1..(i - 1) : Holds(new, j)
  <2> TAKE j \in 1..(i - 1)
  <2>1. j \in 1..Len(rows) /\ j # i
    BY <1>1
  <2>2. new[j] = rows[j] /\ Holds(rows, j)
    BY <1>3, <2>1 DEF ChainOK
  <2> QED
    BY <1>5, <2>1, <2>2 DEF Holds
<1>9. ChainOK(new, i)
  BY <1>1, <1>3, <1>6, <1>7, <1>8 DEF ChainOK
<1> QED
  BY <1>9 DEF new
\* Only a hashed row with rows after it is missed when it is gone.
LEMMA DeleteLeavesGap ==
  ASSUME NEW rows \in Seq(RowType), ChainOK(rows, 0), NEW i \in DOMAIN rows
  PROVE  ChainOK(RemoveAt(rows, i), IF i \in Hashed(rows) /\ i < Len(rows) THEN i ELSE 0)
<1> DEFINE new == RemoveAt(rows, i)
           n == Len(rows)
           d == IF i \in Hashed(rows) /\ i < n THEN i ELSE 0
<1>1. n \in Nat /\ DOMAIN rows = 1..n /\ i \in 1..n
  BY LenProperties
<1>2. /\ new \in Seq(RowType) /\ Len(new) = n - 1
      /\ \A j \in 1..(n - 1) : new[j] = IF j < i THEN rows[j] ELSE rows[j + 1]
  BY <1>1, RemoveAtProperties
<1> HIDE DEF new, n
<1>3. \A j \in 1..n : Holds(rows, j)
  BY DEF ChainOK, n
<1>4. \A j, k \in 1..n : j < k /\ rows[j].hash # NoHash => rows[k].hash # NoHash
  BY DEF ChainOK, LegacyFirst, n
<1>5. LegacyFirst(new)
  <2>1. ASSUME NEW j \in 1..(n - 1), NEW k \in 1..(n - 1), j < k, new[j].hash # NoHash
        PROVE  new[k].hash # NoHash
    <3> DEFINE J == IF j < i THEN j ELSE j + 1
               K == IF k < i THEN k ELSE k + 1
    <3>1. J \in 1..n /\ K \in 1..n /\ J < K
      BY <1>1, <2>1
    <3>2. new[j] = rows[J] /\ new[k] = rows[K]
      BY <1>2
    <3> QED
      BY <1>4, <2>1, <3>1, <3>2
  <2> QED
    BY <1>2, <2>1 DEF LegacyFirst
<1>6. \A j \in 1..(n - 1) : j < i => Holds(new, j)
  <2> TAKE j \in 1..(n - 1)
  <2> HAVE j < i
  <2>1. new[j] = rows[j] /\ PrevHash(new, j) = PrevHash(rows, j)
    BY <1>1, <1>2 DEF PrevHash
  <2>2. Holds(rows, j)
    BY <1>1, <1>3
  <2> QED
    BY <2>1, <2>2 DEF Holds
<1>7. CASE i \in Hashed(rows) /\ i < n
  <2>1. d = i /\ i \in 1..(n - 1) /\ i # 0 /\ new[i] = rows[i + 1]
    BY <1>1, <1>2, <1>7
  <2>2. i + 1 \in 1..n /\ rows[i].hash # NoHash
    BY <1>1, <1>7 DEF Hashed
  <2>3. rows[i + 1].hash # NoHash
    BY <1>1, <1>4, <2>2
  <2>4. rows[i + 1].prev = rows[i].hash
    <3>1. Holds(rows, i + 1) /\ PrevHash(rows, i + 1) = rows[i].hash
      BY <1>1, <1>3, <2>2 DEF PrevHash
    <3> QED
      BY <2>3, <3>1 DEF Holds
  <2>5. rows[i].hash # PrevHash(rows, i)
    <3>1. rows[i].hash = Append(PrevHash(rows, i), rows[i].values)
      BY <1>1, <1>3, <2>2 DEF Holds, ChainHash
    <3>2. PrevHash(rows, i) \in Seq(Values)
      <4>1. CASE i = 1
        BY <4>1 DEF PrevHash, NoHash
      <4>2. CASE i # 1
        <5>1. rows[i - 1] \in RowType
          BY <1>1, <4>2, ElementOfSeq
        <5> QED
          BY <4>2, <5>1 DEF PrevHash, RowType
      <4> QED
        BY <4>1, <4>2
    <3>3. rows[i].values \in Values
      <4>1. rows[i] \in RowType
        BY <1>1, ElementOfSeq DEF n
      <4> QED
        BY <4>1 DEF RowType
    <3>4. Len(Append(PrevHash(rows, i), rows[i].values)) # Len(PrevHash(rows, i))
      BY <3>2, <3>3
    <3> QED
      BY <3>1, <3>4
  <2>6. PrevHash(new, i) = PrevHash(rows, i)
    BY <1>1, <1>2 DEF PrevHash
  <2>7. ~Holds(new, i)
    BY <2>1, <2>3, <2>4, <2>5, <2>6 DEF Holds
  <2>8. \A j \in 1..(i - 1) : Holds(new, j)
    BY <1>1, <1>6, <2>1
  <2>9. ChainOK(new, i)
    BY <1>2, <1>5, <2>1, <2>7, <2>8 DEF ChainOK
  <2> QED
    BY <1>7, <2>9 DEF new, n
<1>8. CASE ~(i \in Hashed(rows) /\ i < n)
  <2>1. ASSUME NEW j \in 1..(n - 1) PROVE Holds(new, j)
    <3>1. CASE j < i
      BY <1>6, <3>1
    <3>2. CASE ~(j < i)
      <4>1. i < n /\ rows[i].hash = NoHash /\ j + 1 \in 1..n
        BY <1>1, <1>8, <3>2 DEF Hashed
      <4>2. new[j] = rows[j + 1] /\ Holds(rows, j + 1)
        BY <1>2, <1>3, <3>2, <4>1
      <4>3. PrevHash(rows, j + 1) = rows[j].hash
        BY <1>1 DEF PrevHash
      <4>4. rows[j].hash = PrevHash(new, j)
        <5>1. CASE j = i /\ i = 1
          BY <4>1, <5>1 DEF PrevHash
        <5>2. CASE j = i /\ i # 1
          <6>1. new[i - 1] = rows[i - 1] /\ i - 1 \in 1..n
            BY <1>1, <1>2, <4>1, <5>2
          <6>2. rows[i - 1].hash = NoHash
            BY <1>1, <1>4, <4>1, <6>1
          <6> QED
            BY <4>1, <5>2, <6>1, <6>2 DEF PrevHash
        <5>3. CASE j # i
          <6>1. j - 1 \in 1..(n - 1) /\ ~(j - 1 < i) /\ j # 1
            BY <1>1, <3>2, <5>3
          <6>2. new[j - 1] = rows[(j - 1) + 1] /\ (j - 1) + 1 = j
            BY <1>2, <6>1
          <6> QED
            BY <6>1, <6>2 DEF PrevHash
        <5> QED
          BY <5>1, <5>2, <5>3
      <4> QED
        BY <4>2, <4>3, <4>4 DEF Holds
    <3> QED
      BY <3>1, <3>2
  <2>2. ChainOK(new, 0)
    BY <1>2, <1>5, <2>1 DEF ChainOK
  <2> QED
    BY <1>8, <2>2 DEF new, n
<1> QED
  BY <1>7, <1>8
-----------------------------------------------------------------------------
(* The log as the processes, and what befalls it, leave it.                  *)

LEMMA ChainInit == Init => ChainInv
<1> SUFFICES ASSUME Init PROVE ChainInv
  OBVIOUS
<1>1. log = <<>> \/ log = <<LegacyRow>> \/ log = <<LegacyRow, Row(NoHash, Old)>>
  BY DEF Init
<1>2. LegacyRow.hash = NoHash /\ LegacyRow.values = Old
  BY DEF LegacyRow
<1>3. LET r == Row(NoHash, Old)
      IN  r.prev = NoHash /\ r.hash = ChainHash(NoHash, r.values) /\ r.values = Old
  BY DEF Row
<1>4. ChainHash(NoHash, Old) # NoHash
  BY DEF ChainHash, NoHash
<1>5. ChainOK(log, 0) /\ \A i \in 1..Len(log) : log[i].values # Edited
  <2>1. CASE log = <<>>
    BY <2>1 DEF ChainOK, LegacyFirst
  <2>2. CASE log = <<LegacyRow>>
    <3>1. Len(log) = 1 /\ log[1] = LegacyRow
      BY <2>2
    <3> QED
      BY <3>1, <1>2, AuditAssumption DEF ChainOK, LegacyFirst, Holds
  <2>3. CASE log = <<LegacyRow, Row(NoHash, Old)>>
    <3>1. Len(log) = 2 /\ log[1] = LegacyRow /\ log[2] = Row(NoHash, Old)
      BY <2>3
    <3>2. PrevHash(log, 2) = NoHash
      BY <3>1, <1>2 DEF PrevHash
    <3>3. Holds(log, 1) /\ Holds(log, 2)
      BY <3>1, <3>2, <1>2, <1>3 DEF Holds
    <3>4. LegacyFirst(log)
      BY <3>1, <1>2, <1>3, <1>4 DEF LegacyFirst
    <3>5. 1..Len(log) = {1, 2}
      BY <3>1
    <3> QED
      BY <3>1, <3>3, <3>4, <3>5, <1>2, <1>3, AuditAssumption DEF ChainOK
  <2> QED
    BY <1>1, <2>1, <2>2, <2>3
<1>6. damage = 0 /\ durable.damage = 0 /\ durable.log = log /\ \A p \in Procs : pc[p] = "idle"
  BY DEF Init
<1> QED
  BY <1>5, <1>6 DEF ChainInv

LEMMA ChainNext == TypeOK /\ ChainInv /\ [Next]_vars => ChainInv'
<1> SUFFICES ASSUME TypeOK, ChainInv, [Next]_vars PROVE ChainInv'
  OBVIOUS
<1>a. /\ log \in Seq(RowType) /\ damage \in Nat
      /\ pc \in [Procs -> Writing \cup {"idle", "check", "head", "ended"}]
      /\ head \in [Procs -> Seq(Values)]
      /\ \A q \in Procs : lock = q <=> pc[q] \in {"head", "insert"}
  BY DEF TypeOK
<1>1. ASSUME NEW p \in Procs, Commit(p) PROVE ChainInv'
  <2>1. /\ pc[p] = "insert" /\ lock = p /\ pc' = [pc EXCEPT ![p] = "ended"]
        /\ log' = Append(log, Row(head[p], p))
        /\ UNCHANGED <<damage, durable, head, disturbed>>
    BY <1>1, <1>a DEF Commit, Goto
  <2>2. head[p] = HeadHash(log)
    BY <2>1 DEF ChainInv
  <2>3. ChainOK(log', damage)
    BY <1>a, <2>1, <2>2, AppendKeepsChain DEF ChainInv, Values
  <2>4. \A q \in Procs : pc'[q] # "insert"
    BY <1>a, <2>1
  <2>5. ASSUME \A i \in 1..Len(log) : log[i].values # Edited
        PROVE  \A i \in 1..Len(log') : log'[i].values # Edited
    <3>1. Len(log') = Len(log) + 1 /\ log'[Len(log) + 1].values = p
          /\ \A i \in 1..Len(log) : log'[i] = log[i]
      BY <1>a, <2>1 DEF Row
    <3>2. Len(log) \in Nat
      BY <1>a
    <3>3. ASSUME NEW i \in 1..Len(log') PROVE log'[i].values # Edited
      <4>1. CASE i = Len(log) + 1
        BY <3>1, <4>1, AuditAssumption
      <4>2. CASE i \in 1..Len(log)
        BY <2>5, <3>1, <4>2
      <4> QED
        BY <3>1, <3>2, <3>3, <4>1, <4>2
    <3> QED
      BY <3>3
  <2> QED
    BY <2>1, <2>3, <2>4, <2>5 DEF ChainInv
<1>2. ASSUME NEW p \in Procs, ReadHead(p) PROVE ChainInv'
  <2>1. /\ head' = [head EXCEPT ![p] = HeadHash(log)]
        /\ pc' = [pc EXCEPT ![p] = "insert"]
        /\ UNCHANGED <<log, damage, durable, disturbed>>
    BY <1>2 DEF ReadHead, Goto, db, HeadHash
  <2>2. \A q \in Procs : pc'[q] = "insert" => head'[q] = HeadHash(log)
    BY <1>a, <2>1 DEF ChainInv
  <2> QED
    BY <2>1, <2>2 DEF ChainInv
<1>3. ASSUME NEW p \in Procs, Step(p), ~Commit(p), ~ReadHead(p) PROVE ChainInv'
  <2>1. /\ UNCHANGED <<log, damage, durable, head, disturbed>>
        /\ \E there \in Writing \cup {"check", "head", "ended"} :
              pc' = [pc EXCEPT ![p] = there] /\ (there = "insert" => pc[p] = "insert")
    <3>1. CASE CheckMigration(p) \/ ApplyStatement(p)
      BY <1>a, <3>1 DEF CheckMigration, ApplyStatement, Goto, db, Writing
    <3>2. CASE ~(CheckMigration(p) \/ ApplyStatement(p))
      BY <1>3, <3>2 DEF Step, Connect, CreateBookkeeping, DuplicateColumn, RecordMigration,
         Begin, Busy, IoError, Crash, Fail, Goto, db, Writing
    <3> QED
      BY <3>1, <3>2
  <2>2. \A q \in Procs : pc'[q] = "insert" => pc[q] = "insert"
    BY <1>a, <2>1
  <2> QED
    BY <2>1, <2>2 DEF ChainInv
<1>4. ASSUME Checkpoint PROVE ChainInv'
  <2>1. /\ ~disturbed /\ durable'.log = log /\ durable'.damage = damage
        /\ UNCHANGED <<log, damage, pc, head, disturbed>>
    BY <1>4 DEF Checkpoint, db, local
  <2> QED
    BY <2>1 DEF ChainInv
<1>5. ASSUME PowerLoss PROVE ChainInv'
  <2>1. /\ log' = durable.log /\ damage' = durable.damage /\ durable' = durable /\ disturbed'
        /\ \A p \in Procs : pc'[p] # "insert"
    BY <1>5 DEF PowerLoss
  <2> QED
    BY <2>1 DEF ChainInv
<1>6. ASSUME Edit PROVE ChainInv'
  <2>1. PICK i \in Hashed(log) : log' = [log EXCEPT ![i].values = Edited] /\ damage' = i
    BY <1>6 DEF Edit
  <2>2. ~disturbed /\ disturbed' /\ UNCHANGED <<durable, pc>> /\ lock = None
    BY <1>6 DEF Edit, local
  <2>3. ChainOK(log, 0) /\ log[i].values # Edited
    <3>1. i \in 1..Len(log)
      BY <1>a, LenProperties DEF Hashed
    <3> QED
      BY <2>2, <3>1 DEF ChainInv
  <2>4. ChainOK(log', damage')
    BY <1>a, <2>1, <2>3, EditBreaksChain
  <2>5. \A p \in Procs : pc'[p] # "insert"
    BY <1>a, <2>2, AuditAssumption
  <2> QED
    BY <2>2, <2>4, <2>5 DEF ChainInv
<1>7. ASSUME Delete PROVE ChainInv'
  <2>1. PICK i \in DOMAIN log :
            /\ log' = RemoveAt(log, i)
            /\ damage' = IF i \in Hashed(log) /\ i < Len(log) THEN i ELSE damage
    BY <1>7 DEF Delete
  <2>2. ~disturbed /\ disturbed' /\ UNCHANGED <<durable, pc>> /\ lock = None
    BY <1>7 DEF Delete, local
  <2>3. ChainOK(log, 0) /\ damage = 0
    BY <2>2 DEF ChainInv
  <2>4. ChainOK(log', damage')
    BY <1>a, <2>1, <2>3, DeleteLeavesGap
  <2>5. \A p \in Procs : pc'[p] # "insert"
    BY <1>a, <2>2, AuditAssumption
  <2> QED
    BY <2>2, <2>4, <2>5 DEF ChainInv
<1>8. ASSUME UNCHANGED vars PROVE ChainInv'
  BY <1>8 DEF vars, db, local, ChainInv
<1> QED
  BY <1>1, <1>2, <1>3, <1>4, <1>5, <1>6, <1>7, <1>8 DEF Next, Finished

LEMMA ChainHolds == Spec => [](TypeOK /\ ChainInv)
<1>1. Spec => [](TypeOK /\ Places)
  BY TypeInit, TypeNext, PTL DEF Spec
<1> QED
  BY <1>1, ChainInit, ChainNext, PTL DEF Spec

\* verify reports no damage that nobody did: concurrent writers, deaths and
\* power losses leave the chain whole (insert, verify).
THEOREM NoFalseAlarm == Spec => []ChainIntact
<1>1. TypeOK /\ ChainInv => ChainIntact
  BY BrokenIdIsDamage DEF TypeOK, ChainInv, ChainIntact
<1> QED
  BY <1>1, ChainHolds, PTL

\* verify points at the row that was edited, or before which one was deleted,
\* and no insert ever heals the chain again (verify).
THEOREM DamageIsFound == Spec => []DamageFound
<1>1. TypeOK /\ ChainInv => DamageFound
  BY BrokenIdIsDamage DEF TypeOK, ChainInv, DamageFound
<1> QED
  BY <1>1, ChainHolds, PTL

-----------------------------------------------------------------------------
(* What insert has said, and the rows there are.                             *)

\* No two rows are one process'.
OnceEach(rows) ==
    \A i, j \in 1..Len(rows) :
        rows[i].values = rows[j].values /\ rows[i].values \in Procs => i = j

\* A process is recorded when it ends, never sooner, and its row stays until
\* somebody takes it; what a power loss would bring back is there already.
RecordInv ==
    /\ OnceEach(log) /\ OnceEach(durable.log)
    /\ \A p \in Procs :
          /\ p \in ValuesOf(log) => outcome[p] = "recorded"
          /\ outcome[p] = "recorded" => pc[p] = "ended" /\ p \in ValuesOf(log) \cup lost
    /\ ~disturbed => ValuesOf(durable.log) \subseteq ValuesOf(log)

LEMMA RecordInit == Init => RecordInv
<1> SUFFICES ASSUME Init PROVE RecordInv
  OBVIOUS
<1>1. log = <<>> \/ log = <<LegacyRow>> \/ log = <<LegacyRow, Row(NoHash, Old)>>
  BY DEF Init
<1>2. LegacyRow.values = Old /\ Row(NoHash, Old).values = Old
  BY DEF LegacyRow, Row
<1>3. \A i \in 1..Len(log) : log[i].values = Old
  BY <1>1, <1>2
<1>4. log \in Seq(RowType) /\ durable.log = log /\ \A p \in Procs : outcome[p] = "none"
  BY TypeInit DEF TypeOK, Init
<1>5. OnceEach(log) /\ \A p \in Procs : p \notin ValuesOf(log)
  BY <1>3, <1>4, LenProperties, AuditAssumption DEF OnceEach, ValuesOf
<1> QED
  BY <1>4, <1>5 DEF RecordInv

\* The values there are after each of the things that can happen to the rows.
LEMMA AppendValues ==
  ASSUME NEW rows \in Seq(RowType), NEW r \in RowType, OnceEach(rows),
         r.values \notin ValuesOf(rows)
  PROVE  /\ OnceEach(Append(rows, r))
         /\ ValuesOf(Append(rows, r)) = ValuesOf(rows) \cup {r.values}
<1> DEFINE new == Append(rows, r)
           n == Len(rows)
<1>1. /\ n \in Nat /\ DOMAIN rows = 1..n /\ DOMAIN new = 1..(n + 1) /\ Len(new) = n + 1
      /\ new[n + 1] = r /\ \A i \in 1..n : new[i] = rows[i]
  BY LenProperties
<1> HIDE DEF new
<1>2. \A i \in 1..n : rows[i].values # r.values
  BY <1>1 DEF ValuesOf
<1>3. \A i \in 1..(n + 1) : i \in 1..n \/ i = n + 1
  BY <1>1
<1>4. OnceEach(new)
  <2>1. ASSUME NEW i \in 1..(n + 1), NEW j \in 1..(n + 1),
               new[i].values = new[j].values, new[i].values \in Procs
        PROVE  i = j
    <3>1. CASE i \in 1..n /\ j \in 1..n
      BY <1>1, <2>1, <3>1 DEF OnceEach
    <3>2. CASE ~(i \in 1..n /\ j \in 1..n)
      BY <1>1, <1>2, <1>3, <2>1, <3>2
    <3> QED
      BY <3>1, <3>2
  <2> QED
    BY <1>1, <2>1 DEF OnceEach
<1>5. ValuesOf(new) = ValuesOf(rows) \cup {r.values}
  <2>1. \A v : v \in ValuesOf(new) <=> \E i \in 1..(n + 1) : v = new[i].values
    BY <1>1 DEF ValuesOf
  <2>2. \A v : v \in ValuesOf(rows) <=> \E i \in 1..n : v = rows[i].values
    BY <1>1 DEF ValuesOf
  <2>3. n + 1 \in 1..(n + 1) /\ \A i \in 1..n : i \in 1..(n + 1)
    BY <1>1
  <2> QED
    BY <1>1, <1>3, <2>1, <2>2, <2>3
<1> QED
  BY <1>4, <1>5 DEF new

LEMMA EditValues ==
  ASSUME NEW rows \in Seq(RowType), NEW i \in DOMAIN rows, OnceEach(rows)
  PROVE  LET new == [rows EXCEPT ![i].values = Edited]
         IN  /\ OnceEach(new)
             /\ ValuesOf(new) \subseteq ValuesOf(rows) \cup {Edited}
             /\ \A p \in Procs : p \in ValuesOf(rows) =>
                   p \in ValuesOf(new) \/ p = rows[i].values
<1> DEFINE new == [rows EXCEPT ![i].values = Edited]
           n == Len(rows)
<1>1. n \in Nat /\ DOMAIN rows = 1..n /\ rows[i] \in RowType
  BY LenProperties, ElementOfSeq
<1>2. /\ [rows[i] EXCEPT !.values = Edited].values = Edited
      /\ [rows[i] EXCEPT !.values = Edited] \in RowType
  BY <1>1 DEF RowType, Values
<1>3. /\ DOMAIN new = 1..n /\ new[i].values = Edited
      /\ \A j \in 1..n : j # i => new[j] = rows[j]
  BY <1>1, <1>2
<1>4. Len(new) = n
  BY <1>1, <1>2, ExceptSeq
<1> HIDE DEF new
<1>5. OnceEach(new)
  BY <1>1, <1>3, <1>4, AuditAssumption DEF OnceEach
<1>6. ValuesOf(new) \subseteq ValuesOf(rows) \cup {Edited}
  BY <1>1, <1>3 DEF ValuesOf
<1>7. ASSUME NEW p \in ValuesOf(rows), p # rows[i].values PROVE p \in ValuesOf(new)
  BY <1>1, <1>3, <1>7 DEF ValuesOf
<1> QED
  BY <1>5, <1>6, <1>7 DEF new

LEMMA DeleteValues ==
  ASSUME NEW rows \in Seq(RowType), NEW i \in DOMAIN rows, OnceEach(rows)
  PROVE  LET new == RemoveAt(rows, i)
         IN  /\ OnceEach(new)
             /\ ValuesOf(new) \subseteq ValuesOf(rows)
             /\ \A p \in Procs : p \in ValuesOf(rows) =>
                   p \in ValuesOf(new) \/ p = rows[i].values
<1> DEFINE new == RemoveAt(rows, i)
           n == Len(rows)
<1>1. n \in Nat /\ DOMAIN rows = 1..n /\ i \in 1..n
  BY LenProperties
<1>0. /\ new \in Seq(RowType) /\ Len(new) = n - 1
      /\ \A j \in 1..(n - 1) : new[j] = IF j < i THEN rows[j] ELSE rows[j + 1]
  BY <1>1, RemoveAtProperties
<1> HIDE DEF new
<1>2. /\ Len(new) = n - 1 /\ DOMAIN new = 1..(n - 1)
      /\ \A j \in 1..(n - 1) : new[j] = IF j < i THEN rows[j] ELSE rows[j + 1]
  BY <1>0, LenProperties
<1>3. OnceEach(new)
  <2>1. ASSUME NEW j \in 1..(n - 1), NEW k \in 1..(n - 1),
               new[j].values = new[k].values, new[j].values \in Procs
        PROVE  j = k
    <3> DEFINE J == IF j < i THEN j ELSE j + 1
               K == IF k < i THEN k ELSE k + 1
    <3>1. J \in 1..n /\ K \in 1..n /\ (J = K => j = k)
      BY <1>1
    <3>2. new[j] = rows[J] /\ new[k] = rows[K]
      BY <1>2
    <3>3. J = K
      BY <2>1, <3>1, <3>2 DEF OnceEach
    <3> QED
      BY <3>1, <3>3
  <2> QED
    BY <1>2, <2>1 DEF OnceEach
<1>4. ValuesOf(new) \subseteq ValuesOf(rows)
  <2>1. ASSUME NEW j \in 1..(n - 1) PROVE new[j].values \in ValuesOf(rows)
    <3>1. j \in 1..n /\ j + 1 \in 1..n
      BY <1>1
    <3> QED
      BY <1>1, <1>2, <3>1 DEF ValuesOf
  <2> QED
    BY <1>2, <2>1 DEF ValuesOf
<1>5. ASSUME NEW k \in 1..n, k # i PROVE rows[k].values \in ValuesOf(new)
  <2> DEFINE j == IF k < i THEN k ELSE k - 1
  <2>1. j \in 1..(n - 1) /\ (IF j < i THEN j ELSE j + 1) = k
    BY <1>1, <1>5
  <2>2. new[j] = rows[k]
    BY <1>2, <2>1
  <2> QED
    BY <1>2, <2>1, <2>2 DEF ValuesOf
<1>6. ASSUME NEW p \in ValuesOf(rows), p # rows[i].values PROVE p \in ValuesOf(new)
  <2>1. PICK k \in 1..n : p = rows[k].values
    BY <1>1, <1>6 DEF ValuesOf
  <2> QED
    BY <1>5, <1>6, <2>1
<1> QED
  BY <1>3, <1>4, <1>6 DEF new

LEMMA RecordNext == TypeOK /\ RecordInv /\ [Next]_vars => RecordInv'
<1> SUFFICES ASSUME TypeOK, RecordInv, [Next]_vars PROVE RecordInv'
  OBVIOUS
<1>a. /\ log \in Seq(RowType) /\ durable.log \in Seq(RowType)
      /\ pc \in [Procs -> Writing \cup {"idle", "check", "head", "ended"}]
      /\ outcome \in [Procs -> {"none", "recorded", "busy", "duplicate", "io"}]
      /\ head \in [Procs -> Seq(Values)]
  BY DEF TypeOK
<1>b. DOMAIN log = 1..Len(log)
  BY <1>a, LenProperties
<1>1. ASSUME NEW p \in Procs, Commit(p) PROVE RecordInv'
  <2>1. /\ pc[p] = "insert" /\ pc' = [pc EXCEPT ![p] = "ended"]
        /\ outcome' = [outcome EXCEPT ![p] = "recorded"]
        /\ log' = Append(log, Row(head[p], p))
        /\ UNCHANGED <<durable, lost, disturbed>>
    BY <1>1 DEF Commit, Goto
  <2>2. Row(head[p], p) \in RowType /\ Row(head[p], p).values = p
    BY <1>a, RowInRange DEF Values, Row
  <2>3. p \notin ValuesOf(log)
    BY <2>1 DEF RecordInv
  <2>4. OnceEach(log') /\ ValuesOf(log') = ValuesOf(log) \cup {p}
    BY <1>a, <2>1, <2>2, <2>3, AppendValues DEF RecordInv
  <2>5. /\ pc'[p] = "ended" /\ outcome'[p] = "recorded"
        /\ \A q \in Procs \ {p} : pc'[q] = pc[q] /\ outcome'[q] = outcome[q]
    BY <1>a, <2>1
  <2> QED
    BY <2>1, <2>4, <2>5 DEF RecordInv
<1>2. ASSUME NEW p \in Procs, Step(p), ~Commit(p) PROVE RecordInv'
  <2>1. /\ UNCHANGED <<log, durable, lost, disturbed>>
        /\ pc[p] # "ended"
        /\ \E there \in Writing \cup {"check", "head", "ended"} :
              pc' = [pc EXCEPT ![p] = there]
        /\ \/ UNCHANGED outcome
           \/ \E why \in {"none", "busy", "duplicate", "io"} :
                 outcome' = [outcome EXCEPT ![p] = why]
    <3>1. CASE CheckMigration(p) \/ ApplyStatement(p)
      BY <1>a, <3>1 DEF CheckMigration, ApplyStatement, Goto, db, Writing
    <3>2. CASE Connect(p) \/ CreateBookkeeping(p) \/ RecordMigration(p) \/ Begin(p) \/ ReadHead(p)
      BY <3>2 DEF Connect, CreateBookkeeping, RecordMigration, Begin, ReadHead, Goto, db, Writing
    <3>3. CASE DuplicateColumn(p) \/ Busy(p) \/ IoError(p) \/ Crash(p)
      BY <3>3 DEF DuplicateColumn, Busy, IoError, Crash, Fail, Goto, db, Writing
    <3> QED
      BY <1>2, <3>1, <3>2, <3>3 DEF Step
  <2>2. outcome[p] # "recorded" /\ outcome'[p] # "recorded"
    BY <1>a, <2>1 DEF RecordInv
  <2>3. \A q \in Procs \ {p} : pc'[q] = pc[q] /\ outcome'[q] = outcome[q]
    BY <1>a, <2>1
  <2> QED
    BY <2>1, <2>2, <2>3 DEF RecordInv
<1>3. ASSUME Checkpoint PROVE RecordInv'
  <2>1. /\ durable'.log = log
        /\ UNCHANGED <<log, pc, outcome, lost, disturbed>>
    BY <1>3 DEF Checkpoint, db, local
  <2> QED
    BY <2>1 DEF RecordInv
<1>4. ASSUME PowerLoss PROVE RecordInv'
  <2>1. /\ log' = durable.log /\ durable' = durable /\ ~disturbed /\ disturbed'
        /\ lost' = lost \cup (ValuesOf(log) \ ValuesOf(durable.log))
        /\ outcome' = outcome
        /\ \A p \in Procs : pc[p] = "ended" => pc'[p] = "ended"
    BY <1>4 DEF PowerLoss
  <2>2. ValuesOf(durable.log) \subseteq ValuesOf(log)
    BY <2>1 DEF RecordInv
  <2>3. ASSUME NEW p \in Procs, outcome[p] = "recorded"
        PROVE  pc'[p] = "ended" /\ p \in ValuesOf(log') \cup lost'
    BY <2>1, <2>3 DEF RecordInv
  <2>4. \A p \in Procs : p \in ValuesOf(log') => outcome'[p] = "recorded"
    BY <2>1, <2>2 DEF RecordInv
  <2> QED
    BY <2>1, <2>3, <2>4 DEF RecordInv
<1>5. ASSUME Edit PROVE RecordInv'
  <2>1. PICK i \in Hashed(log) :
           log' = [log EXCEPT ![i].values = Edited] /\ lost' = lost \cup {log[i].values}
    BY <1>5 DEF Edit
  <2>2. disturbed' /\ UNCHANGED <<durable, pc, outcome>> /\ i \in DOMAIN log
    BY <1>5 DEF Edit, local, Hashed
  <2>3. /\ OnceEach(log') /\ ValuesOf(log') \subseteq ValuesOf(log) \cup {Edited}
        /\ \A p \in Procs : p \in ValuesOf(log) => p \in ValuesOf(log') \/ p = log[i].values
    BY <1>a, <2>1, <2>2, EditValues DEF RecordInv
  <2>4. \A p \in Procs : p \in ValuesOf(log') => p \in ValuesOf(log)
    BY <2>3, AuditAssumption
  <2> QED
    BY <2>1, <2>2, <2>3, <2>4 DEF RecordInv
<1>6. ASSUME Delete PROVE RecordInv'
  <2>1. PICK i \in DOMAIN log :
           log' = RemoveAt(log, i) /\ lost' = lost \cup {log[i].values}
    BY <1>6 DEF Delete
  <2>2. disturbed' /\ UNCHANGED <<durable, pc, outcome>>
    BY <1>6 DEF Delete, local
  <2>3. /\ OnceEach(log') /\ ValuesOf(log') \subseteq ValuesOf(log)
        /\ \A p \in Procs : p \in ValuesOf(log) => p \in ValuesOf(log') \/ p = log[i].values
    BY <1>a, <2>1, DeleteValues DEF RecordInv
  <2> QED
    BY <2>1, <2>2, <2>3 DEF RecordInv
<1>7. ASSUME UNCHANGED vars PROVE RecordInv'
  BY <1>7 DEF vars, db, local, RecordInv
<1> QED
  BY <1>1, <1>2, <1>3, <1>4, <1>5, <1>6, <1>7 DEF Next, Finished

\* What the invocations were told is what the log says: a database that was
\* opened has its columns, insert returned Ok exactly for the rows that are
\* there, once each, but for those somebody took away, and every variable keeps
\* its range, whatever races, dies, or loses power (open, migrate, insert).
THEOREM LogSound == Spec => []LogIsSound
<1>1. ASSUME TypeOK, RecordInv PROVE RecordedIffLogged
  <2> SUFFICES ASSUME NEW p \in Procs \ lost
               PROVE  LET rows == {i \in DOMAIN log : log[i].values = p}
                      IN  IF outcome[p] = "recorded" THEN Cardinality(rows) = 1 ELSE rows = {}
    BY DEF RecordedIffLogged
  <2> DEFINE rows == {i \in DOMAIN log : log[i].values = p}
  <2>1. DOMAIN log = 1..Len(log)
    BY <1>1, LenProperties DEF TypeOK
  <2>2. CASE outcome[p] = "recorded"
    <3>1. PICK i \in DOMAIN log : log[i].values = p
      BY <1>1, <2>2 DEF RecordInv, ValuesOf
    <3>2. rows = {i}
      BY <1>1, <2>1, <3>1 DEF RecordInv, OnceEach
    <3> QED
      BY <2>2, <3>2, FS_Singleton
  <2>3. CASE outcome[p] # "recorded"
    <3>1. rows = {}
      BY <1>1, <2>3 DEF RecordInv, ValuesOf
    <3> QED
      BY <2>3, <3>1
  <2> QED
    BY <2>2, <2>3
<1>2. Spec => [](TypeOK /\ RecordInv)
  <2>1. Spec => [](TypeOK /\ Places)
    BY TypeInit, TypeNext, PTL DEF Spec
  <2> QED
    BY <2>1, RecordInit, RecordNext, PTL DEF Spec
<1> QED
  BY <1>1, <1>2, OpensMigrated, PTL DEF LogIsSound
=============================================================================
