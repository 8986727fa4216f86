--------------------------- MODULE SettingsProofs ---------------------------
(* What Settings guarantees for every set of processes, every LOCK_STALE and *)
(* LOCK_ACQUIRE_MAX, and any number of crashes, pauses and failing saves;    *)
(* and, apart from it, what Sources says of the chunks a file is read in,    *)
(* for all files, archives and buffer sizes.  The two share no variable.     *)
EXTENDS Settings, Sources, FiniteSetTheorems, WellFoundedInduction, TLAPS

\* load_or_init never touches the lock, and a with_lock reader never saves.
Roles ==
    /\ \A p \in Initers :
          pc[p] \in {"idle", "mktemp", "write", "rename", "ended", "crashed"}
    /\ \A p \in Readers : pc[p] \notin {"mktemp", "write", "rename"}

\* While no lockfile has outlived Stale: the lockfile of a holder is its own,
\* none is old enough to be reclaimed, and nobody is about to reclaim one.
LockInv ==
    aged = "never" =>
        /\ \A p \in Holders : lock = p
        /\ \A p \in Procs : pc[p] # "reclaim"
        /\ lock # NoLock => now - mtime <= Stale

\* What a Mutator is about to save is the document of this very moment with
\* its own update added, and what it has saved stays in the document.
DataInv ==
    aged = "never" /\ ~defaulted =>
        \A p \in Mutators :
            /\ outcome[p] = "ok" => p \in doc
            /\ pc[p] \in {"mktemp", "write", "rename"} => local[p] = doc \cup {p}

AbsentIsEmpty == file = "absent" => doc = {}

\* A rename only ever moves a completely written temporary file.
RenameInv ==
    /\ file # "torn"
    /\ \A p \in Procs : pc[p] = "rename" => temp[p] = "whole"

\* Every update anybody has read or saved is one whose mutate returned Ok, or
\* the reader's own.
OutcomeInv ==
    /\ \A p \in Mutators :
          outcome[p] = "ok" => pc[p] \in {"release", "ended", "crashed"}
    /\ \A p \in doc : outcome[p] = "ok"
    /\ \A p \in Procs : \A q \in local[p] : q = p \/ outcome[q] = "ok"

-----------------------------------------------------------------------------
(* The variables keep their ranges, and no operation leaves a temporary file *)
(* behind (save).                                                            *)
LEMMA TypeInit == Init => TypeOK
<1> SUFFICES ASSUME Init PROVE TypeOK
  OBVIOUS
<1>1. now \in 0..MaxClock /\ mtime \in 0..now /\ since \in [Procs -> 0..MaxClock]
  BY TimeAssumption DEF Init
<1>2. pc \in [Procs -> PCs] /\ local \in [Procs -> SUBSET Mutators]
  BY DEF Init, PCs
<1>3. /\ temp \in [Procs -> {"none", "torn", "whole"}]
      /\ outcome \in [Procs -> {"none", "ok", "error"}]
      /\ \A p \in Procs : temp[p] = "none" /\ pc[p] = "idle"
  BY DEF Init
<1> QED
  BY <1>1, <1>2, <1>3 DEF Init, TypeOK, FileStates

LEMMA TypeNext == TypeOK /\ [Next]_vars => TypeOK'
<1> SUFFICES ASSUME TypeOK, [Next]_vars PROVE TypeOK'
  OBVIOUS
<1> USE TimeAssumption DEF TypeOK, FileStates, PCs, Waiting, Critical, Goto, Return
<1>1. ASSUME Tick PROVE TypeOK'
  BY <1>1 DEF Tick
<1>2. ASSUME NEW p \in Procs, Begin(p) PROVE TypeOK'
  BY <1>2 DEF Begin
<1>3. ASSUME NEW p \in Procs, Peek(p) PROVE TypeOK'
  BY <1>3 DEF Peek
<1>4. ASSUME NEW p \in Procs, CreateLock(p) PROVE TypeOK'
  BY <1>4 DEF CreateLock
<1>5. ASSUME NEW p \in Procs, StatLock(p) PROVE TypeOK'
  BY <1>5 DEF StatLock
<1>6. ASSUME NEW p \in Procs, ReclaimLock(p) PROVE TypeOK'
  BY <1>6 DEF ReclaimLock, RemoveLockfile
<1>7. ASSUME NEW p \in Procs, Release(p) PROVE TypeOK'
  BY <1>7 DEF Release, RemoveLockfile
<1>8. ASSUME NEW p \in Procs, Load(p) PROVE TypeOK'
  BY <1>8 DEF Load, Leave
<1>9. ASSUME NEW p \in Procs, CreateTemp(p) PROVE TypeOK'
  BY <1>9 DEF CreateTemp
<1>10. ASSUME NEW p \in Procs, WriteTemp(p) PROVE TypeOK'
  BY <1>10 DEF WriteTemp
<1>11. ASSUME NEW p \in Procs, Rename(p) PROVE TypeOK'
  <2>1. defaulted' \in BOOLEAN
    BY <1>11 DEF Rename
  <2> QED
    BY <1>11, <2>1 DEF Rename, Leave
<1>12. ASSUME NEW p \in Procs, SaveFails(p) PROVE TypeOK'
  BY <1>12 DEF SaveFails, Leave
<1>13. ASSUME NEW p \in Procs, Crash(p) PROVE TypeOK'
  BY <1>13 DEF Crash
<1>14. ASSUME UNCHANGED vars PROVE TypeOK'
  BY <1>14 DEF vars
<1> HIDE DEF TypeOK, Waiting, Critical, Goto, Return
<1> QED
  BY <1>1, <1>2, <1>3, <1>4, <1>5, <1>6, <1>7, <1>8, <1>9, <1>10, <1>11,
     <1>12, <1>13, <1>14 DEF Next, Step, Finished

\* Every reachable state of the settings code is well typed, and no finished
\* operation has left a temporary file (save, src/src/settings.rs).
THEOREM TypeCorrect == Spec => []TypeOK
  BY TypeInit, TypeNext, PTL DEF Spec

-----------------------------------------------------------------------------
(* Mutual exclusion while no lockfile has outlived Stale.                    *)

LEMMA RolesNext == TypeOK /\ Roles /\ [Next]_vars => Roles'
<1> SUFFICES ASSUME TypeOK, Roles, [Next]_vars PROVE Roles'
  OBVIOUS
<1> USE ProcsAssumption DEF Roles, Goto, Leave, TypeOK, Procs
<1>1. ASSUME NEW p \in Procs, Begin(p) \/ Peek(p) \/ SaveFails(p) \/ Crash(p)
      PROVE  Roles'
  BY <1>1 DEF Begin, Peek, SaveFails, Crash
<1>2. ASSUME NEW p \in Procs, Step(p) PROVE Roles'
  BY <1>2 DEF Step, CreateLock, StatLock, ReclaimLock, Release, Load, CreateTemp,
              WriteTemp, Rename
<1>3. ASSUME Tick \/ UNCHANGED vars PROVE Roles'
  BY <1>3 DEF Tick, vars
<1> HIDE DEF Roles, Goto, Leave, TypeOK, Procs
<1> QED
  BY <1>1, <1>2, <1>3 DEF Next, Finished

LEMMA LockNext ==
  TypeOK /\ Roles /\ LockInv /\ [Next]_vars => LockInv'
<1> SUFFICES ASSUME TypeOK, Roles, LockInv, [Next]_vars, aged' = "never"
             PROVE  LockInv'
  BY DEF LockInv
<1> USE ProcsAssumption, TimeAssumption
    DEF TypeOK, LockInv, Holders, Critical, Goto
<1>0. aged = "never"
  BY DEF Next, Tick, Begin, Peek, Step, CreateLock, StatLock, ReclaimLock, Release,
         Load, CreateTemp, WriteTemp, Rename, SaveFails, Crash, Finished, vars
<1>1. ASSUME Tick PROVE LockInv'
  BY <1>0, <1>1 DEF Tick
<1>2. ASSUME NEW p \in Procs, Begin(p) \/ Peek(p) PROVE LockInv'
  BY <1>0, <1>2 DEF Begin, Peek, Procs
<1>3. ASSUME NEW p \in Procs, CreateLock(p) PROVE LockInv'
  BY <1>0, <1>3 DEF CreateLock, Procs
<1>4. ASSUME NEW p \in Procs, StatLock(p) PROVE LockInv'
  BY <1>0, <1>4 DEF StatLock, LockIsStale, Procs
<1>5. ASSUME NEW p \in Procs, ReclaimLock(p) PROVE LockInv'
  BY <1>0, <1>5 DEF ReclaimLock
<1>6. ASSUME NEW p \in Procs, Release(p) PROVE LockInv'
  BY <1>0, <1>6 DEF Release, RemoveLockfile, Roles, Procs
<1>7. ASSUME NEW p \in Procs, Load(p) PROVE LockInv'
  BY <1>0, <1>7 DEF Load, Leave, Procs
<1>8. ASSUME NEW p \in Procs, CreateTemp(p) \/ WriteTemp(p) PROVE LockInv'
  BY <1>0, <1>8 DEF CreateTemp, WriteTemp, Procs
<1>9. ASSUME NEW p \in Procs, Rename(p) PROVE LockInv'
  BY <1>0, <1>9 DEF Rename, Leave, Procs
<1>10. ASSUME NEW p \in Procs, SaveFails(p) PROVE LockInv'
  BY <1>0, <1>10 DEF SaveFails, Leave, Procs
<1>11. ASSUME NEW p \in Procs, Crash(p) PROVE LockInv'
  BY <1>0, <1>11 DEF Crash, Procs
<1>12. ASSUME UNCHANGED vars PROVE LockInv'
  BY <1>0, <1>12 DEF vars
<1> HIDE DEF TypeOK, LockInv, Holders, Critical, Goto
<1> QED
  BY <1>1, <1>2, <1>3, <1>4, <1>5, <1>6, <1>7, <1>8, <1>9, <1>10, <1>11, <1>12
     DEF Next, Step, Finished

\* At most one process is between acquire_lock and the drop of its guard, and
\* the lockfile is its own, until some lockfile is older than LOCK_STALE.
THEOREM MutualExclusion == Spec => []Exclusive
<1>1. Init => Roles /\ LockInv
  BY TimeAssumption DEF Init, Roles, LockInv, Holders, Critical, Procs
<1>2. LockInv => Exclusive
  BY DEF LockInv, Exclusive
<1> QED
  BY <1>1, <1>2, TypeInit, TypeNext, RolesNext, LockNext, PTL DEF Spec

-----------------------------------------------------------------------------
(* No lost update: the critical section makes a load-apply-save atomic.      *)

LEMMA AbsentNext == TypeOK /\ AbsentIsEmpty /\ [Next]_vars => AbsentIsEmpty'
<1> SUFFICES ASSUME TypeOK, AbsentIsEmpty, [Next]_vars PROVE AbsentIsEmpty'
  OBVIOUS
<1>1. ASSUME NEW p \in Procs, Rename(p) PROVE AbsentIsEmpty'
  BY <1>1 DEF Rename, TypeOK, AbsentIsEmpty
<1>2. ASSUME NEW p \in Procs, ~Rename(p),
             Begin(p) \/ Peek(p) \/ Step(p) \/ SaveFails(p) \/ Crash(p)
      PROVE  AbsentIsEmpty'
  BY <1>2 DEF AbsentIsEmpty, Begin, Peek, Step, CreateLock, StatLock, ReclaimLock,
              Release, Load, CreateTemp, WriteTemp, SaveFails, Crash
<1> QED
  BY <1>1, <1>2 DEF Next, Tick, Finished, vars, AbsentIsEmpty

LEMMA DataNext ==
  TypeOK /\ Roles /\ LockInv /\ AbsentIsEmpty /\ DataInv /\ [Next]_vars
    => DataInv'
<1> SUFFICES ASSUME TypeOK, Roles, LockInv, AbsentIsEmpty, DataInv,
                    [Next]_vars, aged' = "never", ~defaulted',
                    NEW m \in Mutators
             PROVE  /\ outcome'[m] = "ok" => m \in doc'
                    /\ pc'[m] \in {"mktemp", "write", "rename"} =>
                          local'[m] = doc' \cup {m}
  BY DEF DataInv
<1> DEFINE Goal == /\ outcome'[m] = "ok" => m \in doc'
                   /\ pc'[m] \in {"mktemp", "write", "rename"} =>
                         local'[m] = doc' \cup {m}
<1> m \in Procs /\ m \notin Initers
  BY ProcsAssumption DEF Procs
<1>0. aged = "never"
  BY DEF Next, Tick, Begin, Peek, Step, CreateLock, StatLock, ReclaimLock, Release,
         Load, CreateTemp, WriteTemp, Rename, SaveFails, Crash, Finished, vars, TypeOK, Goto
<1>a. ~defaulted
  BY DEF Next, Tick, Begin, Peek, Step, CreateLock, StatLock, ReclaimLock, Release,
         Load, CreateTemp, WriteTemp, Rename, SaveFails, Crash, Finished, vars
<1>b. /\ outcome[m] = "ok" => m \in doc
      /\ pc[m] \in {"mktemp", "write", "rename"} => local[m] = doc \cup {m}
  BY <1>0, <1>a DEF DataInv
<1>1. ASSUME Tick \/ UNCHANGED vars PROVE Goal
  BY <1>b, <1>1 DEF Tick, vars
<1>2. ASSUME NEW p \in Procs, Begin(p) \/ Peek(p) \/ SaveFails(p) \/ Crash(p)
      PROVE  Goal
  BY <1>b, <1>2 DEF Begin, Peek, SaveFails, Crash, Goto, Return, Leave, TypeOK
<1>3. ASSUME NEW p \in Procs,
             \/ CreateLock(p) \/ StatLock(p) \/ ReclaimLock(p) \/ Release(p)
             \/ CreateTemp(p) \/ WriteTemp(p)
      PROVE  Goal
  BY <1>b, <1>3 DEF CreateLock, StatLock, ReclaimLock, Release, CreateTemp, WriteTemp,
                    Goto, Return, TypeOK
<1>4. ASSUME NEW p \in Procs, Load(p) PROVE Goal
  BY <1>b, <1>4 DEF Load, Leave, Goto, Return, TypeOK, AbsentIsEmpty
<1>5. ASSUME NEW p \in Procs, Rename(p) PROVE Goal
  <2>1. p \notin Initers
    BY <1>5 DEF Rename
  <2>2. p \in Mutators \cup Readers /\ p \in Holders
    BY <1>5, <2>1 DEF Rename, Holders, Critical, Procs
  <2>3. m # p => pc[m] \notin {"mktemp", "write", "rename"}
    BY <1>0, <2>2 DEF LockInv, Holders, Critical
  <2>4. CASE m = p
    BY <1>b, <1>5, <2>1, <2>4 DEF Rename, Leave, Goto, Return, TypeOK
  <2>5. CASE m # p /\ p \in Mutators
    <3>1. local[p] = doc \cup {p}
      BY <1>0, <1>a, <1>5, <2>5 DEF DataInv, Rename
    <3> QED
      BY <1>b, <1>5, <2>3, <2>5, <3>1 DEF Rename, Leave, Goto, Return, TypeOK
  <2> QED
    BY <1>5, <2>2, <2>4, <2>5 DEF Rename, Roles
<1> QED
  BY <1>1, <1>2, <1>3, <1>4, <1>5 DEF Next, Step, Finished

\* An update whose mutate returned Ok stays in settings.json, however many
\* processes run their read-modify-write cycles at once, until a lockfile
\* outlives LOCK_STALE or a load_or_init writes its default.
THEOREM UpdatesKept == Spec => []NoLostUpdate
<1>1. Init => Roles /\ LockInv /\ AbsentIsEmpty /\ DataInv
  BY TimeAssumption
     DEF Init, Roles, LockInv, AbsentIsEmpty, DataInv, Holders, Critical, Procs
<1>2. DataInv => NoLostUpdate
  BY DEF DataInv, NoLostUpdate
<1> QED
  BY <1>1, <1>2, TypeInit, TypeNext, RolesNext, LockNext, AbsentNext, DataNext, PTL
     DEF Spec

-----------------------------------------------------------------------------
(* Atomic replacement and clean failure: these need no lock.                 *)

LEMMA RenameNext == TypeOK /\ RenameInv /\ [Next]_vars => RenameInv'
<1> SUFFICES ASSUME TypeOK, RenameInv, [Next]_vars PROVE RenameInv'
  OBVIOUS
<1> USE DEF TypeOK, RenameInv, Goto, Leave
<1>1. ASSUME NEW p \in Procs, Begin(p) \/ Peek(p) \/ SaveFails(p) \/ Crash(p)
      PROVE  RenameInv'
  BY <1>1 DEF Begin, Peek, SaveFails, Crash
<1>2. ASSUME NEW p \in Procs,
             CreateLock(p) \/ StatLock(p) \/ ReclaimLock(p) \/ Release(p) \/ Load(p)
      PROVE  RenameInv'
  BY <1>2 DEF CreateLock, StatLock, ReclaimLock, Release, Load
<1>3. ASSUME NEW p \in Procs, CreateTemp(p) \/ WriteTemp(p) \/ Rename(p)
      PROVE  RenameInv'
  BY <1>3 DEF CreateTemp, WriteTemp, Rename
<1>4. ASSUME Tick \/ UNCHANGED vars PROVE RenameInv'
  BY <1>4 DEF Tick, vars
<1> HIDE DEF TypeOK, RenameInv, Goto, Leave
<1> QED
  BY <1>1, <1>2, <1>3, <1>4 DEF Next, Step, Finished

\* settings.json is always a whole document (or absent, or corrupt from the
\* start), even when the lock is broken and whoever dies at whatever call.
THEOREM DocumentWhole == Spec => []NeverTorn
<1>1. Init => RenameInv
  BY DEF Init, RenameInv
<1>2. RenameInv => NeverTorn
  BY DEF RenameInv, NeverTorn
<1> QED
  BY <1>1, <1>2, TypeInit, TypeNext, RenameNext, PTL DEF Spec

LEMMA OutcomeNext == TypeOK /\ Roles /\ OutcomeInv /\ [Next]_vars => OutcomeInv'
<1> SUFFICES ASSUME TypeOK, Roles, OutcomeInv, [Next]_vars PROVE OutcomeInv'
  OBVIOUS
<1> USE ProcsAssumption DEF TypeOK, OutcomeInv, Goto, Return, Leave, Procs
<1>1. ASSUME NEW p \in Procs, Begin(p) \/ CreateLock(p) \/ ReclaimLock(p) \/ Release(p)
      PROVE  OutcomeInv'
  BY <1>1 DEF Begin, CreateLock, ReclaimLock, Release
<1>2. ASSUME NEW p \in Procs, StatLock(p) \/ Peek(p) PROVE OutcomeInv'
  BY <1>2 DEF StatLock, Peek
<1>3. ASSUME NEW p \in Procs, Load(p) PROVE OutcomeInv'
  BY <1>3 DEF Load
<1>4. ASSUME NEW p \in Procs, CreateTemp(p) \/ WriteTemp(p) \/ Crash(p)
      PROVE  OutcomeInv'
  BY <1>4 DEF CreateTemp, WriteTemp, Crash
<1>5. ASSUME NEW p \in Procs, Rename(p) PROVE OutcomeInv'
  BY <1>5 DEF Rename
<1>6. ASSUME NEW p \in Procs, SaveFails(p) PROVE OutcomeInv'
  BY <1>6 DEF SaveFails
<1>7. ASSUME Tick \/ UNCHANGED vars PROVE OutcomeInv'
  BY <1>7 DEF Tick, vars
<1> HIDE DEF TypeOK, OutcomeInv, Goto, Return, Leave, Procs
<1> QED
  BY <1>1, <1>2, <1>3, <1>4, <1>5, <1>6, <1>7 DEF Next, Step, Finished

\* A mutate that returns an error has not put its update into settings.json,
\* and never will.
THEOREM ErrorsChangeNothing == Spec => []FailureIsClean
<1>1. Init => Roles /\ OutcomeInv
  BY DEF Init, Roles, OutcomeInv, Procs
<1>2. OutcomeInv => FailureIsClean
  BY DEF OutcomeInv, FailureIsClean
<1> QED
  BY <1>1, <1>2, TypeInit, TypeNext, RolesNext, OutcomeNext, PTL DEF Spec

-----------------------------------------------------------------------------
(* The refinement: every system call is a step of the atomic document, or    *)
(* none.  The rename is the update, the default or the overwriting, and the  *)
(* clock is what ends the trust.                                             *)

\* Nobody has returned before leaving the body of its operation.
Unanswered ==
    \A p \in Procs :
        pc[p] \in {"idle", "create", "stat", "reclaim", "load", "mktemp", "write", "rename"}
            => outcome[p] = "none"

LEMMA UnansweredNext == TypeOK /\ Roles /\ Unanswered /\ [Next]_vars => Unanswered'
<1> SUFFICES ASSUME TypeOK, Roles, Unanswered, [Next]_vars PROVE Unanswered'
  OBVIOUS
<1> USE ProcsAssumption DEF TypeOK, Unanswered, Goto, Return, Leave, Procs, PCs, Waiting, Critical
<1>1. ASSUME NEW p \in Procs, Begin(p) \/ CreateLock(p) \/ ReclaimLock(p) \/ Release(p)
      PROVE  Unanswered'
  BY <1>1 DEF Begin, CreateLock, ReclaimLock, Release
<1>2. ASSUME NEW p \in Procs, StatLock(p) \/ Peek(p) PROVE Unanswered'
  BY <1>2 DEF StatLock, Peek
<1>3. ASSUME NEW p \in Procs, Load(p) PROVE Unanswered'
  BY <1>3 DEF Load
<1>4. ASSUME NEW p \in Procs, CreateTemp(p) \/ WriteTemp(p) \/ Crash(p)
      PROVE  Unanswered'
  BY <1>4 DEF CreateTemp, WriteTemp, Crash
<1>5. ASSUME NEW p \in Procs, Rename(p) PROVE Unanswered'
  BY <1>5 DEF Rename
<1>6. ASSUME NEW p \in Procs, SaveFails(p) PROVE Unanswered'
  BY <1>6 DEF SaveFails
<1>7. ASSUME Tick \/ UNCHANGED vars PROVE Unanswered'
  BY <1>7 DEF Tick, vars
<1> HIDE DEF TypeOK, Unanswered, Goto, Return, Leave, Procs, PCs, Waiting, Critical
<1> QED
  BY <1>1, <1>2, <1>3, <1>4, <1>5, <1>6, <1>7 DEF Next, Step, Finished

\* An Initer that saves found no document, or saves over one, but what it saves
\* is the default.
DefaultInv == \A p \in Initers : local[p] = {}

LEMMA DefaultNext == TypeOK /\ Roles /\ DefaultInv /\ [Next]_vars => DefaultInv'
<1> SUFFICES ASSUME TypeOK, Roles, DefaultInv, [Next]_vars PROVE DefaultInv'
  OBVIOUS
<1> USE ProcsAssumption DEF TypeOK, Roles, DefaultInv, Procs
<1>1. ASSUME NEW p \in Procs, Load(p) PROVE DefaultInv'
  BY <1>1 DEF Load
<1>2. ASSUME NEW p \in Procs, ~Load(p), Begin(p) \/ Peek(p) \/ Step(p) \/ SaveFails(p) \/ Crash(p)
      PROVE  DefaultInv'
  BY <1>2 DEF Begin, Peek, Step, CreateLock, StatLock, ReclaimLock, Release, CreateTemp,
              WriteTemp, Rename, SaveFails, Crash
<1>3. ASSUME Tick \/ UNCHANGED vars PROVE DefaultInv'
  BY <1>3 DEF Tick, vars
<1> HIDE DEF TypeOK, Roles, DefaultInv, Procs
<1> QED
  BY <1>1, <1>2, <1>3 DEF Next, Finished

\* A document that is being saved was not corrupt when it was loaded, and stays so.
SavedOverInv ==
    \A p \in Procs : pc[p] \in {"mktemp", "write", "rename"} => file # "corrupt"

LEMMA SavedOverNext ==
  TypeOK /\ Roles /\ RenameInv /\ SavedOverInv /\ [Next]_vars => SavedOverInv'
<1> SUFFICES ASSUME TypeOK, Roles, RenameInv, SavedOverInv, [Next]_vars PROVE SavedOverInv'
  OBVIOUS
<1> USE DEF TypeOK, SavedOverInv, Goto, Leave
<1>1. ASSUME NEW p \in Procs, Begin(p) \/ Peek(p) \/ SaveFails(p) \/ Crash(p)
      PROVE  SavedOverInv'
  BY <1>1 DEF Begin, Peek, SaveFails, Crash
<1>2. ASSUME NEW p \in Procs, CreateLock(p) \/ StatLock(p) \/ ReclaimLock(p) \/ Release(p)
      PROVE  SavedOverInv'
  BY <1>2 DEF CreateLock, StatLock, ReclaimLock, Release
<1>3. ASSUME NEW p \in Procs, Load(p) PROVE SavedOverInv'
  BY <1>3, ProcsAssumption DEF Load, Procs
<1>4. ASSUME NEW p \in Procs, CreateTemp(p) \/ WriteTemp(p) PROVE SavedOverInv'
  BY <1>4 DEF CreateTemp, WriteTemp
<1>5. ASSUME NEW p \in Procs, Rename(p) PROVE SavedOverInv'
  BY <1>5 DEF Rename, RenameInv
<1>6. ASSUME Tick \/ UNCHANGED vars PROVE SavedOverInv'
  BY <1>6 DEF Tick, vars
<1> HIDE DEF TypeOK, SavedOverInv, Goto, Leave
<1> QED
  BY <1>1, <1>2, <1>3, <1>4, <1>5, <1>6 DEF Next, Step, Finished

\* What a Mutator saves has its own update.
OwnUpdateInv == \A p \in Mutators : pc[p] \in {"mktemp", "write", "rename"} => p \in local[p]

LEMMA OwnUpdateNext == TypeOK /\ Roles /\ OwnUpdateInv /\ [Next]_vars => OwnUpdateInv'
<1> SUFFICES ASSUME TypeOK, Roles, OwnUpdateInv, [Next]_vars PROVE OwnUpdateInv'
  OBVIOUS
<1> USE ProcsAssumption DEF TypeOK, OwnUpdateInv, Goto, Leave, Procs
<1>1. ASSUME NEW p \in Procs, Begin(p) \/ Peek(p) \/ SaveFails(p) \/ Crash(p)
      PROVE  OwnUpdateInv'
  BY <1>1 DEF Begin, Peek, SaveFails, Crash
<1>2. ASSUME NEW p \in Procs, CreateLock(p) \/ StatLock(p) \/ ReclaimLock(p) \/ Release(p)
      PROVE  OwnUpdateInv'
  BY <1>2 DEF CreateLock, StatLock, ReclaimLock, Release
<1>3. ASSUME NEW p \in Procs, Load(p) PROVE OwnUpdateInv'
  BY <1>3 DEF Load
<1>4. ASSUME NEW p \in Procs, CreateTemp(p) \/ WriteTemp(p) \/ Rename(p) PROVE OwnUpdateInv'
  BY <1>4 DEF CreateTemp, WriteTemp, Rename
<1>5. ASSUME Tick \/ UNCHANGED vars PROVE OwnUpdateInv'
  BY <1>5 DEF Tick, vars
<1> HIDE DEF TypeOK, OwnUpdateInv, Goto, Leave, Procs
<1> QED
  BY <1>1, <1>2, <1>3, <1>4, <1>5 DEF Next, Step, Finished

DocumentInv ==
    /\ TypeOK /\ Roles /\ LockInv /\ AbsentIsEmpty /\ DataInv /\ RenameInv /\ OutcomeInv
    /\ Unanswered /\ DefaultInv /\ SavedOverInv /\ OwnUpdateInv

Trusted == aged = "never" /\ ~defaulted

LEMMA RenameRefines ==
  ASSUME DocumentInv, NEW p \in Procs, Rename(p)
  PROVE  \/ AtomicDocument!Update(p) \/ AtomicDocument!WriteDefault(p)
         \/ AtomicDocument!Overwrite(p)
<1>1. /\ pc[p] = "rename" /\ temp[p] = "whole" /\ outcome[p] = "none" /\ file # "corrupt"
      /\ file' = "whole" /\ doc' = local[p] /\ aged' = aged
      /\ outcome' = [outcome EXCEPT ![p] = "ok"]
      /\ defaulted' = (defaulted \/ p \in Initers)
      /\ p \in Initers \/ p \in Mutators
  BY DEF DocumentInv, RenameInv, Unanswered, SavedOverInv, Roles, Rename, Return, Procs
<1>2. CASE p \in Initers
  <2>1. doc' = {}
    BY <1>1, <1>2 DEF DocumentInv, DefaultInv
  <2>2. defaulted' = TRUE
    BY <1>1, <1>2
  <2>3. (aged' = "never" /\ ~defaulted') = FALSE
    BY <2>2
  <2> QED
    BY <1>1, <1>2, <2>1, <2>3 DEF AtomicDocument!WriteDefault, AtomicDocument!Answer
<1>3. CASE p \in Mutators
  <2>1. p \notin Initers
    BY <1>3, ProcsAssumption
  <2>2. defaulted' = defaulted
    BY <1>1, <2>1 DEF DocumentInv, TypeOK
  <2>3. (aged' = "never" /\ ~defaulted') = (aged = "never" /\ ~defaulted)
    BY <1>1, <2>2
  <2>4. CASE Trusted
    <3>1. doc' = doc \cup {p}
      BY <1>1, <1>3, <2>4 DEF DocumentInv, DataInv, Trusted
    <3> QED
      BY <1>1, <1>3, <2>3, <2>4, <3>1 DEF AtomicDocument!Update, AtomicDocument!Answer, Trusted
  <2>5. CASE ~Trusted
    <3>1. local[p] \in SUBSET {q \in Mutators : q = p \/ outcome[q] = "ok"}
      <4>1. local[p] \in SUBSET Mutators
        BY DEF DocumentInv, TypeOK
      <4> QED
        BY <4>1 DEF DocumentInv, OutcomeInv
    <3>2. p \in local[p]
      BY <1>1, <1>3 DEF DocumentInv, OwnUpdateInv
    <3> QED
      BY <1>1, <1>3, <2>3, <2>5, <3>1, <3>2
         DEF AtomicDocument!Overwrite, AtomicDocument!Answer, Trusted
  <2> QED
    BY <2>4, <2>5
<1> QED
  BY <1>1, <1>2, <1>3

LEMMA StepRefines ==
  DocumentInv /\ [Next]_vars => [AtomicDocument!Next]_(AtomicDocument!dvars)
<1> SUFFICES ASSUME DocumentInv, [Next]_vars
             PROVE  [AtomicDocument!Next]_(AtomicDocument!dvars)
  OBVIOUS
<1> DEFINE Stutter == UNCHANGED <<file, doc, outcome, aged, defaulted>>
<1>0. Stutter => UNCHANGED AtomicDocument!dvars
  BY DEF AtomicDocument!dvars
<1>1. ASSUME NEW p \in Procs,
             \/ Begin(p) \/ CreateLock(p) \/ ReclaimLock(p) \/ Release(p)
             \/ CreateTemp(p) \/ WriteTemp(p) \/ Crash(p)
      PROVE  Stutter
  BY <1>1 DEF Begin, CreateLock, ReclaimLock, Release, CreateTemp, WriteTemp, Crash
<1>2. ASSUME NEW p \in Procs, StatLock(p) \/ Load(p) \/ Peek(p) \/ SaveFails(p)
      PROVE  Stutter \/ AtomicDocument!Look(p) \/ AtomicDocument!Refuse(p)
  <2>1. /\ outcome[p] = "none"
        /\ UNCHANGED <<file, doc, aged, defaulted>>
        /\ \/ UNCHANGED outcome
           \/ outcome' = [outcome EXCEPT ![p] = "error"]
           \/ outcome' = [outcome EXCEPT ![p] = "ok"] /\ p \in Readers \cup Initers
    BY <1>2 DEF DocumentInv, Unanswered, Roles, StatLock, Load, Peek, SaveFails, Return, Procs
  <2>2. (aged' = "never" /\ ~defaulted') = (aged = "never" /\ ~defaulted)
    BY <2>1
  <2> QED
    BY <2>1, <2>2 DEF AtomicDocument!Look, AtomicDocument!Refuse, AtomicDocument!Answer
<1>3. ASSUME NEW p \in Procs, Rename(p)
      PROVE  AtomicDocument!Update(p) \/ AtomicDocument!WriteDefault(p) \/ AtomicDocument!Overwrite(p)
  BY <1>3, RenameRefines
<1>4. ASSUME Tick PROVE Stutter \/ AtomicDocument!Outlived
  <2>1. UNCHANGED <<file, doc, outcome, defaulted>>
    BY <1>4 DEF Tick
  <2>2. CASE aged' = aged
    BY <2>1, <2>2
  <2>3. CASE aged' # aged
    <3>1. aged' # "never"
      BY <1>4, <2>3 DEF Tick
    <3>2. (aged' = "never" /\ ~defaulted') = FALSE
      BY <3>1
    <3> QED
      BY <2>1, <3>2 DEF AtomicDocument!Outlived
  <2> QED
    BY <2>2, <2>3
<1>5. ASSUME UNCHANGED vars PROVE Stutter
  BY <1>5 DEF vars
<1>6. Procs = Mutators \cup Readers \cup Initers
  BY DEF Procs
<1> HIDE DEF Stutter
<1> QED
  BY <1>0, <1>1, <1>2, <1>3, <1>4, <1>5, <1>6 DEF Next, Step, Finished, AtomicDocument!Next

\* settings.json is an atomic document: whatever system calls the operations of
\* the processes are made of, whoever dies and whichever save fails, its history
\* is one of operations that took effect one after the other, until a lockfile
\* outlives LOCK_STALE or a default is written without the lock.
THEOREM Refinement == Spec => ImplementsDocument
<1>1. Init => AtomicDocument!Init
  <2> SUFFICES ASSUME Init PROVE AtomicDocument!Init
    OBVIOUS
  <2>1. (aged = "never" /\ ~defaulted) = TRUE
    BY DEF Init
  <2> QED
    BY <2>1 DEF Init, AtomicDocument!Init, Procs
<1>2. Init => DocumentInv
  <2> SUFFICES ASSUME Init PROVE DocumentInv
    OBVIOUS
  <2>1. TypeOK
    BY TypeInit
  <2> QED
    BY <2>1, TimeAssumption
       DEF Init, DocumentInv, Roles, LockInv, AbsentIsEmpty, DataInv, RenameInv, OutcomeInv, Unanswered,
           DefaultInv, SavedOverInv, OwnUpdateInv, Holders, Critical, Procs
<1>3. DocumentInv /\ [Next]_vars => DocumentInv'
  BY TypeNext, RolesNext, LockNext, AbsentNext, DataNext, RenameNext, OutcomeNext, UnansweredNext,
     DefaultNext, SavedOverNext, OwnUpdateNext DEF DocumentInv
<1> QED
  BY <1>1, <1>2, <1>3, StepRefines, PTL DEF Spec, ImplementsDocument, AtomicDocument!Spec

\* The document is whole, holds every update until a lockfile goes stale, and shows no
\* trace of an update that failed.
THEOREM DocumentSound == Spec => []DocumentHolds
<1>1. TypeOK /\ Exclusive /\ NoLostUpdate /\ NeverTorn /\ FailureIsClean => DocumentHolds
  BY DEF DocumentHolds
<1> QED
  BY <1>1, TypeCorrect, MutualExclusion, UpdatesKept, DocumentWhole, ErrorsChangeNothing, PTL

-----------------------------------------------------------------------------
(* The tools the proof needs: a least number, induction, sequences.          *)

LEMMA Least ==
    ASSUME NEW S \in SUBSET Nat, S # {}
    PROVE  \E x \in S : \A y \in S : x <= y
<1>1. PICK s \in S : TRUE
  OBVIOUS
<1> DEFINE Small == {x \in S : x <= s}
           Under(y) == {z \in Small : z < y}
           Unders == {Under(y) : y \in Small}
           Smaller == StrictSubsetOrdering(Small)
<1>2. IsFiniteSet(Small)
  <2>1. s \in Nat /\ 0 \in Int /\ s \in Int
    OBVIOUS
  <2>2. IsFiniteSet(0..s)
    BY <2>1, FS_Interval
  <2>3. Small \subseteq 0..s
    <3> SUFFICES ASSUME NEW z \in S, z <= s PROVE z \in 0..s
      OBVIOUS
    <3>1. z \in Nat
      OBVIOUS
    <3> QED
      BY ONLY <2>1, <3>1, z <= s
  <2> QED
    BY <2>2, <2>3, FS_Subset
<1>3. IsWellFoundedOn(Smaller, SUBSET Small)
  BY <1>2, FS_FiniteSubsetsOfFinite, FS_StrictSubsetOrderingWellFounded, Zenon
<1>4. Unders \subseteq SUBSET Small /\ Unders # {}
  <2>1. s \in Small
    BY <1>1
  <2> QED
    BY <2>1
<1>5. PICK t \in Unders : \A u \in Unders : <<u, t>> \notin Smaller
  <2> HIDE DEF Smaller, Unders
  <2> QED
    BY <1>3, <1>4, WFMin
<1>6. PICK x \in Small : t = Under(x)
  OBVIOUS
<1>7. \A y \in Small : x <= y
  <2> SUFFICES ASSUME NEW y \in Small, y < x PROVE FALSE
    OBVIOUS
  <2>1. Under(y) \subseteq Under(x)
    <3> SUFFICES ASSUME NEW z \in Small, z < y PROVE z < x
      OBVIOUS
    <3>1. x \in Nat /\ y \in Nat /\ z \in Nat
      OBVIOUS
    <3> QED
      BY ONLY <3>1, z < y, y < x
  <2>2. y \in Under(x) /\ y \notin Under(y)
    OBVIOUS
  <2>3. Under(x) \in SUBSET Small /\ Under(y) \in SUBSET Small /\ Under(y) \in Unders
    OBVIOUS
  <2> HIDE DEF Under
  <2>4. <<Under(y), Under(x)>> \in Smaller
    BY <2>1, <2>2, <2>3 DEF StrictSubsetOrdering
  <2> QED
    BY <1>5, <1>6, <2>3, <2>4
<1> QED
  BY <1>1, <1>7

\* Induction, on the set of the numbers that have the property.
LEMMA Induct ==
    ASSUME NEW S, 0 \in S, \A n \in Nat : n \in S => n + 1 \in S
    PROVE  Nat \subseteq S
<1> SUFFICES ASSUME Nat \ S # {} PROVE FALSE
  OBVIOUS
<1>1. PICK n \in Nat \ S : \A m \in Nat \ S : n <= m
  BY Least
<1>2. n # 0 /\ n - 1 \in Nat /\ ~(n <= n - 1)
  BY <1>1
<1>3. n - 1 \in S
  BY <1>1, <1>2
<1> QED
  BY <1>1, <1>2, <1>3, (n - 1) + 1 = n

IsASeq(s) == \E S : s \in Seq(S)

LEMMA AppendFacts ==
    ASSUME NEW s, IsASeq(s), NEW x
    PROVE  /\ Len(s) \in Nat /\ DOMAIN s = 1..Len(s) /\ IsASeq(Append(s, x))
           /\ Len(Append(s, x)) = Len(s) + 1 /\ Append(s, x)[Len(s) + 1] = x
           /\ \A i \in 1..Len(s) : Append(s, x)[i] = s[i]
<1>1. PICK S : s \in Seq(S)
  BY DEF IsASeq
<1> DEFINE R == S \cup {x}
<1>2. s \in Seq(R) /\ x \in R
  BY <1>1
<1> HIDE DEF R
<1>3. Append(s, x) \in Seq(R)
  BY <1>2
<1> QED
  BY <1>2, <1>3 DEF IsASeq

LEMMA OneFacts ==
    ASSUME NEW x
    PROVE  IsASeq(<<x>>) /\ Len(<<x>>) = 1 /\ <<x>>[1] = x /\ \A i \in 1..Len(<<x>>) : i = 1
<1>1. <<x>> \in Seq({x}) /\ Len(<<x>>) = 1 /\ <<x>>[1] = x
  OBVIOUS
<1>2. \A i \in 1..1 : i = 1
  OBVIOUS
<1>3. IsASeq(<<x>>)
  BY <1>1, Zenon DEF IsASeq
<1> QED
  BY <1>1, <1>2, <1>3

LEMMA TailFacts ==
    ASSUME NEW s, IsASeq(s), s # <<>>
    PROVE  /\ Len(s) \in Nat /\ Len(s) > 0 /\ Head(s) = s[1]
           /\ IsASeq(Tail(s)) /\ Len(Tail(s)) = Len(s) - 1 /\ DOMAIN Tail(s) = 1..(Len(s) - 1)
           /\ \A i \in 1..(Len(s) - 1) : Tail(s)[i] = s[i + 1]
<1>1. PICK S : s \in Seq(S)
  BY DEF IsASeq
<1>2. Tail(s) \in Seq(S)
  BY <1>1
<1> QED
  BY <1>1, <1>2 DEF IsASeq

LEMMA ConcFacts ==
    ASSUME NEW s, NEW t, IsASeq(s), IsASeq(t)
    PROVE  /\ Len(s) \in Nat /\ Len(t) \in Nat /\ IsASeq(s \o t)
           /\ Len(s \o t) = Len(s) + Len(t) /\ DOMAIN (s \o t) = 1..(Len(s) + Len(t))
           /\ \A i \in 1..Len(s) : (s \o t)[i] = s[i]
           /\ \A i \in 1..Len(t) : (s \o t)[Len(s) + i] = t[i]
<1>1. PICK S, T : s \in Seq(S) /\ t \in Seq(T)
  BY DEF IsASeq
<1> DEFINE R == S \cup T
<1>2. s \in Seq(R) /\ t \in Seq(R)
  BY <1>1
<1> HIDE DEF R
<1>3. s \o t \in Seq(R)
  BY <1>2
<1> QED
  BY <1>2, <1>3 DEF IsASeq

LEMMA ListFacts ==
    ASSUME NEW n \in Nat, NEW q, q = [i \in 1..n |-> q[i]]
    PROVE  IsASeq(q) /\ Len(q) = n
<1> DEFINE S == {q[i] : i \in 1..n}
<1>1. q \in [1..n -> S]
  OBVIOUS
<1> HIDE DEF S
<1>2. q \in Seq(S)
  BY <1>1
<1> QED
  BY <1>1, <1>2 DEF IsASeq

\* A list of sequences over S makes a sequence over S.
Flattened(q, f) == f = [i \in 1..Len(q) |-> IF i = 1 THEN q[i] ELSE f[i - 1] \o q[i]]

LEMMA FlattenTyped ==
    ASSUME NEW S, NEW n \in Nat, NEW q \in [1..n -> Seq(S)]
    PROVE  FlattenSeq(q) \in Seq(S)
<1> DEFINE Joined(f, i) == IF i = 1 THEN q[i] ELSE f[i - 1] \o q[i]
           Upto(f, m) == \A i \in 1..m : f[i] = Joined(f, i)
           T == {m \in Nat : m <= n => \E f \in [1..n -> Seq(S)] : Upto(f, m)}
<1>1. q \in Seq(Seq(S)) /\ Len(q) = n
  OBVIOUS
<1>2. 0 \in T
  BY <1>1
<1> HIDE DEF Upto
<1>3. ASSUME NEW m \in Nat, m \in T PROVE m + 1 \in T
  <2> SUFFICES ASSUME m + 1 <= n PROVE \E g \in [1..n -> Seq(S)] : Upto(g, m + 1)
    OBVIOUS
  <2>1. PICK f \in [1..n -> Seq(S)] : Upto(f, m)
    BY <1>3
  <2> DEFINE g == [f EXCEPT ![m + 1] = Joined(f, m + 1)]
  <2>2. m + 1 \in 1..n /\ (m + 1 # 1 => m \in 1..n)
    OBVIOUS
  <2>3. Joined(f, m + 1) \in Seq(S)
    BY <2>2
  <2> HIDE DEF Joined
  <2>4. g \in [1..n -> Seq(S)] /\ g[m + 1] = Joined(f, m + 1)
        /\ \A i \in 1..n : i # m + 1 => g[i] = f[i]
    BY <2>2, <2>3
  <2>5. ASSUME NEW i \in 1..(m + 1) PROVE Joined(g, i) = Joined(f, i)
    <3>1. i # 1 => i - 1 \in 1..n /\ i - 1 # m + 1
      BY <2>2
    <3> HIDE DEF g
    <3> QED
      BY <2>4, <3>1 DEF Joined
  <2>6. ASSUME NEW i \in 1..(m + 1) PROVE g[i] = Joined(g, i)
    <3>1. i # m + 1 => i \in 1..m /\ i \in 1..n
      BY <2>2
    <3> HIDE DEF g
    <3> QED
      BY <2>1, <2>4, <2>5, <3>1 DEF Upto
  <2> HIDE DEF g
  <2>7. Upto(g, m + 1)
    BY <2>6 DEF Upto
  <2> QED
    BY <2>4, <2>7
<1>4. Nat \subseteq T
  <2> HIDE DEF T
  <2> QED
    BY <1>2, <1>3, Induct
<1>5. PICK f \in [1..n -> Seq(S)] : Upto(f, n)
  <2>1. n \in T
    BY <1>4
  <2> QED
    BY <2>1
<1>6. Flattened(q, f)
  BY <1>1, <1>5 DEF Flattened, Upto
<1> DEFINE F == CHOOSE h : Flattened(q, h)
<1>7. FlattenSeq(q) = IF n = 0 THEN q ELSE F[n]
  BY <1>1 DEF FlattenSeq, Flattened
<1>8. Flattened(q, F)
  BY <1>6
<1> HIDE DEF F
<1>9. Upto(F, n)
  BY <1>1, <1>8 DEF Flattened, Upto
<1> DEFINE U == {m \in Nat : m \in 1..n => F[m] \in Seq(S)}
<1>10. 0 \in U
  OBVIOUS
<1>11. ASSUME NEW m \in Nat, m \in U PROVE m + 1 \in U
  <2> SUFFICES ASSUME m + 1 \in 1..n PROVE F[m + 1] \in Seq(S)
    OBVIOUS
  <2>1. F[m + 1] = Joined(F, m + 1) /\ q[m + 1] \in Seq(S)
    BY <1>9 DEF Upto
  <2>2. m + 1 # 1 => F[m] \in Seq(S) /\ (m + 1) - 1 = m
    BY <1>11
  <2> QED
    BY <2>1, <2>2
<1>12. Nat \subseteq U
  <2> HIDE DEF U
  <2> QED
    BY <1>10, <1>11, Induct
<1>13. n # 0 => F[n] \in Seq(S)
  BY <1>12
<1>14. n = 0 => q \in Seq(S)
  OBVIOUS
<1> QED
  BY <1>7, <1>13, <1>14

-----------------------------------------------------------------------------
(* What a scan of a directory lists: targets whose files there are.          *)

Names == {Dirs[d][i].name : d \in DOMAIN Dirs, i \in Nat}
         \cup {Dirs[d][i].real : d \in DOMAIN Dirs, i \in Nat}
AnyTarget == {Target(p, l, f) : p \in Names, l \in BOOLEAN, f \in DOMAIN Content}

ScanOfEntry(f, dir, i) ==
    IF Dirs[dir][i].kind # "dir" THEN Consider(dir, Dirs[dir][i])
    ELSE IF <<dir, Dirs[dir][i].name>> \in SkippedPaths THEN <<>> ELSE f[Dirs[dir][i].to]
ScanOf(f, dir) == FlattenSeq([i \in 1..Len(Dirs[dir]) |-> ScanOfEntry(f, dir, i)])
IsScan(f) == f = [dir \in DOMAIN Dirs |-> ScanOf(f, dir)]

LEMMA DirFacts ==
    ASSUME NEW d \in DOMAIN Dirs
    PROVE  /\ Len(Dirs[d]) \in Nat /\ DOMAIN Dirs[d] = 1..Len(Dirs[d])
           /\ \A i \in 1..Len(Dirs[d]) :
                /\ Dirs[d][i].kind \in {"file", "dir", "link"}
                /\ Dirs[d][i].kind = "file" => Dirs[d][i].to \in DOMAIN Content
  BY FileAssumption DEF FileAssumption

LEMMA TargetTyped ==
    ASSUME NEW p \in Names, NEW l \in BOOLEAN, NEW f \in DOMAIN Content
    PROVE  Target(p, l, f) \in AnyTarget
  BY DEF AnyTarget

LEMMA TargetFacts ==
    ASSUME NEW t \in AnyTarget
    PROVE  t.file \in DOMAIN Content
<1>1. PICK p \in Names, l \in BOOLEAN, f \in DOMAIN Content : t = Target(p, l, f)
  BY DEF AnyTarget
<1> QED
  BY <1>1 DEF Target

LEMMA ConsiderTyped ==
    ASSUME NEW d \in DOMAIN Dirs, NEW i \in 1..Len(Dirs[d]), Dirs[d][i].kind # "dir"
    PROVE  Consider(d, Dirs[d][i]) \in Seq(AnyTarget)
<1> DEFINE e == Dirs[d][i]
<1>1. i \in Nat /\ e.kind \in {"file", "link"} /\ (e.kind = "file" => e.to \in DOMAIN Content)
  BY DirFacts
<1>2. e.name \in Names /\ e.real \in Names
  BY <1>1 DEF Names
<1>3. e.to \in DOMAIN Content =>
        Target(e.real, TRUE, e.to) \in AnyTarget /\ Target(e.name, FALSE, e.to) \in AnyTarget
  <2> HIDE DEF e
  <2> QED
    BY <1>2, TargetTyped
<1> DEFINE x == Target(e.real, TRUE, e.to)
           y == Target(e.name, FALSE, e.to)
<1>4. Consider(d, e) \in {<<>>, <<x>>, <<y>>}
      /\ (Consider(d, e) = <<>> \/ e.to \in DOMAIN Content)
  BY <1>1 DEF Consider
<1> HIDE DEF e, x, y
<1>5. CASE e.to \in DOMAIN Content
  <2>1. x \in AnyTarget /\ y \in AnyTarget
    BY <1>3, <1>5 DEF x, y
  <2>2. <<>> \in Seq(AnyTarget) /\ <<x>> \in Seq(AnyTarget) /\ <<y>> \in Seq(AnyTarget)
    BY <2>1
  <2>3. Consider(d, e) \in Seq(AnyTarget)
    BY <1>4, <2>2
  <2> QED
    BY <2>3 DEF e
<1>6. CASE Consider(d, e) = <<>>
  <2>1. <<>> \in Seq(AnyTarget)
    OBVIOUS
  <2> QED
    BY <1>6, <2>1 DEF e
<1> QED
  BY <1>4, <1>5, <1>6

LEMMA ScanExists == \E f : IsScan(f)
<1> DEFINE D == DOMAIN Dirs
           C == Cardinality(D)
<1>1. C \in Nat
  BY FileAssumption, FS_CardinalityType DEF FileAssumption
<1>2. PICK depth \in [D -> 0..C] :
        \A d \in D : \A i \in DOMAIN Dirs[d] :
          Dirs[d][i].kind = "dir" => Dirs[d][i].to \in D /\ depth[Dirs[d][i].to] < depth[d]
  BY FileAssumption DEF FileAssumption
<1> HIDE DEF C
<1> DEFINE Upto(f, k) == /\ f = [d \in D |-> f[d]]
                         /\ \A d \in D : depth[d] < k => f[d] = ScanOf(f, d)
           S == {k \in Nat : \E f : Upto(f, k)}
<1>3. 0 \in S
  <2> DEFINE f == [d \in D |-> <<>>]
  <2>1. \A d \in D : ~(depth[d] < 0)
    BY <1>1
  <2>2. f = [d \in D |-> f[d]]
    OBVIOUS
  <2> HIDE DEF f
  <2> QED
    BY <2>1, <2>2
<1>4. ASSUME NEW k \in Nat, k \in S PROVE k + 1 \in S
  <2>1. PICK f : Upto(f, k)
    BY <1>4
  <2> DEFINE g == [d \in D |-> ScanOf(f, d)]
  <2>2. \A d \in D : depth[d] < k => g[d] = f[d]
    BY <2>1
  <2>3. g = [d \in D |-> g[d]] /\ \A d \in D : g[d] = ScanOf(f, d)
    OBVIOUS
  <2> HIDE DEF g
  <2>4. ASSUME NEW d \in D, depth[d] < k + 1 PROVE ScanOf(f, d) = ScanOf(g, d)
    <3>1. ASSUME NEW i \in 1..Len(Dirs[d]) PROVE ScanOfEntry(f, d, i) = ScanOfEntry(g, d, i)
      <4>1. i \in DOMAIN Dirs[d]
        BY DirFacts
      <4>2. CASE Dirs[d][i].kind = "dir"
        <5> DEFINE to == Dirs[d][i].to
        <5>1. to \in D /\ depth[to] < depth[d]
          BY <1>2, <4>1, <4>2
        <5>2. depth[to] < k
          <6>1. depth[to] \in Int /\ depth[d] \in Int
            BY <1>1, <5>1
          <6> HIDE DEF to
          <6> QED
            BY <2>4, <5>1, <6>1
        <5>3. f[to] = g[to]
          BY <2>2, <5>1, <5>2
        <5> QED
          BY <5>3 DEF ScanOfEntry
      <4>3. CASE Dirs[d][i].kind # "dir"
        BY <4>3 DEF ScanOfEntry
      <4> QED
        BY <4>2, <4>3
    <3>2. [i \in 1..Len(Dirs[d]) |-> ScanOfEntry(f, d, i)]
            = [i \in 1..Len(Dirs[d]) |-> ScanOfEntry(g, d, i)]
      BY <3>1
    <3> QED
      BY <3>2, Zenon DEF ScanOf
  <2>5. Upto(g, k + 1)
    BY <2>3, <2>4
  <2> HIDE DEF Upto
  <2> QED
    BY <2>5
<1>5. Nat \subseteq S
  <2> HIDE DEF S
  <2> QED
    BY <1>3, <1>4, Induct
<1>6. PICK f : Upto(f, C + 1)
  <2>1. C + 1 \in S
    BY <1>1, <1>5
  <2> QED
    BY <2>1
<1>7. \A d \in D : f[d] = ScanOf(f, d)
  <2> SUFFICES ASSUME NEW d \in D PROVE depth[d] < C + 1
    BY <1>6
  <2>1. depth[d] \in 0..C
    BY <1>2
  <2> QED
    BY <1>1, <2>1
<1>8. f = [d \in D |-> ScanOf(f, d)]
  BY <1>6, <1>7
<1> QED
  BY <1>8 DEF IsScan

LEMMA ScanTargetsTyped == ScanTargets[Root] \in Seq(AnyTarget)
<1> DEFINE D == DOMAIN Dirs
           C == Cardinality(D)
<1>1. C \in Nat /\ Root \in D
  BY FileAssumption, FS_CardinalityType DEF FileAssumption
<1>2. PICK depth \in [D -> 0..C] :
        \A d \in D : \A i \in DOMAIN Dirs[d] :
          Dirs[d][i].kind = "dir" => Dirs[d][i].to \in D /\ depth[Dirs[d][i].to] < depth[d]
  BY FileAssumption DEF FileAssumption
<1> HIDE DEF C
<1>3. ScanTargets = CHOOSE f : IsScan(f)
  BY DEF ScanTargets, IsScan, ScanOf, ScanOfEntry
<1>4. IsScan(ScanTargets)
  BY <1>3, ScanExists
<1>5. \A d \in D : ScanTargets[d] = ScanOf(ScanTargets, d)
  BY <1>4 DEF IsScan
<1> DEFINE S == {k \in Nat : \A d \in D : depth[d] < k => ScanTargets[d] \in Seq(AnyTarget)}
<1>6. 0 \in S
  BY <1>1
<1>7. ASSUME NEW k \in Nat, k \in S PROVE k + 1 \in S
  <2> SUFFICES ASSUME NEW d \in D, depth[d] < k + 1 PROVE ScanTargets[d] \in Seq(AnyTarget)
    OBVIOUS
  <2> DEFINE q == [i \in 1..Len(Dirs[d]) |-> ScanOfEntry(ScanTargets, d, i)]
  <2>1. ASSUME NEW i \in 1..Len(Dirs[d])
        PROVE  ScanOfEntry(ScanTargets, d, i) \in Seq(AnyTarget)
    <3>1. i \in DOMAIN Dirs[d]
      BY DirFacts
    <3>2. CASE Dirs[d][i].kind = "dir"
      <4> DEFINE to == Dirs[d][i].to
      <4>1. to \in D /\ depth[to] < depth[d]
        BY <1>2, <3>1, <3>2
      <4>2. depth[to] < k
        <5>1. depth[to] \in Int /\ depth[d] \in Int
          BY <1>1, <4>1
        <5> HIDE DEF to
        <5> QED
          BY <4>1, <5>1
      <4>3. ScanTargets[to] \in Seq(AnyTarget)
        BY <1>7, <4>1, <4>2
      <4> HIDE DEF to
      <4>4. ScanOfEntry(ScanTargets, d, i) = <<>> \/ ScanOfEntry(ScanTargets, d, i) = ScanTargets[to]
        BY <3>2 DEF ScanOfEntry, to
      <4>5. <<>> \in Seq(AnyTarget)
        OBVIOUS
      <4> QED
        BY ONLY <4>3, <4>4, <4>5
    <3>3. CASE Dirs[d][i].kind # "dir"
      BY <3>3, ConsiderTyped DEF ScanOfEntry
    <3> QED
      BY <3>2, <3>3
  <2>2. Len(Dirs[d]) \in Nat /\ q \in [1..Len(Dirs[d]) -> Seq(AnyTarget)]
    BY <2>1, DirFacts
  <2>3. ScanTargets[d] = FlattenSeq(q)
    BY <1>5 DEF ScanOf
  <2> HIDE DEF q
  <2> QED
    BY <2>2, <2>3, FlattenTyped
<1>8. Nat \subseteq S
  <2> HIDE DEF S
  <2> QED
    BY <1>6, <1>7, Induct
<1>9. C + 1 \in S /\ depth[Root] < C + 1
  <2>1. depth[Root] \in 0..C /\ C + 1 \in Nat
    BY <1>1, <1>2
  <2> QED
    BY <1>1, <1>8, <2>1
<1> QED
  BY <1>1, <1>9

-----------------------------------------------------------------------------
(* Where a chunk ends.                                                       *)

IsBreak(b, i, j) == i < j /\ b[i] = "n" /\ b[j] = "n" /\ \A k \in i..j : Blank(b[k])

\* Two newlines end in the white space at `hi` just when a blank line does.
LEMMA TwoNewlines ==
    ASSUME NEW b, NEW lo \in Nat, NEW hi \in Nat
    PROVE  TrailingNewlines(b, lo, hi) >= 2
             <=> \E i, j \in lo..hi : IsBreak(b, i, j) /\ \A k \in i..hi : Blank(b[k])
<1> DEFINE Q == {i \in lo..hi : b[i] = "n" /\ \A j \in i..hi : Blank(b[j])}
<1>1. TrailingNewlines(b, lo, hi) = Cardinality(Q)
  BY DEF TrailingNewlines
<1>2. IsFiniteSet(Q) /\ Q \subseteq lo..hi
  <2>1. Q \subseteq lo..hi
    OBVIOUS
  <2>2. lo \in Int /\ hi \in Int
    OBVIOUS
  <2>3. IsFiniteSet(lo..hi)
    BY <2>2, FS_Interval
  <2> HIDE DEF Q
  <2> QED
    BY <2>1, <2>3, FS_Subset
<1>3. ASSUME Cardinality(Q) >= 2
      PROVE  \E i, j \in lo..hi : IsBreak(b, i, j) /\ \A k \in i..hi : Blank(b[k])
  <2>1. PICK x \in Q : TRUE
    <3>1. Q # {}
      BY <1>3, FS_EmptySet
    <3> QED
      BY <3>1
  <2>2. IsFiniteSet(Q \ {x}) /\ Cardinality(Q \ {x}) = Cardinality(Q) - 1
    BY <1>2, <2>1, FS_RemoveElement
  <2>3. PICK y \in Q \ {x} : TRUE
    <3>1. Cardinality(Q) \in Nat
      BY <1>2, FS_CardinalityType
    <3>2. Cardinality(Q \ {x}) # 0
      BY <1>3, <2>2, <3>1
    <3>3. Q \ {x} # {}
      BY <3>2, FS_EmptySet
    <3> QED
      BY <3>3
  <2>4. ASSUME NEW i \in Q, NEW j \in Q, i < j
        PROVE  IsBreak(b, i, j) /\ \A k \in i..hi : Blank(b[k])
    BY <2>4 DEF IsBreak
  <2>5. x \in Int /\ y \in Int /\ x # y /\ x \in lo..hi /\ y \in lo..hi
    BY <2>1, <2>3
  <2>6. x < y \/ y < x
    BY <2>5
  <2> HIDE DEF Q
  <2> QED
    BY <2>1, <2>3, <2>4, <2>5, <2>6
<1>4. ASSUME NEW i \in lo..hi, NEW j \in lo..hi, IsBreak(b, i, j), \A k \in i..hi : Blank(b[k])
      PROVE  Cardinality(Q) >= 2
  <2>1. i \in Q /\ j \in Q /\ i # j
    BY <1>4 DEF IsBreak
  <2> HIDE DEF Q
  <2>2. IsFiniteSet({i}) /\ Cardinality({i}) = 1
    BY FS_Singleton
  <2>3. Cardinality({i} \cup {j}) = 2
    BY <2>1, <2>2, FS_AddElement
  <2>4. {i} \cup {j} \subseteq Q
    BY <2>1
  <2>5. Cardinality({i} \cup {j}) <= Cardinality(Q)
    BY <1>2, <2>4, FS_Subset
  <2>6. Cardinality(Q) \in Nat
    BY <1>2, FS_CardinalityType
  <2> QED
    BY <2>3, <2>5, <2>6
<1> QED
  BY <1>1, <1>3, <1>4

\* The read ends where it was, in a blank line, or is grown to the first stop.
Stops(b, from, i) ==
    TrailingNewlines(b, from, i) >= 2 \/ i - from >= PeekSize \/ i = Len(b)

LEMMA Boundary ==
    ASSUME NEW b, Len(b) \in Nat, NEW s \in Nat, NEW n \in Nat, n > 0, s + n <= Len(b),
           NEW e, e = ReadUntilSafeBoundary(b, s, n)
    PROVE  /\ e \in (s + n)..Len(b)
           /\ \/ e = s + n /\ TrailingNewlines(b, s + 1, e) >= 2
              \/ Stops(b, s + n, e) /\ \A i \in (s + n)..(e - 1) : ~Stops(b, s + n, i)
<1>1. s + n \in Nat
  OBVIOUS
<1>2. CASE TrailingNewlines(b, s + 1, s + n) >= 2
  <2>1. e = s + n
    BY <1>2 DEF ReadUntilSafeBoundary
  <2> QED
    BY <1>1, <1>2, <2>1
<1>3. CASE ~(TrailingNewlines(b, s + 1, s + n) >= 2)
  <2> DEFINE from == s + n
             First(x) == Stops(b, from, x) /\ \A i \in from..(x - 1) : ~Stops(b, from, i)
             Halts == {x \in from..Len(b) : Stops(b, from, x)}
  <2>1. e = CHOOSE x \in from..Len(b) : First(x)
    BY <1>3 DEF ReadUntilSafeBoundary, Stops
  <2>2. Len(b) \in Halts /\ Halts \subseteq Nat
    BY <1>1 DEF Stops
  <2>3. PICK x \in Halts : \A y \in Halts : x <= y
    <3> HIDE DEF Halts
    <3> QED
      BY <2>2, Least
  <2>4. x \in from..Len(b) /\ First(x)
    <3>1. x \in from..Len(b) /\ Stops(b, from, x)
      BY <2>3
    <3>2. ASSUME NEW i \in from..(x - 1), Stops(b, from, i) PROVE FALSE
      <4>1. i \in from..Len(b) /\ ~(x <= i)
        BY <1>1, <3>1
      <4>2. i \in Halts
        BY <3>2, <4>1
      <4> QED
        BY <2>3, <4>1, <4>2
    <3> QED
      BY <3>1, <3>2
  <2> HIDE DEF First, from
  <2>5. e \in from..Len(b) /\ First(e)
    BY <2>1, <2>4
  <2> QED
    BY <2>5 DEF First, from
<1> QED
  BY <1>2, <1>3

LEMMA ParagraphFacts ==
    ASSUME NEW f \in DOMAIN Content, NEW p \in Paragraphs[f]
    PROVE  /\ p[1] \in 1..Len(Bytes(f)) /\ p[2] \in 1..Len(Bytes(f)) /\ p[1] <= p[2]
           /\ \A i, j \in p[1]..p[2] : ~IsBreak(Bytes(f), i, j)
           /\ p[1] > 1 =>
                \E j \in p[1]..p[2] : IsBreak(Bytes(f), p[1] - 1, j)
<1> DEFINE b == Bytes(f)
           Unbroken(lo, hi) == \A d \in Breaks(b) : ~(lo <= d[1] /\ d[2] <= hi)
<1>1. Len(b) \in Nat
  BY FileAssumption DEF FileAssumption, Bytes
<1>2. /\ p \in (1..Len(b)) \X (1..Len(b)) /\ p[1] <= p[2] /\ Unbroken(p[1], p[2])
      /\ p[1] > 1 => ~Unbroken(p[1] - 1, p[2])
  BY DEF Paragraphs
<1> HIDE DEF b
<1>3. p[1] \in 1..Len(b) /\ p[2] \in 1..Len(b)
  BY <1>2
<1>4. ASSUME NEW i \in p[1]..p[2], NEW j \in p[1]..p[2], IsBreak(b, i, j) PROVE FALSE
  <2>1. i \in 1..Len(b) /\ j \in 1..Len(b)
    BY <1>1, <1>3
  <2>2. <<i, j>> \in Breaks(b)
    BY <1>4, <2>1 DEF Breaks, IsBreak
  <2>3. ~(p[1] <= i /\ j <= p[2])
    BY <1>2, <2>2
  <2> QED
    BY <1>1, <1>3, <2>3
<1>5. ASSUME p[1] > 1 PROVE \E j \in p[1]..p[2] : IsBreak(b, p[1] - 1, j)
  <2>1. PICK d \in Breaks(b) : p[1] - 1 <= d[1] /\ d[2] <= p[2]
    BY <1>2, <1>5
  <2>2. d[1] \in 1..Len(b) /\ d[2] \in 1..Len(b) /\ IsBreak(b, d[1], d[2])
    BY DEF Breaks, IsBreak
  <2>3. d[1] < d[2]
    BY <2>2 DEF IsBreak
  <2>4. ~(p[1] <= d[1])
    BY <1>2, <2>1
  <2>5. d[1] = p[1] - 1 /\ d[2] \in p[1]..p[2]
    BY <1>1, <1>3, <2>1, <2>2, <2>3, <2>4
  <2> QED
    BY <2>2, <2>5
<1> QED
  BY <1>2, <1>3, <1>4, <1>5 DEF b

\* A chunk ends inside a paragraph only if that is longer than the reader looks.
LEMMA BoundaryIsTrue ==
    ASSUME NEW f \in DOMAIN Content, NEW s \in Nat, NEW n \in Nat, n > 0,
           s + n <= Len(Bytes(f)),
           NEW e, e = ReadUntilSafeBoundary(Bytes(f), s, n),
           NEW p \in Paragraphs[f], p[1] <= e, e < p[2],
           HasText(Bytes(f), p[1], e)
    PROVE  p[2] - p[1] >= PeekSize
<1> DEFINE b == Bytes(f)
           P == p[1]
           Q == p[2]
           m == s + n
<1>1. Len(b) \in Nat /\ PeekSize \in Nat
  BY FileAssumption DEF FileAssumption, Bytes
<1>2. /\ e \in m..Len(b)
      /\ \/ e = m /\ TrailingNewlines(b, s + 1, e) >= 2
         \/ Stops(b, m, e) /\ \A i \in m..(e - 1) : ~Stops(b, m, i)
  <2>1. e = ReadUntilSafeBoundary(b, s, n) /\ s + n <= Len(b)
    OBVIOUS
  <2> HIDE DEF b
  <2> QED
    BY <1>1, <2>1, Boundary
<1>3. /\ P \in 1..Len(b) /\ Q \in 1..Len(b) /\ P <= Q
      /\ \A i, j \in P..Q : ~IsBreak(b, i, j)
      /\ P > 1 => \E j \in P..Q : IsBreak(b, P - 1, j)
  BY ParagraphFacts
<1>4. PICK t \in P..e : ~Blank(b[t])
  BY DEF HasText
<1>5. P <= e /\ e < Q
  OBVIOUS
<1> HIDE DEF b, P, Q
<1>6. e \in Nat /\ m \in Nat /\ m > 0 /\ t \in Nat /\ P \in Nat /\ Q \in Nat
  BY <1>1, <1>2, <1>3, <1>4
<1> HIDE DEF m
<1>7. ASSUME NEW lo \in Nat, TrailingNewlines(b, lo, e) >= 2 PROVE FALSE
  <2>1. PICK i \in lo..e, j \in lo..e : IsBreak(b, i, j) /\ \A k \in i..e : Blank(b[k])
    BY <1>6, <1>7, TwoNewlines
  <2>2. i < j
    BY <2>1 DEF IsBreak
  <2>3. CASE P <= i
    <3>1. i \in P..Q /\ j \in P..Q
      BY <1>5, <1>6, <2>1, <2>2, <2>3
    <3> QED
      BY <1>3, <2>1, <3>1
  <2>4. CASE ~(P <= i)
    <3>1. t \in i..e
      BY <1>4, <1>6, <2>1, <2>4
    <3> QED
      BY <1>4, <2>1, <3>1
  <2> QED
    BY <2>3, <2>4
<1>8. Stops(b, m, e) /\ \A i \in m..(e - 1) : ~Stops(b, m, i)
  <2>1. s + 1 \in Nat
    OBVIOUS
  <2> QED
    BY <1>2, <1>7, <2>1
<1>9. e - m >= PeekSize
  <2>1. ~(TrailingNewlines(b, m, e) >= 2)
    BY <1>6, <1>7
  <2>2. e # Len(b)
    BY <1>1, <1>3, <1>5, <1>6
  <2> QED
    BY <1>8, <2>1, <2>2 DEF Stops
<1>10. CASE P <= m
  <2>1. Q - P >= PeekSize
    BY <1>1, <1>5, <1>6, <1>9, <1>10
  <2> QED
    BY <2>1 DEF P, Q
<1>11. CASE ~(P <= m)
  <2>1. PICK j \in P..Q : IsBreak(b, P - 1, j)
    BY <1>3, <1>6, <1>11
  <2>2. P - 1 < j /\ \A k \in (P - 1)..j : Blank(b[k])
    BY <2>1 DEF IsBreak
  <2>3. CASE j < e
    <3>1. P - 1 \in m..j /\ j \in m..j /\ j \in m..(e - 1) /\ j \in Nat
      BY <1>6, <1>11, <2>1, <2>3
    <3>2. TrailingNewlines(b, m, j) >= 2
      BY <1>6, <2>1, <2>2, <3>1, TwoNewlines
    <3> QED
      BY <1>8, <3>1, <3>2 DEF Stops
  <2>4. CASE ~(j < e)
    <3>1. t \in (P - 1)..j
      BY <1>4, <1>6, <2>1, <2>4
    <3> QED
      BY <1>4, <2>2, <3>1
  <2> QED
    BY <2>3, <2>4
<1> QED
  BY <1>10, <1>11

-----------------------------------------------------------------------------
(* The invariant of the readers.                                             *)

FileFields == {"path", "file", "depth", "outer", "link", "at", "first", "lines"}

\* What is open has been read up to `at`; only the innermost file has been begun.
Begun(o) ==
    /\ DOMAIN o = FileFields /\ o.file \in DOMAIN Content
    /\ o.at \in 0..Len(Bytes(o.file)) /\ o.lines = Newlines(o.file, o.at)
OpenInv ==
    /\ targets \in Seq(AnyTarget) /\ IsASeq(open) /\ IsASeq(taken)
    /\ \A i \in 1..Len(open) : Begun(open[i]) /\ (i > 1 => open[i].at = 0)

\* The last fragment is of the file at hand and ends where the next one begins.
FollowsOn ==
    open # <<>> /\ open[1].at > 0 /\ result = "running" /\ ~SkipsFragment(open[1]) =>
        /\ taken # <<>> /\ taken[Len(taken)].path = PathAttr(open[1])
        /\ taken[Len(taken)].to = open[1].at

ChunkInv ==
    /\ source = "none" => result = "idle" /\ taken = <<>> /\ open = <<>> /\ targets = <<>>
    /\ phase # "idle" => source = "git"
    /\ source # "git" => OpenInv /\ FollowsOn /\ ChunksAreTrue

LEMMA ContentFacts ==
    ASSUME NEW f \in DOMAIN Content
    PROVE  /\ Len(Bytes(f)) \in Nat /\ Newlines(f, 0) = 0
           /\ Len(Content[f].members) \in Nat
           /\ \A i \in 1..Len(Content[f].members) : Content[f].members[i].file \in DOMAIN Content
<1>1. {i \in 1..0 : Bytes(f)[i] = "n"} = {}
  OBVIOUS
<1>2. Newlines(f, 0) = 0
  BY <1>1, FS_EmptySet DEF Newlines
<1> QED
  BY <1>2, FileAssumption DEF FileAssumption, Bytes

LEMMA FileFacts ==
    ASSUME NEW path, NEW f \in DOMAIN Content, NEW depth, NEW outer, NEW link
    PROVE  Begun(File(path, f, depth, outer, link)) /\ File(path, f, depth, outer, link).at = 0
  BY ContentFacts DEF File, Begun, FileFields

\* The members an archive gives up are files there are, none of them begun.
LEMMA ArchiveFacts ==
    ASSUME NEW o, o.file \in DOMAIN Content, NEW format
    PROVE  /\ IsASeq(ArchiveFragments(o, format))
           /\ \A i \in 1..Len(ArchiveFragments(o, format)) :
                Begun(ArchiveFragments(o, format)[i]) /\ ArchiveFragments(o, format)[i].at = 0
<1> DEFINE ms == Content[o.file].members
           S == {ms[i] : i \in 1..Len(ms)}
           es == Extract(format, o.file)
           a == ArchiveFragments(o, format)
<1>1. Len(ms) \in Nat /\ \A m \in S : m.file \in DOMAIN Content
  BY ContentFacts
<1>2. ASSUME NEW which PROVE Kept(ms, which) \in Seq(S)
  <2> DEFINE q == [i \in 1..Len(ms) |-> IF i \in which THEN <<ms[i]>> ELSE <<>>]
  <2>1. \A i \in 1..Len(ms) : ms[i] \in S
    OBVIOUS
  <2> HIDE DEF S, ms
  <2>2. q \in [1..Len(ms) -> Seq(S)]
    BY <2>1
  <2>3. Kept(ms, which) = FlattenSeq(q)
    BY DEF Kept
  <2> HIDE DEF q
  <2> QED
    BY <1>1, <2>2, <2>3, FlattenTyped
<1>3. es \in Seq(S)
  <2> HIDE DEF S
  <2>1. \E which : es = Kept(ms, which)
    BY DEF Extract
  <2> QED
    BY <1>2, <2>1
<1> HIDE DEF S, es
<1>4. Len(es) \in Nat /\ \A i \in 1..Len(es) : es[i].file \in DOMAIN Content
  BY <1>1, <1>3
<1> DEFINE M(i) == File(IF format \in Decompressors THEN StripCompressionSuffix(o.path) ELSE es[i].path,
                        es[i].file, o.depth + 1, Append(o.outer, o.path), o.link)
<1>5. a = [i \in 1..Len(es) |-> M(i)]
  BY DEF ArchiveFragments, es
<1>6. ASSUME NEW i \in 1..Len(es) PROVE Begun(M(i)) /\ M(i).at = 0
  BY <1>4, FileFacts
<1> HIDE DEF M
<1> HIDE DEF a
<1>7. a = [i \in 1..Len(es) |-> a[i]] /\ \A i \in 1..Len(es) : a[i] = M(i)
  BY <1>5
<1>8. IsASeq(a) /\ Len(a) = Len(es)
  BY <1>4, <1>7, ListFacts
<1> QED
  BY <1>6, <1>7, <1>8 DEF a

-----------------------------------------------------------------------------
LEMMA EmptyIsASeq == IsASeq(<<>>)
  BY <<>> \in Seq({}) DEF IsASeq

LEMMA ChunkInvInit == SourcesInit => ChunkInv
<1> SUFFICES ASSUME SourcesInit PROVE ChunkInv
  OBVIOUS
<1>1. source = "none" /\ result = "idle" /\ taken = <<>> /\ open = <<>> /\ targets = <<>> /\ phase = "idle"
  BY DEF SourcesInit, ConsumerInit, FileInit, GitInit
<1>2. OpenInv
  BY <1>1, EmptyIsASeq DEF OpenInv
<1>3. FollowsOn /\ ChunksAreTrue
  BY <1>1 DEF FollowsOn, ChunksAreTrue
<1> QED
  BY <1>1, <1>2, <1>3 DEF ChunkInv

\* What was true of the fragments stays true while there are no others.
LEMMA StillTrue ==
    ASSUME ChunksAreTrue, source' = source, taken' = taken, unread \subseteq unread'
    PROVE  ChunksAreTrue'
<1>1. ASSUME NEW k \in 1..Len(taken), IsTrue(k) PROVE IsTrue(k)'
  BY <1>1 DEF IsTrue
<1> QED
  BY <1>1 DEF ChunksAreTrue

LEMMA Unmoved ==
    ASSUME ChunkInv, taken' = taken, source' = source, result' = result, open' = open,
           targets' = targets, phase' = phase, unread \subseteq unread'
    PROVE  ChunkInv'
<1>1. OpenInv => OpenInv'
  BY DEF OpenInv
<1>2. FollowsOn => FollowsOn'
  BY DEF FollowsOn
<1>3. ChunksAreTrue => ChunksAreTrue'
  BY StillTrue
<1> QED
  BY <1>1, <1>2, <1>3 DEF ChunkInv

\* A scan that begins, of files or of standard input.
LEMMA BeginsChunks ==
    ASSUME ChunkInv, ScansFiles \/ ScansStdin, phase' = phase
    PROVE  ChunkInv'
<1>1. source = "none" /\ source' \in {"files", "stdin"} /\ taken' = taken /\ result' = "running"
  BY DEF ScansFiles, ScansStdin, Begins
<1>2. taken = <<>> /\ open = <<>> /\ targets = <<>> /\ phase = "idle" /\ OpenInv
  BY <1>1 DEF ChunkInv
<1>3. targets' \in Seq(AnyTarget)
  <2>1. targets' = ScanTargets[Root] \/ targets' = <<>>
    BY <1>2 DEF ScansFiles, ScansStdin
  <2>2. <<>> \in Seq(AnyTarget)
    OBVIOUS
  <2> QED
    BY ONLY <2>1, <2>2, ScanTargetsTyped
<1>4. open' = <<>> \/ \E f \in Piped : open' = <<File(<<"stdin">>, f, 0, <<>>, FALSE)>>
  BY <1>2 DEF ScansFiles, ScansStdin
<1>5. IsASeq(open') /\ \A i \in 1..Len(open') : i = 1 /\ Begun(open'[1]) /\ open'[1].at = 0
  <2>1. CASE open' = <<>>
    BY <2>1, EmptyIsASeq
  <2>2. ASSUME NEW f \in Piped, open' = <<File(<<"stdin">>, f, 0, <<>>, FALSE)>>
        PROVE  IsASeq(open') /\ \A i \in 1..Len(open') : i = 1 /\ Begun(open'[1]) /\ open'[1].at = 0
    <3> DEFINE x == File(<<"stdin">>, f, 0, <<>>, FALSE)
    <3>1. f \in DOMAIN Content
      BY FileAssumption DEF FileAssumption
    <3>2. Begun(x) /\ x.at = 0
      BY <3>1, FileFacts
    <3> HIDE DEF x
    <3>3. open' = <<x>>
      BY <2>2 DEF x
    <3> QED
      BY <3>2, <3>3, OneFacts
  <2> QED
    BY <1>4, <2>1, <2>2
<1>6. OpenInv'
  BY <1>1, <1>2, <1>3, <1>5, EmptyIsASeq DEF OpenInv, Begun, Bytes, Newlines
<1>7. FollowsOn'
  <2>1. open' # <<>> => 1 \in 1..Len(open')
    BY <1>4
  <2> QED
    BY <1>5, <2>1 DEF FollowsOn
<1>8. ChunksAreTrue'
  BY <1>1, <1>2 DEF ChunksAreTrue
<1> QED
  BY <1>1, <1>2, <1>6, <1>7, <1>8 DEF ChunkInv

LEMMA OpensTargetChunks ==
    ASSUME ChunkInv, OpensTarget, phase' = phase
    PROVE  ChunkInv'
<1>1. /\ source \in {"files", "stdin"} /\ source' = source /\ taken' = taken /\ result' = result
      /\ open = <<>> /\ targets # <<>> /\ targets' = Tail(targets) /\ unread' = unread
  BY DEF OpensTarget, Reading, consumerVars
<1>2. OpenInv /\ ChunksAreTrue
  BY <1>1 DEF ChunkInv
<1>3. targets \in Seq(AnyTarget)
  BY <1>2 DEF OpenInv
<1>4. targets' \in Seq(AnyTarget) /\ Head(targets) \in AnyTarget
  BY <1>1, <1>3
<1>5. Head(targets).file \in DOMAIN Content
  BY <1>4, TargetFacts
<1> DEFINE t == Head(targets)
           x == File(t.path, t.file, 0, <<>>, t.link)
<1>6. open' = <<>> \/ open' = <<x>>
  BY DEF OpensTarget
<1>7. Begun(x) /\ x.at = 0
  BY <1>5, FileFacts
<1> HIDE DEF x
<1>8. IsASeq(<<x>>) /\ Len(<<x>>) = 1 /\ <<x>>[1] = x
  BY OneFacts
<1>9. IsASeq(open') /\ \A i \in 1..Len(open') : i = 1 /\ Begun(open'[1]) /\ open'[1].at = 0
  <2>1. CASE open' = <<>>
    BY <2>1, EmptyIsASeq
  <2>2. CASE open' = <<x>>
    <3>1. \A i \in 1..1 : i = 1
      OBVIOUS
    <3> QED
      BY <1>7, <1>8, <2>2, <3>1
  <2> QED
    BY <1>6, <2>1, <2>2
<1>10. OpenInv'
  BY <1>1, <1>2, <1>4, <1>9 DEF OpenInv, Begun, Bytes, Newlines
<1>11. FollowsOn'
  <2>1. open' # <<>> => 1 \in 1..Len(open')
    BY <1>6, <1>8
  <2> QED
    BY <1>9, <2>1 DEF FollowsOn
<1>12. ChunksAreTrue'
  BY <1>1, <1>2, StillTrue
<1> QED
  BY <1>1, <1>10, <1>11, <1>12 DEF ChunkInv

\* The file is done with, or its members take its place.
LEMMA ReplacesChunks ==
    ASSUME ChunkInv, Reading, open # <<>>, NEW a, IsASeq(a),
           \A i \in 1..Len(a) : Begun(a[i]) /\ a[i].at = 0,
           open' = a \o Tail(open), UNCHANGED consumerVars \/ Ends("error"),
           UNCHANGED <<targets, phase>>, unread \subseteq unread'
    PROVE  ChunkInv'
<1>1. source # "git" /\ source' = source /\ taken' = taken /\ targets' = targets
      /\ source # "none"
  BY DEF Reading, Ends, consumerVars
<1>2. OpenInv /\ ChunksAreTrue
  BY <1>1 DEF ChunkInv
<1> DEFINE u == Tail(open)
<1>3. IsASeq(u) /\ \A i \in 1..Len(u) : Begun(u[i]) /\ u[i].at = 0
  <2>1. IsASeq(open) /\ \A i \in 1..Len(open) : Begun(open[i]) /\ (i > 1 => open[i].at = 0)
    BY <1>2 DEF OpenInv
  <2>2. /\ Len(open) \in Nat /\ IsASeq(u) /\ Len(u) = Len(open) - 1
        /\ \A i \in 1..(Len(open) - 1) : u[i] = open[i + 1]
    BY <2>1, TailFacts
  <2>3. ASSUME NEW i \in 1..Len(u) PROVE i + 1 \in 1..Len(open) /\ i + 1 > 1 /\ u[i] = open[i + 1]
    BY <2>2
  <2> HIDE DEF u
  <2> QED
    BY <2>1, <2>2, <2>3
<1> HIDE DEF u
<1>4. /\ Len(a) \in Nat /\ Len(u) \in Nat /\ IsASeq(a \o u) /\ Len(a \o u) = Len(a) + Len(u)
      /\ \A i \in 1..Len(a) : (a \o u)[i] = a[i]
      /\ \A i \in 1..Len(u) : (a \o u)[Len(a) + i] = u[i]
  BY <1>3, ConcFacts
<1>5. ASSUME NEW i \in 1..Len(a \o u) PROVE Begun((a \o u)[i]) /\ (a \o u)[i].at = 0
  <2>1. CASE i <= Len(a)
    <3>1. i \in 1..Len(a)
      BY <1>4, <2>1
    <3> QED
      BY <1>4, <3>1
  <2>2. CASE ~(i <= Len(a))
    <3>1. i - Len(a) \in 1..Len(u) /\ i = Len(a) + (i - Len(a))
      BY <1>4, <2>2
    <3>2. (a \o u)[i] = u[i - Len(a)]
      BY <1>4, <3>1
    <3> QED
      BY <1>3, <3>1, <3>2
  <2> QED
    BY <2>1, <2>2
<1>6. open' = a \o u
  BY DEF u
<1>7. IsASeq(open') /\ \A i \in 1..Len(open') : Begun(open'[i]) /\ open'[i].at = 0
  BY <1>4, <1>5, <1>6
<1>8. OpenInv'
  BY <1>1, <1>2, <1>7 DEF OpenInv, Begun, Bytes, Newlines
<1>9. FollowsOn'
  <2>1. open' # <<>> => 1 \in 1..Len(open')
    <3>1. PICK S : open' \in Seq(S)
      BY <1>7 DEF IsASeq
    <3> QED
      BY <3>1
  <2> QED
    BY <1>7, <2>1 DEF FollowsOn
<1>10. ChunksAreTrue'
  BY <1>1, <1>2, StillTrue
<1> QED
  BY <1>1, <1>8, <1>9, <1>10 DEF ChunkInv

\* A chunk is read: it follows on from the last and ends where it may, or
\* where a read of the file failed.
LEMMA ReadsChunk ==
    ASSUME ChunkInv, Reading, open # <<>>, NEW n \in Reads(Head(open)), n # 0,
           NEW e \in (Head(open).at + n)..Len(Bytes(Head(open).file)),
           \/ e = ReadUntilSafeBoundary(Bytes(Head(open).file), Head(open).at, n)
           \/ Head(open).file \in unread',
           HandsOn(Head(open), e), UNCHANGED <<targets, phase>>, unread \subseteq unread'
    PROVE  ChunkInv'
<1> DEFINE o == Head(open)
           on == [o EXCEPT !.at = e, !.first = FALSE, !.lines = Newlines(o.file, e)]
           u == Tail(open)
           t == FileFragment(o, e)
<1>0. open' = <<on>> \o u /\ IF SkipsFragment(o) THEN UNCHANGED consumerVars ELSE Yields(t)
  BY DEF HandsOn
<1>1. /\ source \in {"files", "stdin"} /\ result = "running" /\ source' = source
      /\ targets' = targets /\ phase' = phase
  BY <1>0 DEF Reading, Yields, consumerVars
<1>2. OpenInv /\ FollowsOn /\ ChunksAreTrue
  BY <1>1 DEF ChunkInv
<1>3. /\ IsASeq(open) /\ IsASeq(taken)
      /\ \A i \in 1..Len(open) : Begun(open[i]) /\ (i > 1 => open[i].at = 0)
  BY <1>2 DEF OpenInv
<1>4. /\ Len(open) \in Nat /\ Len(open) > 0 /\ o = open[1] /\ IsASeq(u) /\ Len(u) = Len(open) - 1
      /\ \A i \in 1..(Len(open) - 1) : u[i] = open[i + 1]
  BY <1>3, TailFacts
<1>5. Begun(o)
  <2>1. 1 \in 1..Len(open)
    BY <1>4
  <2> QED
    BY <1>3, <1>4, <2>1
<1>6. /\ DOMAIN o = FileFields /\ o.file \in DOMAIN Content /\ o.at \in 0..Len(Bytes(o.file))
      /\ o.lines = Newlines(o.file, o.at)
  BY <1>5 DEF Begun
<1> DEFINE b == Bytes(o.file)
<1>7. Len(b) \in Nat /\ o.at \in Nat /\ PeekSize \in Nat /\ BufferSize \in Nat \ {0}
  BY <1>6, ContentFacts, FileAssumption DEF FileAssumption
<1>8. n \in Nat /\ n > 0 /\ o.at + n <= Len(b)
  <2>1. n \in Nat /\ n <= Len(b) - o.at
    BY <1>6, <1>7 DEF Reads
  <2> QED
    BY <1>7, <2>1
<1>9. e \in (o.at + n)..Len(b)
  OBVIOUS
<1>10. e \in Nat /\ e <= Len(b) /\ e > 0
  BY <1>7, <1>8, <1>9
<1>11. ASSUME o.file \notin unread', NEW p \in Paragraphs[o.file], p[1] <= e, e < p[2],
              HasText(b, p[1], e)
       PROVE  p[2] - p[1] >= PeekSize
  BY <1>6, <1>7, <1>8, <1>11, BoundaryIsTrue
<1>12. /\ DOMAIN on = FileFields /\ on.file = o.file /\ on.path = o.path /\ on.outer = o.outer
       /\ on.at = e /\ on.lines = Newlines(o.file, e)
  BY <1>6 DEF FileFields
<1>13. Begun(on)
  BY <1>6, <1>7, <1>10, <1>12 DEF Begun
<1>14. SkipsFragment(on) = SkipsFragment(o) /\ PathAttr(on) = PathAttr(o)
  BY <1>12 DEF SkipsFragment, PathAttr, FullPath
<1> HIDE DEF on
<1>15. /\ IsASeq(open') /\ Len(open') = Len(open) /\ open'[1] = on
       /\ \A i \in 1..Len(open') : i > 1 => open'[i] = open[i]
  <2>1. <<on>> \in Seq({on}) /\ Len(<<on>>) = 1 /\ <<on>>[1] = on
    OBVIOUS
  <2>2. IsASeq(<<on>>)
    BY <2>1 DEF IsASeq
  <2>3. open' = <<on>> \o u
    BY <1>0
  <2> HIDE DEF u
  <2>4. /\ IsASeq(<<on>> \o u) /\ Len(<<on>> \o u) = Len(<<on>>) + Len(u)
        /\ \A i \in 1..Len(<<on>>) : (<<on>> \o u)[i] = <<on>>[i]
        /\ \A i \in 1..Len(u) : (<<on>> \o u)[Len(<<on>>) + i] = u[i]
    BY <1>4, <2>2, ConcFacts
  <2>5. Len(open') = Len(open) /\ open'[1] = on
    BY <1>4, <2>1, <2>3, <2>4
  <2>6. ASSUME NEW i \in 1..Len(open'), i > 1 PROVE open'[i] = open[i]
    <3>1. i - 1 \in 1..Len(u) /\ i - 1 \in 1..(Len(open) - 1) /\ i = 1 + (i - 1) /\ i = (i - 1) + 1
      BY <1>4, <2>5, <2>6
    <3>2. (<<on>> \o u)[i] = u[i - 1]
      BY <2>1, <2>4, <3>1
    <3> QED
      BY <1>4, <2>3, <3>1, <3>2
  <2> QED
    BY <2>3, <2>4, <2>5, <2>6
<1>16. ASSUME NEW i \in 1..Len(open') PROVE Begun(open'[i]) /\ (i > 1 => open'[i].at = 0)
  BY <1>3, <1>13, <1>15
<1> HIDE DEF o, u, t
<1>17. CASE SkipsFragment(o)
  <2>1. taken' = taken /\ result' = result
    BY <1>0, <1>17 DEF consumerVars
  <2>2. OpenInv'
    BY <1>1, <1>2, <1>15, <1>16, <2>1 DEF OpenInv, Begun, Bytes, Newlines
  <2>3. FollowsOn'
    <3>1. SkipsFragment(open'[1])
      BY <1>14, <1>15, <1>17
    <3> QED
      BY <3>1 DEF FollowsOn, SkipsFragment, PathAttr, FullPath
  <2>4. ChunksAreTrue'
    BY <1>1, <1>2, <2>1, StillTrue
  <2> QED
    BY <1>1, <2>1, <2>2, <2>3, <2>4 DEF ChunkInv
<1>18. CASE ~SkipsFragment(o) /\ result' = "error" /\ taken' = taken
  <2>1. OpenInv'
    BY <1>1, <1>2, <1>15, <1>16, <1>18 DEF OpenInv, Begun, Bytes, Newlines
  <2>2. FollowsOn'
    BY <1>18 DEF FollowsOn
  <2>3. ChunksAreTrue'
    BY <1>1, <1>2, <1>18, StillTrue
  <2> QED
    BY <1>1, <2>1, <2>2, <2>3 DEF ChunkInv
<1>19. CASE ~SkipsFragment(o) /\ result' = result /\ taken' = Append(taken, t)
  <2>0. PICK N : N = Len(taken)
    OBVIOUS
  <2>1. /\ N \in Nat /\ IsASeq(taken') /\ Len(taken') = N + 1 /\ taken'[N + 1] = t
        /\ \A i \in 1..N : taken'[i] = taken[i]
    BY <1>3, <1>19, <2>0, AppendFacts
  <2>2. /\ t.path = PathAttr(o) /\ t.file = o.file /\ t.from = o.at + 1 /\ t.to = e
        /\ t.start = o.lines + 1
    BY DEF t, FileFragment
  <2>3. OpenInv'
    BY <1>1, <1>2, <1>15, <1>16, <2>1 DEF OpenInv, Begun, Bytes, Newlines
  <2>4. FollowsOn'
    <3>1. taken' # <<>>
      BY <1>3, <1>19, <2>1
    <3>2. taken'[Len(taken')].path = PathAttr(open'[1]) /\ taken'[Len(taken')].to = open'[1].at
      BY <1>12, <1>14, <1>15, <2>1, <2>2
    <3> QED
      BY <3>1, <3>2 DEF FollowsOn, PathAttr, FullPath
  <2>5. o.at > 0 => N > 0 /\ taken[N].path = PathAttr(o) /\ taken[N].to = o.at
    <3>1. o.at > 0 => taken # <<>> /\ taken[N].path = PathAttr(o) /\ taken[N].to = o.at
      BY <1>1, <1>2, <1>4, <1>19, <2>0 DEF FollowsOn
    <3>2. taken # <<>> => N > 0
      <4>1. PICK S : taken \in Seq(S)
        BY <1>3 DEF IsASeq
      <4> QED
        BY <2>0, <4>1
    <3> QED
      BY <3>1, <3>2
  <2>6. ASSUME NEW k \in 1..N PROVE IsTrue(k)'
    <3>1. IsTrue(k)
      BY <1>1, <1>2, <2>0 DEF ChunksAreTrue
    <3>2. taken'[k] = taken[k] /\ (k > 1 => taken'[k - 1] = taken[k - 1])
      <4>1. k > 1 => k - 1 \in 1..N
        BY <2>1
      <4> QED
        BY <2>1, <4>1
    <3> QED
      BY <3>1, <3>2 DEF IsTrue
  <2>7. IsTrue(N + 1)'
    <3>1. t.start = 1 + Newlines(t.file, t.from - 1)
      <4>1. t.from - 1 = o.at
        BY <1>7, <2>2
      <4>2. o.lines = Newlines(o.file, o.at) /\ o.lines \in Nat
        <5>1. {i \in 1..o.at : Bytes(o.file)[i] = "n"} \subseteq 1..o.at
          OBVIOUS
        <5>2. IsFiniteSet(1..o.at)
          <6>1. o.at \in Int /\ 1 \in Int
            BY <1>7
          <6> QED
            BY <6>1, FS_Interval
        <5> QED
          BY <1>6, <5>1, <5>2, FS_Subset, FS_CardinalityType DEF Newlines
      <4> QED
        BY <2>2, <4>1, <4>2
    <3>2. t.from > 1 => /\ N + 1 > 1 /\ taken'[(N + 1) - 1].path = t.path
                        /\ taken'[(N + 1) - 1].to = t.from - 1
      <4> SUFFICES ASSUME t.from > 1
                   PROVE  /\ N + 1 > 1 /\ taken'[(N + 1) - 1].path = t.path
                          /\ taken'[(N + 1) - 1].to = t.from - 1
        OBVIOUS
      <4>1. o.at > 0 /\ t.from - 1 = o.at
        BY <1>7, <2>2
      <4>2. N > 0 /\ (N + 1) - 1 = N /\ N \in 1..N
        <5>1. N \in Nat
          BY <2>1
        <5>2. N > 0
          BY <2>5, <4>1
        <5> QED
          BY ONLY <5>1, <5>2
      <4> QED
        BY <2>1, <2>2, <2>5, <4>1, <4>2
    <3>3. t.file \in unread' \/ \A p \in Paragraphs[t.file] :
            p[1] <= t.to /\ t.to < p[2] /\ HasText(Bytes(t.file), p[1], t.to)
              /\ HasText(Bytes(t.file), t.to + 1, p[2]) => p[2] - p[1] >= PeekSize
      BY <1>11, <2>2
    <3> QED
      BY <2>1, <3>1, <3>2, <3>3 DEF IsTrue
  <2>8. ChunksAreTrue'
    <3>1. ASSUME NEW k \in 1..Len(taken') PROVE IsTrue(k)'
      <4>1. k \in 1..N \/ k = N + 1
        BY <2>1
      <4> QED
        BY <2>6, <2>7, <4>1
    <3> QED
      BY <3>1 DEF ChunksAreTrue
  <2> QED
    BY <1>1, <2>3, <2>4, <2>8 DEF ChunkInv
<1> QED
  BY <1>0, <1>17, <1>18, <1>19 DEF Yields

\* The innermost file, and a read of it.
LEMMA HeadFacts ==
    ASSUME ChunkInv, source \in {"files", "stdin"}, open # <<>>
    PROVE  /\ IsASeq(open) /\ Head(open).file \in DOMAIN Content
           /\ Head(open).at \in Nat /\ Len(Bytes(Head(open).file)) \in Nat
           /\ \A n \in Reads(Head(open)) :
                n \in Nat /\ Head(open).at + n <= Len(Bytes(Head(open).file))
<1> DEFINE o == Head(open)
           b == Bytes(o.file)
<1>1. OpenInv
  BY DEF ChunkInv
<1>2. IsASeq(open) /\ Len(open) > 0 /\ Len(open) \in Nat /\ o = open[1]
  BY <1>1, TailFacts DEF OpenInv
<1>3. o.file \in DOMAIN Content /\ o.at \in 0..Len(b)
  BY <1>1, <1>2 DEF OpenInv, Begun
<1>4. Len(b) \in Nat /\ BufferSize \in Nat
  BY <1>3, ContentFacts, FileAssumption DEF FileAssumption
<1>5. ASSUME NEW n \in Reads(o) PROVE n \in Nat /\ o.at + n <= Len(b)
  <2>1. n \in Nat /\ n <= Len(b) - o.at
    BY <1>3, <1>4 DEF Reads
  <2> QED
    BY <1>3, <1>4, <2>1
<1> QED
  BY <1>2, <1>3, <1>4, <1>5

\* The innermost file is left.
LEMMA ClosesChunks ==
    ASSUME ChunkInv, Reading, open # <<>>, open' = Tail(open),
           UNCHANGED consumerVars \/ Ends("error"), UNCHANGED <<targets, phase>>,
           unread \subseteq unread'
    PROVE  ChunkInv'
<1>1. Tail(open) = <<>> \o Tail(open)
  <2>1. PICK S : Tail(open) \in Seq(S)
    BY HeadFacts, TailFacts DEF IsASeq, Reading
  <2> QED
    BY <2>1
<1>2. \A i \in 1..Len(<<>>) : Begun(<<>>[i]) /\ <<>>[i].at = 0
  OBVIOUS
<1> QED
  BY <1>1, <1>2, EmptyIsASeq, ReplacesChunks

LEMMA ReadChunkChunks ==
    ASSUME ChunkInv, ReadChunk, phase' = phase
    PROVE  ChunkInv'
<1> DEFINE o == Head(open)
           E(n) == ReadUntilSafeBoundary(Bytes(o.file), o.at, n)
           A(n) == ArchiveFragments(o, Identify(o.path, o.file, n))
<1>1. Reading /\ open # <<>> /\ UNCHANGED <<targets, phase>> /\ unread \subseteq unread'
  BY DEF ReadChunk
<1>2. PICK n \in Reads(o) :
        \/ open' = A(n) \o Tail(open) /\ UNCHANGED consumerVars
        \/ open' = Tail(open) /\ UNCHANGED consumerVars
        \/ n # 0 /\ HandsOn(o, E(n))
  BY DEF ReadChunk, Closes
<1>3. IsASeq(open) /\ o.file \in DOMAIN Content
  BY <1>1, HeadFacts DEF Reading
<1> HIDE DEF o
<1>4. CASE open' = A(n) \o Tail(open) /\ UNCHANGED consumerVars
  <2>1. IsASeq(A(n)) /\ \A i \in 1..Len(A(n)) : Begun(A(n)[i]) /\ A(n)[i].at = 0
    BY <1>3, ArchiveFacts
  <2> HIDE DEF A
  <2> QED
    BY <1>1, <1>4, <2>1, ReplacesChunks
<1>5. CASE open' = Tail(open) /\ UNCHANGED consumerVars
  BY <1>1, <1>5, ClosesChunks
<1>6. CASE n # 0 /\ HandsOn(o, E(n))
  <2>1. E(n) \in (o.at + n)..Len(Bytes(o.file))
    BY <1>1, <1>2, <1>6, HeadFacts, Boundary DEF o, Reading
  <2> QED
    BY <1>1, <1>2, <1>6, <2>1, ReadsChunk DEF o
<1> QED
  BY <1>2, <1>4, <1>5, <1>6

\* A read that fails: the file is left, or its chunk is cut.
LEMMA ReadFailsChunks ==
    ASSUME ChunkInv, ReadFails, phase' = phase
    PROVE  ChunkInv'
<1> DEFINE o == Head(open)
           b == Bytes(o.file)
           E(n) == ReadUntilSafeBoundary(b, o.at, n)
<1>1. /\ Reading /\ open # <<>> /\ UNCHANGED <<targets, phase>> /\ unread \subseteq unread'
      /\ o.file \in unread'
  BY DEF ReadFails
<1>2. CASE open' = Tail(open) /\ (UNCHANGED consumerVars \/ Ends("error"))
  BY <1>1, <1>2, ClosesChunks
<1>3. ASSUME NEW n \in Reads(o), ~Closes(o, n), NEW e \in (o.at + n)..E(n), HandsOn(o, e)
      PROVE  ChunkInv'
  <2>1. n # 0
    BY <1>3 DEF Closes
  <2>2. E(n) \in (o.at + n)..Len(b) /\ o.at \in Nat /\ n \in Nat /\ Len(b) \in Nat
    BY <1>1, <2>1, HeadFacts, Boundary DEF Reading
  <2> HIDE DEF o, b, E
  <2>3. e \in (o.at + n)..Len(b)
    BY <2>2
  <2> QED
    BY <1>1, <1>3, <2>1, <2>3, ReadsChunk DEF o, b
<1> QED
  BY <1>2, <1>3 DEF ReadFails

\* Every step of the sources keeps the invariant: a scan of history never
\* becomes one of files.
LEMMA ChunkInvNext == ChunkInv /\ [SourcesNext]_sourcesVars => ChunkInv'
<1> SUFFICES ASSUME ChunkInv, [SourcesNext]_sourcesVars PROVE ChunkInv'
  OBVIOUS
<1>1. ASSUME source' = "git" PROVE ChunkInv'
  BY <1>1 DEF ChunkInv
<1>2. ASSUME phase # "idle", source' = source PROVE ChunkInv'
  BY <1>1, <1>2 DEF ChunkInv
<1>3. CASE ScansFiles /\ UNCHANGED gitVars
  BY <1>3, BeginsChunks DEF gitVars
<1>4. CASE ScansStdin /\ UNCHANGED gitVars
  BY <1>4, BeginsChunks DEF gitVars
<1>5. CASE OpensTarget /\ UNCHANGED gitVars
  BY <1>5, OpensTargetChunks DEF gitVars
<1>6. CASE ReadChunk /\ UNCHANGED gitVars
  BY <1>6, ReadChunkChunks DEF gitVars
<1>7. CASE FilesEnd /\ UNCHANGED gitVars
  <2>1. /\ source # "none" /\ source # "git" /\ source' = source /\ taken' = taken
        /\ open' = open /\ open = <<>> /\ targets' = targets /\ phase' = phase
        /\ unread' = unread
    BY <1>7 DEF FilesEnd, Reading, Ends, fileVars, gitVars
  <2>2. OpenInv' /\ FollowsOn' /\ ChunksAreTrue'
    BY <2>1 DEF ChunkInv, OpenInv, FollowsOn, ChunksAreTrue, IsTrue
  <2> QED
    BY <2>1, <2>2 DEF ChunkInv
<1>8. CASE FileFails
  <2>1. phase' = phase
    BY <1>8 DEF FileFails, gitVars
  <2>2. CASE Vanishes
    <3>1. /\ taken' = taken /\ source' = source /\ result' = result /\ open' = open
          /\ targets' = targets /\ unread' = unread
      BY <2>2 DEF Vanishes, consumerVars
    <3> QED
      BY <2>1, <3>1, Unmoved
  <2>3. CASE ReadFails
    BY <2>1, <2>3, ReadFailsChunks
  <2> QED
    BY <1>8, <2>2, <2>3 DEF FileFails
<1>9. CASE GitStep
  <2>1. CASE ScansHistory
    BY <1>1, <2>1 DEF ScansHistory, Begins
  <2>2. CASE ListCommits
    BY <1>2, <2>2 DEF ListCommits, Ends, consumerVars
  <2>3. CASE Joins
    BY <1>2, <2>3 DEF Joins, consumerVars
  <2>4. CASE Emits
    BY <1>2, <2>4 DEF Emits, Yields, consumerVars
  <2>5. CASE Reports
    BY <1>2, <2>5 DEF Reports, Ends
  <2> QED
    BY <1>9, <2>1, <2>2, <2>3, <2>4, <2>5 DEF GitStep
<1>10. ASSUME NEW i \in 1..Workers, Worker(i) \/ WorkerFails(i) PROVE ChunkInv'
  <2>1. UNCHANGED <<targets, open, unread, consumerVars, phase>>
    BY <1>10 DEF Worker, WorkerFails, fileVars, Spawns, WritesSha, Collects, GitPrints, GitExits,
                 Parses, SpawnFails, GitDies, Rest
  <2> QED
    BY <2>1, Unmoved DEF consumerVars
<1>11. CASE UNCHANGED sourcesVars
  BY <1>11, Unmoved DEF sourcesVars, consumerVars, fileVars, gitVars
<1> QED
  BY <1>3, <1>4, <1>5, <1>6, <1>7, <1>8, <1>9, <1>10, <1>11 DEF SourcesNext, FileStep

(* Whatever the files, the archives and the sizes of the buffer and of the   *)
(* look ahead: the fragments of a file follow on from one another without a  *)
(* byte lost or repeated, each starts on the line it says, and none ends     *)
(* inside a paragraph the reader could have gone round, unless a read of the *)
(* file failed.                                                              *)
THEOREM ChunksTrue == SourcesSpec => []ChunksAreTrue
<1>1. SourcesInit => ChunkInv
  BY ChunkInvInit
<1>2. ChunkInv /\ [SourcesNext]_sourcesVars => ChunkInv'
  BY ChunkInvNext
<1>3. ChunkInv => ChunksAreTrue
  BY DEF ChunkInv, ChunksAreTrue
<1> QED
  BY <1>1, <1>2, <1>3, PTL DEF SourcesSpec
=============================================================================
